----------------------------- MODULE PageProofs -----------------------------
(***************************************************************************)
(* Proofs about the memory of the kernel: PageAllocator, for every number of *)
(* pages, regions, processes and sizes, and PageTables, for every number of  *)
(* levels of tables, entries of a table, processes, frames and pages.  The   *)
(* two modules share no state; each has its part of this one.                *)
(*                                                                         *)
(* The heart of the first part is AllocInv: without a race on the head the   *)
(* free list always runs upwards through the usable pages that were not       *)
(* handed out yet, so the pages handed out are exactly those below its head. *)
(*                                                                         *)
(* In the second part the frames that are tables have a role: the owner (a   *)
(* process, or 0 for the kernel, whose tables every top level shares) and     *)
(* the path of indices they are found at.  TablesInv says that there are      *)
(* roles for which the tables are a forest, and a map M from pages to frames  *)
(* that the forest represents: Good below.  The proof takes the operations    *)
(* on memory one by one, shows which roles and which map they lead to, and    *)
(* last what that means for the actions and for the three properties.         *)
(***************************************************************************)
EXTENDS PageAllocator, PageTables, TLAPS, FiniteSetTheorems, WellFoundedInduction,
        SequenceTheorems

Windows == {"page", "index", "zero", "file", "virt", "block"}
Places ==
    {"out", "index", "head", "unlink", "use", "link", "map", "move", "kmove", "carve"}
Registers == [index : Links, page : Links, tail : Links \cup {EmptyList}, virt : Nat]
Block == [page : Nat, from : Nat, bytes : Nat]

TypeOK ==
    /\ boot \in {"make", "filter_head", "filter_rest", "done", "panic"}
    /\ index \in Links /\ linked \in Links /\ regions \in Seq(Links)
    /\ range \in SUBSET Pages
    /\ next \in [Links -> Links]
    /\ free_head \in Links /\ free_tail \in Links
    /\ used_head \in Links /\ used_tail \in Links
    /\ virt \in Nat /\ kpage \in Nat /\ kindex \in Nat
    /\ pc \in [Procs -> Places]
    /\ want \in [Procs -> 0..PAGESIZE]
    /\ taken \in [Procs -> Registers]
    /\ granted \in Seq(Links) /\ mapped \in Seq(Nat) /\ blocks \in Seq(Block)
    /\ raced \in SUBSET Windows
    /\ calls \in Nat
-----------------------------------------------------------------------------
(* Boot.  Nothing is allocated before it ends. *)
Untouched ==
    /\ used_head = 0 /\ used_tail = 0 /\ next[0] = 0
    /\ virt = 1 /\ kpage = 0
    /\ pc = [p \in Procs |-> "out"]
    /\ granted = <<>> /\ mapped = <<>> /\ blocks = <<>>
    /\ raced = {}

(* The links from page k on lead through all pages to m. *)
Straight(k, m) == \A x \in k..m : next[x] = IF x = m THEN 0 ELSE x + 1

(* While pages are added the list is 1..m, m the page added last, also when  *)
(* the second region begins again at 1.                                      *)
Added == IF index = 1 THEN linked ELSE index - 1
MakeInv ==
    boot = "make" =>
        /\ Len(regions) > 0
        /\ index \in Pages
        /\ index = 1 \/ (index <= regions[1] /\ linked = regions[1])
        /\ free_tail = Added
        /\ free_head = IF Added = 0 THEN 0 ELSE 1
        /\ Straight(1, Added)

(* y is the usable page after x, or 0 if x is the last one. *)
Follows(x, y) ==
    IF y = 0 THEN \A z \in Usable : z <= x
    ELSE y \in Usable /\ x < y /\ \A z \in Usable : z <= x \/ y <= z

First ==
    IF free_head = 0 THEN Usable = {}
    ELSE free_head \in Usable /\ \A z \in Usable : free_head <= z

HeadInv ==
    boot = "filter_head" =>
        /\ Straight(1, linked)
        /\ free_head \in 0..linked /\ (free_head = 0 => linked = 0)
        /\ \A x \in 1..(free_head - 1) : x \in range

(* Between x and its successor y are only pages of the kernel, and from y on  *)
(* the list is as make_pages built it.                                       *)
Ahead(x, y) ==
    IF y = 0 THEN \A z \in Usable : z <= x
    ELSE x < y /\ y <= linked /\ Straight(y, linked) /\ \A z \in Usable : z <= x \/ y <= z

RestInv ==
    boot = "filter_rest" =>
        /\ First
        /\ index \in Usable \cup {0}
        /\ \A x \in Usable : index = 0 \/ x < index => Follows(x, next[x])
        /\ index # 0 => Ahead(index, next[index])

DoneInv ==
    /\ boot # "done" => Untouched /\ calls = 0
    /\ boot = "done" /\ calls = 0 => Untouched
    /\ boot = "done" /\ Untouched => First /\ \A x \in Usable : Follows(x, next[x])

BootInv == MakeInv /\ HeadInv /\ RestInv /\ DoneInv
-----------------------------------------------------------------------------
(* Allocation.  Gone are the usable pages below the head. *)
Clean == raced \cap {"page", "zero"} = {}
Gone == {x \in Usable : free_head = 0 \/ x < free_head}

FreeInv ==
    /\ free_head \in Usable \cup {0}
    /\ \A x \in Usable \ Gone : Follows(x, next[x])
    /\ next[0] = 0
    /\ 0 \in Elements(granted) => free_head = 0
    /\ Elements(granted) \ {0} = Gone
    /\ \A a, b \in DOMAIN granted : granted[a] = granted[b] /\ granted[a] # 0 => a = b

(* What get_free_page holds in registers; with index 0 the list is exhausted. *)
Filing == {"use", "link"}
Taking == {"head", "unlink"}
IndexInv(p) ==
    /\ pc[p] \in Taking \cup Filing /\ taken[p].index = 0 => free_head = 0
    /\ pc[p] \in Taking => taken[p].index \in Gone \cup {0, free_head}
    /\ pc[p] \in Filing => taken[p].index \in Gone \cup {0}
    /\ pc[p] = "unlink" => taken[p].page = free_head
    /\ pc[p] = "link" => taken[p].tail \in Gone \cup {0, EmptyList}
    /\ pc[p] = "link" /\ taken[p].tail = 0 => taken[p].index = 0

(* Once entry 0 is the tail of the used list, only entry 0 is queued there.  *)
TailInv ==
    /\ used_tail \in Gone \cup {0}
    /\ used_tail = 0 /\ used_head # 0 =>
          /\ free_head = 0
          /\ \A p \in Procs : pc[p] \in Taking \cup {"use"} => taken[p].index = 0

AllocInv == boot = "done" /\ Clean => FreeInv /\ (\A p \in Procs : IndexInv(p)) /\ TailInv
-----------------------------------------------------------------------------
(* The used list holds, in the order s in which they were queued, the pages   *)
(* handed out but for those whose callers have not queued them yet.          *)
Orderly == raced \subseteq {"block", "virt"} /\ 0 \notin Elements(granted)
UsedTail == IF used_head = 0 /\ used_tail = 0 THEN EmptyList ELSE used_tail
Linked(s) ==
    /\ used_head = IF s = <<>> THEN 0 ELSE s[1]
    /\ used_tail = IF s = <<>> THEN 0 ELSE s[Len(s)]
    /\ \A k \in DOMAIN s : next[s[k]] = IF k = Len(s) THEN 0 ELSE s[k + 1]
Queued(s) ==
    /\ Linked(s) /\ Distinct(s)
    /\ Elements(granted) =
          Elements(s) \cup {taken[p].index : p \in {q \in Procs : pc[q] \in Filing}}
    /\ \A p \in Procs : pc[p] \in Filing => taken[p].index \notin Elements(s)
UsedInv ==
    boot = "done" /\ Orderly =>
        /\ \E s \in Seq(Pages) : Queued(s)
        /\ \A p, q \in Procs :
              p # q /\ pc[p] \in Filing /\ pc[q] \in Filing => taken[p].index # taken[q].index
        /\ \A p \in Procs : pc[p] \in Taking => taken[p].index = free_head
        /\ \A p \in Procs : pc[p] = "link" => taken[p].tail = UsedTail
-----------------------------------------------------------------------------
(* Virtual pages and blocks of kmalloc.  kpage is ahead of virt only while a  *)
(* kmalloc maps it.                                                          *)
Moving == {"move", "kmove"}
MapInv ==
    "virt" \notin raced =>
        /\ \A k \in DOMAIN mapped : mapped[k] < virt
        /\ Distinct(mapped)
        /\ \A p \in Procs : pc[p] \in Moving => taken[p].virt = virt

Apart(a, b) ==
    \/ blocks[a].page # blocks[b].page
    \/ blocks[a].from + blocks[a].bytes <= blocks[b].from
    \/ blocks[b].from + blocks[b].bytes <= blocks[a].from
NobodyMaps == \A p \in Procs : pc[p] # "kmove"
Alone(p) == \A q \in Procs \ {p} : pc[q] \notin {"carve", "kmove"}
BlockInv ==
    raced \cap {"block", "virt"} = {} =>
        /\ kpage <= virt /\ (kpage = virt => ~NobodyMaps)
        /\ \A p \in Procs : pc[p] = "kmove" => kpage = virt
        /\ \A k \in DOMAIN blocks : blocks[k].page < virt
        /\ NobodyMaps => \A k \in DOMAIN blocks :
              /\ blocks[k].page <= kpage
              /\ blocks[k].page = kpage => blocks[k].from + blocks[k].bytes <= kindex
        /\ \A p \in Procs : pc[p] = "carve" /\ Alone(p) => kindex + want[p] <= PAGESIZE
        /\ \A a \in DOMAIN blocks : blocks[a].from + blocks[a].bytes <= PAGESIZE
        /\ \A a, b \in DOMAIN blocks : a = b \/ Apart(a, b)
WantInv ==
    \A p \in Procs :
        /\ pc[p] = "move" => want[p] = 0
        /\ pc[p] \in {"kmove", "carve"} => want[p] # 0

IInv == TypeOK /\ WantInv /\ BootInv /\ AllocInv /\ UsedInv /\ MapInv /\ BlockInv
-----------------------------------------------------------------------------
(* The steps of one process, and those of boot. *)
Allocate(p) ==
    \/ GetPage(p) \/ (\E n \in Requests : kmalloc(p, n))
    \/ ReadIndex(p) \/ ReadHead(p) \/ Unlink(p) \/ ReadTail(p) \/ Link(p)
    \/ MapAt(p) \/ MoveOn(p) \/ Carve(p)
Booting == SkipRegion \/ MakePage \/ FilterHead \/ FilterRest

(* A process always comes to a place of the list. *)
LEMMA TypeInit == Init => TypeOK
<1> SUFFICES ASSUME Init PROVE TypeOK
  OBVIOUS
<1>1. NPages \in Nat /\ NPages > 1 /\ PAGESIZE \in Nat /\ PAGESIZE > 0
  BY PagesAssumption, BytesAssumption
<1>2. index \in Links /\ linked \in Links /\ range \in SUBSET Pages
  BY <1>1 DEF Init, Links, Pages
<1>3. regions \in Seq(Links)
  <2>1. PICK n \in 1..MaxRegions : regions \in [1..n -> Links]
    BY DEF Init
  <2>2. n \in Nat
    BY <2>1, PagesAssumption
  <2>3. QED
    BY <2>1, <2>2
<1>4. next \in [Links -> Links]
  BY <1>1 DEF Init, Links
<1>5. taken \in [Procs -> Registers] /\ want \in [Procs -> 0..PAGESIZE]
  BY <1>1 DEF Init, Links, Registers, EmptyList
<1>6. pc \in [Procs -> Places]
  BY DEF Init, Places
<1>7. granted \in Seq(Links) /\ mapped \in Seq(Nat) /\ blocks \in Seq(Block)
  BY DEF Init
<1>8. QED
  BY <1>1, <1>2, <1>3, <1>4, <1>5, <1>6, <1>7 DEF TypeOK, Init, Links, Windows

(* Boot steps keep the types: next of a link is a link. *)
LEMMA TypeBoot ==
    ASSUME TypeOK, MakeInv, Booting
    PROVE  TypeOK'
<1>1. NPages \in Nat /\ NPages > 1
  BY PagesAssumption
<1> USE <1>1 DEF bootVars, listVars, kVars, procVars, logVars, vars
<1>2. CASE SkipRegion
  <2>1. index' \in Links /\ regions' \in Seq(Links)
    BY <1>2 DEF SkipRegion, NextRegion, TypeOK, MakeInv, Links, Pages
  <2>2. QED
    BY <1>2, <2>1 DEF SkipRegion, NextRegion, TypeOK
<1>3. CASE MakePage
  <2>0. boot = "make" /\ regions \in Seq(Links) /\ Len(regions) > 0 /\ regions # <<>>
    BY <1>3 DEF MakePage, TypeOK, MakeInv
  <2>a. Head(regions) = regions[1] /\ regions[1] \in Links /\ Tail(regions) \in Seq(Links)
    BY <2>0
  <2>1. regions[1] \in 1..NPages /\ index \in 1..NPages /\ index <= regions[1]
    <3>1. index \in Pages /\ (index = 1 \/ index <= regions[1]) /\ regions[1] > 0
      BY <1>3, <2>0, <2>a DEF MakePage, MakeInv
    <3>2. QED
      BY <2>a, <3>1 DEF Pages, Links
  <2>2. index' \in Links /\ linked' \in Links
    <3>1. CASE index = regions[1]
      BY <1>3, <2>1, <2>a, <3>1 DEF MakePage, NextRegion, Links
    <3>2. CASE index # regions[1]
      <4>1. index' = index + 1 /\ linked' = regions[1]
        BY <1>3, <2>a, <3>2 DEF MakePage
      <4>2. QED
        BY <2>1, <3>2, <4>1 DEF Links
    <3>3. QED
      BY <3>1, <3>2
  <2>3. regions' \in Seq(Links)
    BY <1>3, <2>0, <2>a DEF MakePage, NextRegion
  <2>4. boot' \in {"make", "filter_head", "filter_rest", "done", "panic"}
    BY <1>3, <2>1 DEF MakePage, NextRegion, TypeOK
  <2>5. next' \in [Links -> Links]
    <3>1. index \in Links /\ 0 \in Links /\ free_tail \in Links /\ next \in [Links -> Links]
      <4>1. index \in Links /\ 0 \in Links
        BY <2>1 DEF Links
      <4>2. QED
        BY <4>1 DEF TypeOK
    <3>2. QED
      BY <1>3, <3>1 DEF MakePage
  <2>6. free_head' \in Links /\ free_tail' \in Links
    BY <1>3, <2>1 DEF MakePage, TypeOK, Links
  <2>7. UNCHANGED <<range, used_head, used_tail, kVars, procVars, logVars, raced, calls>>
    BY <1>3 DEF MakePage
  <2>8. QED
    BY <2>2, <2>3, <2>4, <2>5, <2>6, <2>7 DEF TypeOK
<1>4. CASE FilterHead
  <2>1. free_head' \in Links /\ index' \in Links /\ UNCHANGED <<regions, linked, range, next, free_tail>>
        /\ boot' \in {"make", "filter_head", "filter_rest", "done", "panic"}
    BY <1>4 DEF FilterHead, TypeOK
  <2>2. UNCHANGED <<used_head, used_tail, kVars, procVars, logVars, raced, calls>>
    BY <1>4 DEF FilterHead
  <2>3. QED
    BY <2>1, <2>2 DEF TypeOK
<1>5. CASE FilterRest
  <2>1. next' \in [Links -> Links] /\ index' \in Links
    <3>1. 0 \in Links
      BY DEF Links
    <3>2. QED
      BY <1>5, <3>1 DEF FilterRest, TypeOK
  <2>a. boot' \in {"make", "filter_head", "filter_rest", "done", "panic"}
    BY <1>5 DEF FilterRest, TypeOK
  <2>2. UNCHANGED <<regions, linked, range, free_head, free_tail, used_head, used_tail, kVars,
                    procVars, logVars, raced, calls>>
    BY <1>5 DEF FilterRest
  <2>3. QED
    BY <2>1, <2>2, <2>a DEF TypeOK
<1>6. QED
  BY <1>2, <1>3, <1>4, <1>5 DEF Booting

(* So do the steps of a process. *)
LEMMA TypeAllocate ==
    ASSUME TypeOK, NEW p \in Procs, Allocate(p)
    PROVE  TypeOK'
<1>1. NPages \in Nat /\ PAGESIZE \in Nat /\ 0 \in Links
  BY PagesAssumption, BytesAssumption DEF Links
<1>2. taken[p] \in Registers /\ want[p] \in 0..PAGESIZE /\ pc \in [Procs -> Places]
  BY DEF TypeOK
<1> USE <1>1 DEF bootVars, listVars, kVars, procVars, logVars, vars, Step, Goto, Places
<1>3. CASE GetPage(p)
  BY <1>3 DEF GetPage, TypeOK
<1>4. ASSUME NEW n \in Requests, kmalloc(p, n) PROVE TypeOK'
  <2>1. n \in 0..PAGESIZE
    BY <1>4, RequestAssumption DEF kmalloc
  <2>2. QED
    BY <1>4, <2>1 DEF kmalloc, TypeOK
<1>5. CASE ReadIndex(p)
  <2>1. taken' \in [Procs -> Registers]
    BY <1>5 DEF ReadIndex, TypeOK, Registers
  <2>2. QED
    BY <1>5, <2>1 DEF ReadIndex, TypeOK
<1>6. CASE ReadHead(p)
  <2>1. taken' \in [Procs -> Registers]
    BY <1>6 DEF ReadHead, TypeOK, Registers
  <2>2. QED
    BY <1>6, <2>1 DEF ReadHead, TypeOK
<1>7. CASE Unlink(p)
  <2>1. taken[p].page \in Links
    BY <1>2 DEF Registers
  <2>2. granted' \in Seq(Links) /\ free_head' \in Links
    BY <1>7, <2>1 DEF Unlink, TypeOK
  <2>3. raced' \subseteq raced \cup {"page", "index"}
    BY <1>7 DEF Unlink
  <2>4. raced' \in SUBSET Windows
    BY <2>3 DEF TypeOK, Windows
  <2>5. QED
    BY <1>7, <2>2, <2>4 DEF Unlink, TypeOK
<1>8. CASE ReadTail(p)
  <2>1. taken' \in [Procs -> Registers]
    BY <1>8, ZenonT(30) DEF ReadTail, TypeOK, Registers
  <2>2. QED
    BY <1>8, <2>1 DEF ReadTail, TypeOK
<1>9. CASE Link(p)
  <2>1. taken[p].index \in Links
    BY <1>2 DEF Registers
  <2>2. next' \in [Links -> Links] /\ used_head' \in Links
    BY <1>9, <2>1 DEF Link, TypeOK
  <2>3. used_tail' \in Links /\ raced' \subseteq raced \cup {"file", "zero"}
    BY <1>9, <2>1 DEF Link
  <2>a. raced' \in SUBSET Windows
    BY <2>3 DEF TypeOK, Windows
  <2>4. UNCHANGED <<bootVars, free_head, free_tail, kVars, want, taken, logVars, calls>>
        /\ pc' \in [Procs -> Places]
    BY <1>2, <1>9 DEF Link
  <2>5. QED
    BY <2>2, <2>3, <2>a, <2>4 DEF TypeOK
<1>10. CASE MapAt(p)
  <2>1. taken' \in [Procs -> Registers]
    BY <1>10, ZenonT(30) DEF MapAt, TypeOK, Registers
  <2>2. QED
    BY <1>10, <2>1 DEF MapAt, TypeOK
<1>11. CASE MoveOn(p)
  <2>1. taken[p].virt \in Nat
    BY <1>2 DEF Registers
  <2>2. mapped' \in Seq(Nat) /\ virt' \in Nat /\ kindex' \in Nat
    BY <1>11, <2>1, SMTT(30) DEF MoveOn, TypeOK
  <2>3. raced' \subseteq raced \cup {"virt"}
    BY <1>11 DEF MoveOn
  <2>4. raced' \in SUBSET Windows
    BY <2>3 DEF TypeOK, Windows
  <2>5. QED
    BY <1>11, <2>2, <2>4 DEF MoveOn, TypeOK
<1>12. CASE Carve(p)
  <2>1. [page |-> kpage, from |-> kindex, bytes |-> want[p]] \in Block
    BY <1>2 DEF TypeOK, Block
  <2>2. blocks' \in Seq(Block) /\ kindex' \in Nat
    BY <1>2, <1>12, <2>1 DEF Carve, TypeOK
  <2>3. raced' \subseteq raced \cup {"block"}
    BY <1>12 DEF Carve
  <2>4. raced' \in SUBSET Windows
    BY <2>3 DEF TypeOK, Windows
  <2>5. QED
    BY <1>12, <2>2, <2>4 DEF Carve, TypeOK
<1>13. QED
  BY <1>3, <1>4, <1>5, <1>6, <1>7, <1>8, <1>9, <1>10, <1>11, <1>12 DEF Allocate
-----------------------------------------------------------------------------
(* At first no page is linked and nothing is allocated. *)
LEMMA BootInit == Init => BootInv
<1> SUFFICES ASSUME Init PROVE BootInv
  OBVIOUS
<1>1. NPages \in Nat /\ NPages > 1 /\ MaxRegions \in Nat
  BY PagesAssumption
<1>2. Untouched
  BY <1>1 DEF Init, Untouched, Links
<1>3. Len(regions) > 0
  <2>1. PICK n \in 1..MaxRegions : regions \in [1..n -> Links]
    BY DEF Init
  <2>2. n \in Nat /\ n > 0
    BY <1>1, <2>1
  <2>3. QED
    BY <2>1, <2>2
<1>4. MakeInv
  BY <1>1, <1>3 DEF Init, MakeInv, Added, Straight, Pages
<1>5. QED
  BY <1>2, <1>4 DEF BootInv, HeadInv, RestInv, DoneInv, Init

(* Queueing page Added + 1, or page 1 again for a new region, leaves the      *)
(* straight list up to it.                                                   *)
LEMMA PageAdded ==
    ASSUME TypeOK, MakeInv, MakePage, next[0] = 0
    PROVE  /\ index \in Pages /\ free_tail' = index /\ free_head' = 1
           /\ \A x \in 1..index : next'[x] = IF x = index THEN 0 ELSE x + 1
           /\ next'[0] = 0
<1>1. NPages \in Nat /\ NPages > 1
  BY PagesAssumption
<1>2. index \in 1..NPages /\ index \in Links /\ linked \in 0..NPages /\ 0 \in Links
  BY <1>1 DEF MakeInv, MakePage, TypeOK, Pages, Links
<1>3. next \in [Links -> Links]
  BY DEF TypeOK
<1>4. free_tail' = index
  BY DEF MakePage
<1>5. CASE Added = 0
  <2>1. index = 1 /\ free_head = 0 /\ free_tail = 0
    BY <1>2, <1>5 DEF Added, MakeInv, MakePage
  <2>2. free_head' = 1 /\ next' = [next EXCEPT ![1] = 0]
    BY <2>1 DEF MakePage
  <2>3. next'[1] = 0 /\ next'[0] = 0
    BY <1>2, <1>3, <2>1, <2>2
  <2>4. QED
    BY <1>1, <1>2, <1>4, <2>1, <2>2, <2>3 DEF Pages
<1>6. CASE Added # 0
  <2>1. free_tail = Added /\ free_head = 1 /\ Added \in 1..NPages
        /\ \A x \in 1..Added : next[x] = IF x = Added THEN 0 ELSE x + 1
    <3>1. free_tail = Added /\ free_head = 1 /\ Straight(1, Added)
      BY <1>6 DEF MakeInv, MakePage
    <3>2. Added \in 1..NPages
      BY <1>1, <1>2, <1>6 DEF Added
    <3>3. QED
      BY <3>1, <3>2 DEF Straight
  <2>2. free_head' = 1 /\ next' = [next EXCEPT ![Added] = index, ![index] = 0]
    BY <2>1 DEF MakePage
  <2>3. Added \in Links
    BY <2>1 DEF Links
  <2>4. \A x \in Links : next'[x] = IF x = index THEN 0 ELSE IF x = Added THEN index ELSE next[x]
    BY <1>2, <1>3, <2>2, <2>3
  <2>5. index = 1 \/ Added = index - 1
    BY DEF Added
  <2>6. \A x \in 1..index : next'[x] = IF x = index THEN 0 ELSE x + 1
    <3>1. SUFFICES ASSUME NEW x \in 1..index PROVE next'[x] = IF x = index THEN 0 ELSE x + 1
      OBVIOUS
    <3>2. x \in Links
      BY <1>1, <1>2 DEF Links
    <3>3. QED
      BY <1>2, <2>1, <2>4, <2>5, <3>2
  <2>7. next'[0] = 0
    BY <1>2, <2>1, <2>4
  <2>8. QED
    BY <1>2, <1>4, <2>2, <2>6, <2>7 DEF Pages
<1>7. QED
  BY <1>5, <1>6

(* Adding a page. *)
LEMMA BootMakePage ==
    ASSUME TypeOK, BootInv, MakePage
    PROVE  BootInv'
<1>1. NPages \in Nat /\ NPages > 1
  BY PagesAssumption
<1>2. boot = "make" /\ Untouched /\ MakeInv /\ next[0] = 0 /\ calls = 0
  BY DEF MakePage, BootInv, DoneInv, Untouched
<1>3. /\ index \in Pages /\ free_tail' = index /\ free_head' = 1 /\ next'[0] = 0
      /\ \A x \in 1..index : next'[x] = IF x = index THEN 0 ELSE x + 1
  BY <1>2, PageAdded
<1>4. Untouched' /\ calls' = 0
  BY <1>2, <1>3 DEF Untouched, MakePage, kVars, procVars, logVars
<1>5. regions \in Seq(Links) /\ Len(regions) > 0 /\ Head(regions) = regions[1]
      /\ regions[1] \in Links /\ Len(Tail(regions)) = Len(regions) - 1 /\ Len(regions) \in Nat
  BY <1>2 DEF TypeOK, MakeInv
<1>6. index \in 1..NPages /\ index <= regions[1] /\ linked' = regions[1]
  BY <1>2, <1>3, <1>5 DEF MakePage, MakeInv, Pages, Links
<1>7. CASE index = regions[1]
  <2>1. regions' = Tail(regions) /\ index' = 1 /\ linked' = index
        /\ boot' = IF Len(regions) = 1 THEN "filter_head" ELSE "make"
    BY <1>5, <1>6, <1>7 DEF MakePage, NextRegion
  <2>2. Straight(1, linked)'
    BY <1>3, <2>1 DEF Straight
  <2>3. CASE Len(regions) = 1
    <3>1. boot' = "filter_head"
      BY <2>1, <2>3
    <3>2. HeadInv'
      BY <1>3, <1>6, <2>1, <2>2 DEF HeadInv
    <3>3. QED
      BY <1>4, <3>1, <3>2 DEF BootInv, MakeInv, RestInv, DoneInv
  <2>4. CASE Len(regions) # 1
    <3>1. boot' = "make" /\ Len(regions') > 0
      <4>1. PICK n \in Nat : n = Len(regions)
        BY <1>5
      <4>a. n > 1 /\ Len(Tail(regions)) = n - 1
        BY <1>5, <2>4, <4>1
      <4>2. QED
        BY <2>1, <2>4, <4>1, <4>a
    <3>2. Added' = index
      BY <2>1 DEF Added
    <3>3. MakeInv'
      BY <1>1, <1>3, <1>6, <2>1, <3>1, <3>2 DEF MakeInv, Straight, Pages
    <3>4. QED
      BY <1>4, <3>1, <3>3 DEF BootInv, HeadInv, RestInv, DoneInv
  <2>5. QED
    BY <2>3, <2>4
<1>8. CASE index # regions[1]
  <2>1. index' = index + 1 /\ regions' = regions /\ boot' = "make"
    BY <1>2, <1>5, <1>8 DEF MakePage
  <2>2. Added' = index /\ index' \in Pages /\ index' <= regions'[1]
    BY <1>1, <1>5, <1>6, <1>8, <2>1 DEF Added, Pages, Links
  <2>3. MakeInv'
    BY <1>3, <1>5, <1>6, <2>1, <2>2 DEF MakeInv, Straight
  <2>4. QED
    BY <1>4, <2>1, <2>3 DEF BootInv, HeadInv, RestInv, DoneInv
<1>9. QED
  BY <1>7, <1>8

(* A region at address 0 adds nothing. *)
LEMMA BootSkipRegion ==
    ASSUME TypeOK, BootInv, SkipRegion
    PROVE  BootInv'
<1>1. boot = "make" /\ Untouched /\ MakeInv /\ calls = 0
  BY DEF SkipRegion, BootInv, DoneInv
<1>2. Untouched' /\ calls' = 0
  BY <1>1 DEF Untouched, SkipRegion, listVars, kVars, procVars, logVars
<1>3. regions \in Seq(Links) /\ Len(regions) > 0 /\ Head(regions) = regions[1]
      /\ Len(Tail(regions)) = Len(regions) - 1 /\ Len(regions) \in Nat
  BY <1>1 DEF TypeOK, MakeInv
<1>4. NPages \in Nat /\ NPages > 1 /\ linked \in 0..NPages
  BY PagesAssumption DEF TypeOK, Links
<1>5. index = 1
  BY <1>1, <1>3 DEF SkipRegion, MakeInv, Pages
<1>6. Added = linked
  BY <1>5 DEF Added
<1>7. regions' = Tail(regions) /\ index' = 1 /\ UNCHANGED <<linked, range, next, free_head, free_tail>>
      /\ boot' = IF Len(regions) = 1 THEN "filter_head" ELSE "make"
  BY DEF SkipRegion, NextRegion, listVars
<1>8. CASE Len(regions) = 1
  <2>1. boot' = "filter_head"
    BY <1>7, <1>8
  <2>2. Straight(1, linked) /\ free_head = IF linked = 0 THEN 0 ELSE 1
    BY <1>1, <1>6 DEF MakeInv
  <2>3. HeadInv'
    BY <1>4, <1>7, <2>2 DEF HeadInv, Straight
  <2>4. QED
    BY <1>2, <2>1, <2>3 DEF BootInv, MakeInv, RestInv, DoneInv
<1>9. CASE Len(regions) # 1
  <2>1. boot' = "make" /\ Len(regions') > 0
    <3>1. PICK n \in Nat : n = Len(regions) /\ n > 1 /\ Len(Tail(regions)) = n - 1
      BY <1>3, <1>9
    <3>2. QED
      BY <1>7, <1>9, <3>1
  <2>2. Added' = linked
    BY <1>7 DEF Added
  <2>3. MakeInv'
    BY <1>1, <1>4, <1>6, <1>7, <2>1, <2>2 DEF MakeInv, Straight, Pages
  <2>4. QED
    BY <1>2, <2>1, <2>3 DEF BootInv, HeadInv, RestInv, DoneInv
<1>10. QED
  BY <1>8, <1>9

(* Taking pages of the kernel off the head. *)
LEMMA BootFilterHead ==
    ASSUME TypeOK, BootInv, FilterHead
    PROVE  BootInv'
<1>1. boot = "filter_head" /\ Untouched /\ HeadInv /\ calls = 0
  BY DEF FilterHead, BootInv, DoneInv
<1>2. Untouched' /\ calls' = 0
  BY <1>1 DEF Untouched, FilterHead, kVars, procVars, logVars
<1>3. NPages \in Nat /\ linked \in 0..NPages /\ range \subseteq 1..NPages
  BY PagesAssumption DEF TypeOK, Links, Pages
<1>4. UNCHANGED <<linked, range, next>>
  BY DEF FilterHead
<1>5. /\ \A x \in 1..linked : next[x] = IF x = linked THEN 0 ELSE x + 1
      /\ free_head \in 0..linked /\ (free_head = 0 => linked = 0)
      /\ \A x \in 1..(free_head - 1) : x \in range
  BY <1>1 DEF HeadInv, Straight
<1>6. CASE free_head \in range
  <2>1. free_head' = next[free_head] /\ boot' = IF free_head' = 0 THEN "panic" ELSE "filter_head"
    BY <1>1, <1>6 DEF FilterHead
  <2>2. free_head \in 1..linked
    BY <1>3, <1>5, <1>6
  <2>3. CASE free_head = linked
    <3>1. boot' = "panic"
      BY <1>5, <2>1, <2>2, <2>3
    <3>2. QED
      BY <1>2, <3>1 DEF BootInv, MakeInv, HeadInv, RestInv, DoneInv
  <2>4. CASE free_head # linked
    <3>1. free_head' = free_head + 1
      BY <1>5, <2>1, <2>2, <2>4
    <3>2. boot' = "filter_head"
      BY <2>1, <2>2, <3>1
    <3>3. \A x \in 1..(free_head' - 1) : x \in range
      BY <1>3, <1>5, <1>6, <2>2, <3>1
    <3>4. HeadInv'
      BY <1>3, <1>4, <1>5, <2>2, <2>4, <3>1, <3>3 DEF HeadInv, Straight
    <3>5. QED
      BY <1>2, <3>2, <3>4 DEF BootInv, MakeInv, RestInv, DoneInv
  <2>5. QED
    BY <2>3, <2>4
<1>7. CASE free_head \notin range
  <2>1. boot' = "filter_rest" /\ index' = free_head /\ free_head' = free_head
    BY <1>7 DEF FilterHead
  <2>2. Usable' = Usable /\ Usable = (1..linked) \ range
    BY <1>4 DEF Usable
  <2>3. First'
    <3>1. \A z \in Usable : free_head <= z
      BY <1>3, <1>5, <2>2
    <3>2. QED
      BY <1>3, <1>5, <1>7, <2>1, <2>2, <3>1 DEF First
  <2>4. index' \in Usable' \cup {0}
    BY <1>3, <1>5, <1>7, <2>1, <2>2
  <2>5. \A x \in Usable' : index' = 0 \/ x < index' => Follows(x, next[x])'
    BY <1>3, <1>5, <2>1, <2>2
  <2>6. index' # 0 => Ahead(index, next[index])'
    <3>1. SUFFICES ASSUME free_head \in 1..linked PROVE Ahead(index, next[index])'
      BY <1>5, <2>1
    <3>2. next'[index'] = IF free_head = linked THEN 0 ELSE free_head + 1
      BY <1>4, <1>5, <2>1, <3>1
    <3>3. QED
      BY <1>3, <1>4, <1>5, <2>1, <2>2, <3>1, <3>2 DEF Ahead, Straight
  <2>7. RestInv'
    BY <2>3, <2>4, <2>5, <2>6 DEF RestInv
  <2>8. QED
    BY <1>2, <2>1, <2>7 DEF BootInv, MakeInv, HeadInv, DoneInv
<1>8. QED
  BY <1>6, <1>7

(* Unlinking pages of the kernel behind the current page. *)
LEMMA BootFilterRest ==
    ASSUME TypeOK, BootInv, FilterRest
    PROVE  BootInv'
<1>1. boot = "filter_rest" /\ Untouched /\ RestInv /\ calls = 0
  BY DEF FilterRest, BootInv, DoneInv
<1>2. NPages \in Nat /\ linked \in 0..NPages /\ range \subseteq 1..NPages
  BY PagesAssumption DEF TypeOK, Links, Pages
<1>3. UNCHANGED <<linked, range, free_head, calls>>
  BY DEF FilterRest
<1>4. Usable' = Usable /\ Usable = (1..linked) \ range /\ Usable \subseteq 1..NPages
  BY <1>2, <1>3 DEF Usable
<1>5. /\ First
      /\ index \in Usable \cup {0}
      /\ \A x \in Usable : index = 0 \/ x < index => Follows(x, next[x])
      /\ index # 0 => Ahead(index, next[index])
  BY <1>1 DEF RestInv
<1>6. First'
  BY <1>3, <1>4, <1>5 DEF First
<1>7. next \in [Links -> Links] /\ Links = 0..NPages
  BY DEF TypeOK, Links
<1>8. CASE index = 0
  <2>1. boot' = "done" /\ next' = next
    BY <1>8 DEF FilterRest
  <2>2. Untouched'
    BY <1>1, <2>1 DEF Untouched, FilterRest, kVars, procVars, logVars
  <2>3. \A x \in Usable' : Follows(x, next[x])'
    BY <1>4, <1>5, <1>8, <2>1 DEF Follows
  <2>4. QED
    BY <1>6, <2>1, <2>2, <2>3 DEF BootInv, MakeInv, HeadInv, RestInv, DoneInv
<1>9. CASE index # 0 /\ next[index] \in range
  <2>a. PICK j : j = next[index]
    OBVIOUS
  <2>1. /\ index \in 1..NPages /\ j \in 1..NPages /\ j \in range /\ index < j /\ j <= linked
        /\ \A x \in j..linked : next[x] = IF x = linked THEN 0 ELSE x + 1
        /\ \A z \in Usable : z <= index \/ j <= z
    <3>1. index \in Usable /\ next[index] \in 1..NPages /\ Ahead(index, next[index])
      BY <1>2, <1>5, <1>9
    <3>2. Ahead(index, j) /\ j \in 1..NPages
      BY <2>a, <3>1
    <3>3. QED
      BY <1>2, <1>4, <1>9, <2>a, <3>1, <3>2 DEF Ahead, Straight
  <2>2. boot' = boot /\ index' = index /\ next' = [next EXCEPT ![index] = next[j], ![j] = 0]
    BY <1>9, <2>a DEF FilterRest
  <2>3. \A x \in Links : next'[x] = IF x = j THEN 0 ELSE IF x = index THEN next[j] ELSE next[x]
    BY <1>2, <1>7, <2>1, <2>2
  <2>4. next[j] = IF j = linked THEN 0 ELSE j + 1
    BY <1>2, <2>1
  <2>5. Untouched'
    <3>1. next'[0] = next[0]
      BY <1>2, <1>7, <2>1, <2>3
    <3>2. QED
      BY <1>1, <3>1 DEF Untouched, FilterRest, kVars, procVars, logVars
  <2>6. \A x \in Usable' : index' = 0 \/ x < index' => Follows(x, next[x])'
    <3>1. SUFFICES ASSUME NEW x \in Usable, x < index PROVE Follows(x, next[x])'
      BY <1>4, <1>9, <2>2
    <3>2. next'[x] = next[x]
      BY <1>2, <1>4, <1>7, <2>1, <2>3, <3>1
    <3>3. Follows(x, next[x])
      BY <1>5, <3>1
    <3>4. QED
      BY <1>4, <3>2, <3>3 DEF Follows
  <2>7. Ahead(index, next[index])'
    <3>1. next'[index] = next[j]
      BY <1>2, <1>7, <2>1, <2>3
    <3>2. \A z \in Usable : z # j
      BY <1>4, <2>1
    <3>3. CASE j = linked
      BY <1>2, <1>3, <1>4, <2>1, <2>2, <2>4, <3>1, <3>2, <3>3 DEF Ahead
    <3>4. CASE j # linked
      <4>1. next'[index] = j + 1
        BY <2>4, <3>1, <3>4
      <4>2. \A x \in (j + 1)..linked : next'[x] = IF x = linked THEN 0 ELSE x + 1
        BY <1>2, <1>7, <2>1, <2>3
      <4>3. \A z \in Usable : z <= index \/ j + 1 <= z
        BY <1>4, <2>1, <3>2
      <4>4. QED
        <5>1. index' = index /\ linked' = linked /\ Usable' = Usable /\ index < j + 1 /\ j + 1 <= linked
              /\ j + 1 # 0
          BY <1>2, <1>3, <1>4, <2>1, <2>2, <3>4
        <5>2. QED
          BY <4>1, <4>2, <4>3, <5>1 DEF Ahead, Straight
    <3>5. QED
      BY <3>3, <3>4
  <2>8. RestInv'
    BY <1>4, <1>5, <1>6, <2>2, <2>6, <2>7 DEF RestInv
  <2>9. QED
    BY <1>1, <1>3, <2>2, <2>5, <2>8 DEF BootInv, MakeInv, HeadInv, DoneInv
<1>10. CASE index # 0 /\ next[index] \notin range
  <2>1. boot' = boot /\ index' = next[index] /\ next' = next
    BY <1>10 DEF FilterRest
  <2>2. Untouched'
    BY <1>1, <2>1 DEF Untouched, FilterRest, kVars, procVars, logVars
  <2>3. index \in Usable /\ Ahead(index, next[index])
    BY <1>5, <1>10
  <2>4. Follows(index, next[index]) /\ next[index] \in Usable \cup {0}
    BY <1>2, <1>4, <1>7, <1>10, <2>3, SMTT(30) DEF Follows, Ahead
  <2>5. \A x \in Usable' : index' = 0 \/ x < index' => Follows(x, next[x])'
    <3>1. SUFFICES ASSUME NEW x \in Usable, next[index] = 0 \/ x < next[index]
                   PROVE  Follows(x, next[x])
      BY <1>4, <2>1 DEF Follows
    <3>2. CASE x < index
      BY <1>5, <3>2
    <3>3. CASE x = index
      BY <2>4, <3>3
    <3>4. CASE x > index
      <4>1. x \in Nat /\ index \in Nat /\ next[index] \in Nat
        BY <1>2, <1>4, <2>3, <2>4
      <4>2. next[index] # 0 /\ next[index] <= x
        BY <2>4, <3>4, <4>1 DEF Follows
      <4>3. QED
        BY <3>1, <4>1, <4>2
    <3>5. QED
      BY <1>4, <2>3, <3>2, <3>3, <3>4
  <2>6. index' # 0 => Ahead(index, next[index])'
    <3>1. SUFFICES ASSUME next[index] # 0 PROVE Ahead(index, next[index])'
      BY <2>1
    <3> DEFINE j == next[index]
    <3>2. j \in 1..linked /\ \A x \in j..linked : next[x] = IF x = linked THEN 0 ELSE x + 1
      BY <1>2, <1>4, <1>7, <2>3, <2>4, <3>1 DEF Ahead, Straight
    <3>3. index' = j /\ next'[index'] = IF j = linked THEN 0 ELSE j + 1
      BY <2>1, <3>2
    <3> HIDE DEF j
    <3>4. QED
      BY <1>2, <1>3, <1>4, <2>1, <3>2, <3>3 DEF Ahead, Straight
  <2>7. RestInv'
    BY <1>4, <1>6, <2>1, <2>4, <2>5, <2>6 DEF RestInv
  <2>8. QED
    BY <1>1, <1>3, <2>1, <2>2, <2>7 DEF BootInv, MakeInv, HeadInv, DoneInv
<1>11. QED
  BY <1>8, <1>9, <1>10
-----------------------------------------------------------------------------
(* When boot ends nothing is gone from the free list. *)
LEMMA AtRest ==
    TypeOK /\ Untouched /\ DoneInv => WantInv /\ AllocInv /\ UsedInv /\ MapInv /\ BlockInv
<1> SUFFICES ASSUME TypeOK, Untouched, DoneInv
             PROVE  WantInv /\ AllocInv /\ UsedInv /\ MapInv /\ BlockInv
  OBVIOUS
<1>1. \A p \in Procs : pc[p] = "out"
  BY DEF Untouched
<1>2. /\ granted = <<>> /\ mapped = <<>> /\ blocks = <<>> /\ used_head = 0 /\ used_tail = 0
      /\ next[0] = 0 /\ virt = 1 /\ kpage = 0
  BY DEF Untouched
<1>3. Elements(granted) = {} /\ DOMAIN granted = {} /\ DOMAIN mapped = {} /\ DOMAIN blocks = {}
  BY <1>2 DEF Elements
<1>4. WantInv
  BY <1>1 DEF WantInv
<1>5. MapInv
  BY <1>1, <1>3 DEF MapInv, Distinct, Moving
<1>6. BlockInv
  BY <1>1, <1>2, <1>3 DEF BlockInv
<1>7. AllocInv
  <2>1. SUFFICES ASSUME boot = "done" PROVE FreeInv /\ (\A p \in Procs : IndexInv(p)) /\ TailInv
    BY DEF AllocInv
  <2>2. First /\ \A x \in Usable : Follows(x, next[x])
    BY <2>1 DEF DoneInv
  <2>3. Gone = {} /\ free_head \in Usable \cup {0} /\ Usable \subseteq Nat /\ free_head \in Nat
    <3>1. linked \in 0..NPages /\ free_head \in 0..NPages /\ NPages \in Nat
      BY PagesAssumption DEF TypeOK, Links
    <3>2. \A z \in Usable : z \in Nat
      BY <3>1 DEF Usable
    <3>3. CASE free_head = 0
      BY <2>2, <3>2, <3>3 DEF First, Gone
    <3>4. CASE free_head # 0
      <4>1. free_head \in Usable /\ \A z \in Usable : free_head <= z
        BY <2>2, <3>4 DEF First
      <4>2. \A z \in Usable : ~(z < free_head)
        BY <3>1, <3>2, <4>1
      <4>3. QED
        BY <3>1, <3>2, <3>4, <4>1, <4>2 DEF Gone
    <3>5. QED
      BY <3>3, <3>4
  <2>4. FreeInv
    BY <1>2, <1>3, <2>2, <2>3 DEF FreeInv
  <2>5. \A p \in Procs : IndexInv(p)
    BY <1>1 DEF IndexInv, Taking, Filing
  <2>6. TailInv
    BY <1>2 DEF TailInv
  <2>7. QED
    BY <2>4, <2>5, <2>6
<1>8. UsedInv
  <2>1. Queued(<<>>)
    BY <1>1, <1>2, <1>3 DEF Queued, Linked, Distinct, Elements, Filing
  <2>2. <<>> \in Seq(Pages)
    OBVIOUS
  <2>3. \A p \in Procs : pc[p] \notin Filing /\ pc[p] \notin Taking
    BY <1>1 DEF Filing, Taking
  <2>4. QED
    BY <1>1, <2>1, <2>2, <2>3 DEF UsedInv
<1>9. QED
  BY <1>4, <1>5, <1>6, <1>7, <1>8

(* A step of a process: boot is over, and the process is on its way. *)
LEMMA Begun ==
    ASSUME TypeOK, DoneInv, NEW p \in Procs, Allocate(p)
    PROVE  /\ boot = "done" /\ UNCHANGED <<boot, index, regions, linked, range>>
           /\ calls' > 0 /\ ~Untouched'
<1>1. boot = "done" /\ UNCHANGED <<boot, index, regions, linked, range>>
  BY DEF Allocate, GetPage, kmalloc, ReadIndex, ReadHead, Unlink, ReadTail, Link, MapAt, MoveOn,
         Carve, Step, bootVars
<1>2. calls \in Nat /\ pc \in [Procs -> Places] /\ granted \in Seq(Links)
      /\ mapped \in Seq(Nat) /\ blocks \in Seq(Block)
  BY DEF TypeOK
<1>3. calls > 0 \/ pc[p] = "out"
  BY <1>1, <1>2 DEF DoneInv, Untouched
<1>4. CASE GetPage(p) \/ \E n \in Requests : kmalloc(p, n)
  <2>1. calls' = calls + 1 /\ pc'[p] # "out"
    BY <1>2, <1>4 DEF GetPage, kmalloc, Goto
  <2>2. QED
    BY <1>1, <1>2, <2>1 DEF Untouched
<1>5. CASE ReadIndex(p) \/ ReadHead(p) \/ Unlink(p) \/ ReadTail(p) \/ Link(p) \/ MapAt(p)
  <2>1. pc[p] # "out" /\ calls' = calls /\ pc'[p] # "out"
    BY <1>2, <1>5 DEF ReadIndex, ReadHead, Unlink, ReadTail, Link, MapAt, Goto
  <2>2. QED
    BY <1>1, <1>2, <1>3, <2>1 DEF Untouched
<1>6. CASE MoveOn(p) \/ Carve(p)
  <2>1. pc[p] # "out" /\ calls' = calls
    BY <1>6 DEF MoveOn, Carve
  <2>2. mapped' # <<>> \/ blocks' # <<>>
    BY <1>2, <1>6 DEF MoveOn, Carve
  <2>3. QED
    BY <1>1, <1>2, <1>3, <2>1, <2>2 DEF Untouched
<1>7. QED
  BY <1>4, <1>5, <1>6 DEF Allocate
-----------------------------------------------------------------------------
(* What the free list is does not depend on the registers of the processes.   *)
Lists == <<linked, range, next, free_head, granted>>

(* A step that leaves the lists alone leaves the free list what it was. *)
LEMMA FreeKept ==
    ASSUME UNCHANGED Lists
    PROVE  Usable' = Usable /\ Gone' = Gone /\ (FreeInv => FreeInv')
<1>1. Usable' = Usable
  BY DEF Usable, Lists
<1>2. Gone' = Gone
  BY <1>1 DEF Gone, Lists
<1>3. \A x : Follows(x, next[x]) => Follows(x, next[x])'
  BY <1>1 DEF Follows, Lists
<1>4. Elements(granted)' = Elements(granted)
  BY DEF Elements, Lists
<1>5. QED
  BY <1>1, <1>2, <1>3, <1>4 DEF FreeInv, Lists

(* Taking the head off the free list: the pages gone now include it. *)
LEMMA FreeUnlink ==
    ASSUME TypeOK, FreeInv, UNCHANGED <<linked, range, next>>,
           free_head' = next[free_head], granted' = Append(granted, free_head)
    PROVE  /\ FreeInv' /\ Usable' = Usable
           /\ Gone' = Gone \cup ({free_head} \ {0})
           /\ free_head = 0 => free_head' = 0
<1>1. NPages \in Nat /\ Usable \subseteq 1..NPages /\ Usable' = Usable
  <2>1. linked \in 0..NPages /\ NPages \in Nat
    BY PagesAssumption DEF TypeOK, Links
  <2>2. QED
    BY <2>1 DEF Usable
<1>2. /\ free_head \in Usable \cup {0}
      /\ \A x \in Usable \ Gone : Follows(x, next[x])
      /\ next[0] = 0
      /\ 0 \in Elements(granted) => free_head = 0
      /\ Elements(granted) \ {0} = Gone
      /\ \A a, b \in DOMAIN granted : granted[a] = granted[b] /\ granted[a] # 0 => a = b
  BY DEF FreeInv
<1>3. granted \in Seq(Links) /\ free_head \in Links /\ next \in [Links -> Links]
  BY DEF TypeOK
<1>4. DOMAIN granted' = 1..(Len(granted) + 1) /\ DOMAIN granted = 1..Len(granted) /\ Len(granted) \in Nat
  BY <1>3
<1>5. granted'[Len(granted) + 1] = free_head /\ \A k \in 1..Len(granted) : granted'[k] = granted[k]
  BY <1>3
<1>6. Elements(granted)' = Elements(granted) \cup {free_head}
  BY <1>4, <1>5 DEF Elements
<1>7. \A x : Follows(x, next[x])' <=> Follows(x, next[x])
  BY <1>1 DEF Follows
<1>8. CASE free_head = 0
  <2>1. free_head' = 0 /\ Gone' = Usable /\ Gone = Usable
    BY <1>1, <1>2, <1>8 DEF Gone
  <2>2. \A a, b \in DOMAIN granted' : granted'[a] = granted'[b] /\ granted'[a] # 0 => a = b
    BY <1>2, <1>4, <1>5, <1>8
  <2>3. FreeInv'
    BY <1>1, <1>2, <1>6, <1>8, <2>1, <2>2 DEF FreeInv
  <2>4. QED
    BY <1>1, <1>8, <2>1, <2>3
<1>9. CASE free_head # 0
  <2>1. free_head \in Usable \ Gone /\ Follows(free_head, next[free_head])
    BY <1>1, <1>2, <1>9 DEF Gone
  <2>2. Gone' = Gone \cup {free_head}
    <3>1. ASSUME NEW x \in Usable
          PROVE  (free_head' = 0 \/ x < free_head') <=> (x < free_head \/ x = free_head)
      <4>0. x \in 1..NPages /\ free_head \in 1..NPages
        BY <1>1, <2>1
      <4>1. CASE next[free_head] = 0
        <5>1. free_head' = 0 /\ x <= free_head
          BY <2>1, <4>1 DEF Follows
        <5>2. QED
          BY <1>1, <4>0, <5>1
      <4>2. CASE next[free_head] # 0
        <5>1. /\ free_head' = next[free_head] /\ free_head' # 0
              /\ free_head < free_head' /\ free_head' \in Usable
              /\ x <= free_head \/ free_head' <= x
          BY <2>1, <4>2 DEF Follows
        <5>2. free_head' \in 1..NPages
          BY <1>1, <5>1
        <5>3. QED
          BY <1>1, <4>0, <5>1, <5>2
      <4>3. QED
        BY <4>1, <4>2
    <3>2. QED
      BY <1>1, <1>9, <2>1, <3>1 DEF Gone
  <2>3. free_head' \in Usable \cup {0}
    BY <2>1 DEF Follows
  <2>4. free_head \notin Elements(granted)
    BY <1>2, <1>9, <2>1
  <2>5. \A a, b \in DOMAIN granted' : granted'[a] = granted'[b] /\ granted'[a] # 0 => a = b
    <3>1. \A k \in 1..Len(granted) : granted[k] # free_head
      BY <1>4, <2>4 DEF Elements
    <3>2. QED
      BY <1>2, <1>4, <1>5, <3>1
  <2>6. 0 \notin Elements(granted)
    BY <1>2, <1>9
  <2>7. FreeInv'
    BY <1>1, <1>2, <1>6, <1>7, <1>9, <2>2, <2>3, <2>5, <2>6 DEF FreeInv
  <2>8. QED
    BY <1>1, <1>9, <2>2, <2>7
<1>10. QED
  BY <1>8, <1>9

(* The races are never forgotten. *)
LEMMA RacedGrows ==
    ASSUME NEW p \in Procs, Allocate(p)
    PROVE  raced \subseteq raced' /\ (Clean' => Clean)
<1>1. raced \subseteq raced'
  <2>1. CASE Unlink(p)
    BY <2>1 DEF Unlink
  <2>2. CASE Link(p)
    BY <2>2 DEF Link
  <2>3. CASE MoveOn(p)
    BY <2>3 DEF MoveOn
  <2>4. CASE Carve(p)
    BY <2>4 DEF Carve
  <2>5. CASE GetPage(p) \/ (\E n \in Requests : kmalloc(p, n)) \/ ReadIndex(p) \/ ReadHead(p)
             \/ ReadTail(p) \/ MapAt(p)
    BY <2>5 DEF GetPage, kmalloc, ReadIndex, ReadHead, ReadTail, MapAt
  <2>6. QED
    BY <2>1, <2>2, <2>3, <2>4, <2>5 DEF Allocate
<1>2. QED
  BY <1>1 DEF Clean

(* A step of p that leaves the lists alone keeps AllocInv if it keeps what    *)
(* AllocInv says of p.                                                       *)
Unlisted == <<boot, Lists, used_head, used_tail>>
OthersStay(p) == \A q \in Procs \ {p} : pc'[q] = pc[q] /\ taken'[q] = taken[q]

(* One caller steps and touches no list: its own part decides. *)
LEMMA AllocOwn ==
    ASSUME AllocInv, boot = "done", Clean' => Clean, UNCHANGED Unlisted,
           NEW p \in Procs, OthersStay(p),
           FreeInv /\ IndexInv(p) /\ TailInv =>
               /\ IndexInv(p)'
               /\ used_tail = 0 /\ used_head # 0 /\ pc'[p] \in Taking \cup {"use"}
                     => taken'[p].index = 0
    PROVE  AllocInv'
<1> SUFFICES ASSUME Clean' PROVE FreeInv' /\ (\A q \in Procs : IndexInv(q)') /\ TailInv'
  BY DEF AllocInv
<1>1. FreeInv /\ (\A q \in Procs : IndexInv(q)) /\ TailInv
  BY DEF AllocInv
<1>2. UNCHANGED Lists /\ used_head' = used_head /\ used_tail' = used_tail /\ free_head' = free_head
  BY DEF Unlisted, Lists
<1>3. Gone' = Gone /\ FreeInv'
  BY <1>1, <1>2, FreeKept
<1>4. IndexInv(p)'
  BY <1>1
<1>5. \A q \in Procs \ {p} : IndexInv(q)'
  <2>1. SUFFICES ASSUME NEW q \in Procs \ {p} PROVE IndexInv(q)'
    OBVIOUS
  <2>2. pc'[q] = pc[q] /\ taken'[q] = taken[q]
    BY DEF OthersStay
  <2>3. QED
    BY <1>1, <1>2, <1>3, <2>2 DEF IndexInv
<1>6. TailInv'
  <2>1. ASSUME NEW q \in Procs, used_tail = 0, used_head # 0, pc'[q] \in Taking \cup {"use"}
        PROVE  taken'[q].index = 0
    <3>1. CASE q = p
      BY <1>1, <2>1, <3>1
    <3>2. CASE q # p
      BY <1>1, <2>1, <3>2 DEF OthersStay, TailInv
    <3>3. QED
      BY <3>1, <3>2
  <2>2. QED
    BY <1>1, <1>2, <1>3, <2>1 DEF TailInv
<1>7. QED
  BY <1>3, <1>4, <1>5, <1>6

(* Every step moves its own process only. *)
LEMMA OwnStep ==
    ASSUME TypeOK, NEW p \in Procs, Allocate(p)
    PROVE  OthersStay(p)
<1>1. pc \in [Procs -> Places] /\ taken \in [Procs -> Registers]
  BY DEF TypeOK
<1>2. CASE GetPage(p) \/ (\E n \in Requests : kmalloc(p, n))
  BY <1>1, <1>2 DEF GetPage, kmalloc, Goto, OthersStay
<1>3. CASE ReadIndex(p) \/ ReadHead(p) \/ ReadTail(p)
  BY <1>1, <1>3 DEF ReadIndex, ReadHead, ReadTail, Goto, OthersStay
<1>4. CASE Unlink(p)
  BY <1>1, <1>4 DEF Unlink, Goto, OthersStay
<1>5. CASE Link(p)
  BY <1>1, <1>5 DEF Link, Goto, OthersStay
<1>6. CASE MapAt(p)
  BY <1>1, <1>6 DEF MapAt, Goto, OthersStay
<1>7. CASE MoveOn(p)
  BY <1>1, <1>7 DEF MoveOn, Goto, OthersStay
<1>8. CASE Carve(p)
  BY <1>1, <1>8 DEF Carve, Goto, OthersStay
<1>9. QED
  BY <1>2, <1>3, <1>4, <1>5, <1>6, <1>7, <1>8 DEF Allocate

(* Unlinking: only p itself may be there, so it takes the head. *)
LEMMA AllocUnlink ==
    ASSUME TypeOK, AllocInv, boot = "done", NEW p \in Procs, Unlink(p)
    PROVE  AllocInv'
<1>1. Allocate(p)
  BY DEF Allocate
<1>2. SUFFICES ASSUME Clean' PROVE FreeInv' /\ (\A q \in Procs : IndexInv(q)') /\ TailInv'
  BY DEF AllocInv
<1>3. FreeInv /\ (\A q \in Procs : IndexInv(q)) /\ TailInv
  BY <1>1, <1>2, RacedGrows DEF AllocInv
<1>4. pc[p] = "unlink" /\ pc'[p] = "use" /\ taken' = taken
  BY DEF Unlink, Goto, TypeOK
<1>5. \A q \in Procs \ {p} : pc[q] # "unlink" /\ pc'[q] = pc[q]
  <2>1. "page" \notin raced'
    BY <1>2 DEF Clean
  <2>2. ~Meets(p, {"unlink"})
    BY <2>1 DEF Unlink
  <2>3. QED
    BY <1>1, <2>2, OwnStep DEF Meets, OthersStay
<1>6. /\ UNCHANGED <<linked, range, next, used_head, used_tail>>
      /\ free_head' = next[free_head] /\ granted' = Append(granted, free_head)
  <2>1. taken[p].page = free_head
    BY <1>3, <1>4 DEF IndexInv
  <2>2. QED
    BY <2>1 DEF Unlink, Step, bootVars
<1>7. FreeInv' /\ Gone' = Gone \cup ({free_head} \ {0}) /\ (free_head = 0 => free_head' = 0)
  BY <1>3, <1>6, FreeUnlink
<1>8. ASSUME NEW q \in Procs PROVE IndexInv(q)'
  <2>1. CASE q = p
    BY <1>3, <1>4, <1>7, <2>1 DEF IndexInv, Taking, Filing
  <2>2. CASE q # p
    <3>1. IndexInv(q) /\ pc[q] # "unlink" /\ pc'[q] = pc[q] /\ taken'[q] = taken[q]
      BY <1>3, <1>4, <1>5, <2>2
    <3>2. QED
      BY <1>7, <3>1 DEF IndexInv, Taking, Filing
  <2>3. QED
    BY <2>1, <2>2
<1>9. TailInv'
  <2>1. ASSUME NEW q \in Procs, pc'[q] \in Taking \cup {"use"}
        PROVE  pc[q] \in Taking \cup {"use"} /\ taken'[q] = taken[q]
    BY <1>4, <1>5, <2>1 DEF Taking
  <2>2. QED
    BY <1>3, <1>6, <1>7, <2>1 DEF TailInv
<1>10. QED
  BY <1>7, <1>8, <1>9

(* Queueing on the used list touches only pages that are gone, and entry 0    *)
(* only when the list is exhausted.                                          *)
LEMMA AllocLink ==
    ASSUME TypeOK, AllocInv, boot = "done", NEW p \in Procs, Link(p)
    PROVE  AllocInv'
<1>1. Allocate(p)
  BY DEF Allocate
<1>2. SUFFICES ASSUME Clean' PROVE FreeInv' /\ (\A q \in Procs : IndexInv(q)') /\ TailInv'
  BY DEF AllocInv
<1>3. FreeInv /\ (\A q \in Procs : IndexInv(q)) /\ TailInv
  BY <1>1, <1>2, RacedGrows DEF AllocInv
<1>4. OthersStay(p) /\ pc[p] = "link" /\ pc'[p] = "map" /\ taken' = taken
  BY <1>1, OwnStep DEF Link, Goto, TypeOK
<1>5. PICK k, tail : k = taken[p].index /\ tail = taken[p].tail
  OBVIOUS
<1>6. k \in Gone \cup {0} /\ (k = 0 => free_head = 0)
      /\ tail \in Gone \cup {0, EmptyList} /\ (tail = 0 => k = 0)
  BY <1>3, <1>4, <1>5 DEF IndexInv, Filing
<1>7. UNCHANGED <<linked, range, free_head, granted>>
  BY DEF Link, Step, bootVars, logVars
<1>8. Usable' = Usable /\ Gone' = Gone
  BY <1>7 DEF Usable, Gone
<1>9. NPages \in Nat /\ 0 \in Links /\ Usable \subseteq 1..NPages /\ Usable \subseteq Links
  <2>1. linked \in 0..NPages /\ NPages \in Nat
    BY PagesAssumption DEF TypeOK, Links
  <2>2. QED
    BY <2>1 DEF Usable, Links
<1>10. /\ \A x \in Links : x # k /\ x # tail => next'[x] = next[x]
       /\ next'[0] = 0
  <2>1. next \in [Links -> Links] /\ next[0] = 0 /\ k \in Links
    BY <1>3, <1>6, <1>9 DEF TypeOK, FreeInv, Gone
  <2>2. CASE tail = EmptyList
    <3>1. next' = [next EXCEPT ![k] = 0]
      BY <1>5, <2>2 DEF Link
    <3>2. QED
      BY <1>9, <2>1, <3>1
  <2>3. CASE tail # EmptyList
    <3>1. next' = [next EXCEPT ![tail] = k, ![k] = 0]
      BY <1>5, <2>3 DEF Link
    <3>2. tail \in Links
      BY <1>6, <1>9, <2>3 DEF Gone
    <3>3. QED
      BY <1>6, <1>9, <2>1, <3>1, <3>2
  <2>4. QED
    BY <2>2, <2>3
<1>11. FreeInv'
  <2>1. ASSUME NEW x \in Usable' \ Gone' PROVE Follows(x, next[x])'
    <3>1. x \in Usable \ Gone /\ x \in Links /\ x # 0 /\ x # EmptyList
      BY <1>8, <1>9, <2>1 DEF EmptyList
    <3>2. next'[x] = next[x]
      BY <1>6, <1>10, <3>1
    <3>3. Follows(x, next[x])
      BY <1>3, <3>1 DEF FreeInv
    <3>4. QED
      BY <1>8, <3>2, <3>3 DEF Follows
  <2>2. Elements(granted)' = Elements(granted)
    BY <1>7 DEF Elements
  <2>3. QED
    BY <1>3, <1>7, <1>8, <1>10, <2>1, <2>2 DEF FreeInv
<1>12. ASSUME NEW q \in Procs PROVE IndexInv(q)'
  <2>1. CASE q = p
    BY <1>4, <2>1 DEF IndexInv, Taking, Filing
  <2>2. CASE q # p
    <3>1. IndexInv(q) /\ pc'[q] = pc[q] /\ taken'[q] = taken[q]
      BY <1>3, <1>4, <2>2 DEF OthersStay
    <3>2. QED
      BY <1>7, <1>8, <3>1 DEF IndexInv
  <2>3. QED
    BY <2>1, <2>2
<1>13. TailInv'
  <2>1. used_tail' = k
    BY <1>5 DEF Link
  <2>2. ASSUME k = 0, NEW q \in Procs, pc'[q] \in Taking \cup {"use"} PROVE taken'[q].index = 0
    <3>1. q # p /\ pc[q] \in {"head", "unlink", "use"}
      BY <1>4, <2>2 DEF OthersStay, Taking
    <3>2. "zero" \notin raced'
      BY <1>2 DEF Clean
    <3>3. ~(k = 0 /\ \E r \in Procs \ {p} : pc[r] \in {"head", "unlink", "use"} /\ taken[r].index # 0)
      BY <1>5, <3>2 DEF Link
    <3>4. QED
      BY <1>4, <2>2, <3>1, <3>3
  <2>3. QED
    BY <1>6, <1>7, <1>8, <2>1, <2>2 DEF TailInv
<1>14. QED
  BY <1>11, <1>12, <1>13

(* Every step of a process. *)
LEMMA AllocStep ==
    ASSUME TypeOK, AllocInv, boot = "done", NEW p \in Procs, Allocate(p)
    PROVE  AllocInv'
<1>1. OthersStay(p) /\ (Clean' => Clean)
  BY OwnStep, RacedGrows
<1>2. pc \in [Procs -> Places] /\ taken \in [Procs -> Registers]
  BY DEF TypeOK
<1>3. ASSUME UNCHANGED Unlisted, pc'[p] \notin Taking \cup Filing PROVE AllocInv'
  <2>1. IndexInv(p)' /\ pc'[p] \notin Taking \cup {"use"}
    BY <1>3 DEF IndexInv, Filing, Taking
  <2>2. QED
    BY <1>1, <1>3, <2>1, AllocOwn
<1>4. CASE GetPage(p) \/ (\E n \in Requests : kmalloc(p, n))
  <2>1. UNCHANGED Unlisted
    BY <1>4 DEF GetPage, kmalloc, Step, Unlisted, Lists, bootVars, listVars, logVars
  <2>2. pc'[p] \in {"index", "carve"}
    BY <1>2, <1>4 DEF GetPage, kmalloc, Goto
  <2>3. QED
    BY <1>3, <2>1, <2>2 DEF Taking, Filing
<1>5. CASE MapAt(p) \/ MoveOn(p) \/ Carve(p)
  <2>1. UNCHANGED Unlisted
    BY <1>5 DEF MapAt, MoveOn, Carve, Step, Unlisted, Lists, bootVars, listVars, logVars
  <2>2. pc'[p] \in {"move", "kmove", "carve", "out"}
    BY <1>2, <1>5 DEF MapAt, MoveOn, Carve, Goto
  <2>3. QED
    BY <1>3, <2>1, <2>2 DEF Taking, Filing
<1>6. CASE ReadIndex(p)
  <2>1. UNCHANGED Unlisted
    BY <1>6 DEF ReadIndex, Step, Unlisted, Lists, bootVars, listVars, logVars
  <2>2. pc'[p] = "head" /\ taken'[p].index = free_head /\ free_head' = free_head
    BY <1>2, <1>6, <2>1 DEF ReadIndex, Goto, Unlisted, Lists, Registers
  <2>3. IndexInv(p)'
    BY <2>2 DEF IndexInv, Taking, Filing
  <2>4. TailInv /\ used_tail = 0 /\ used_head # 0 => taken'[p].index = 0
    BY <2>2 DEF TailInv
  <2>5. QED
    BY <1>1, <2>1, <2>3, <2>4, AllocOwn
<1>7. CASE ReadHead(p)
  <2>1. UNCHANGED Unlisted
    BY <1>7 DEF ReadHead, Step, Unlisted, Lists, bootVars, listVars, logVars
  <2>2. /\ pc[p] = "head" /\ pc'[p] = "unlink" /\ free_head' = free_head /\ UNCHANGED Lists
        /\ taken'[p].index = taken[p].index /\ taken'[p].page = free_head
    BY <1>2, <1>7, <2>1 DEF ReadHead, Goto, Unlisted, Lists, Registers
  <2>3. FreeInv /\ IndexInv(p) => IndexInv(p)'
    BY <2>2, FreeKept DEF IndexInv, Taking, Filing
  <2>4. TailInv /\ used_tail = 0 /\ used_head # 0 => taken'[p].index = 0
    BY <2>2 DEF TailInv, Taking
  <2>5. QED
    BY <1>1, <2>1, <2>3, <2>4, AllocOwn
<1>8. CASE ReadTail(p)
  <2>1. UNCHANGED Unlisted
    BY <1>8 DEF ReadTail, Step, Unlisted, Lists, bootVars, listVars, logVars
  <2>2. /\ pc[p] = "use" /\ pc'[p] = "link" /\ free_head' = free_head /\ UNCHANGED Lists
        /\ taken'[p].index = taken[p].index
        /\ taken'[p].tail = IF used_head = 0 /\ used_tail = 0 THEN EmptyList ELSE used_tail
    BY <1>2, <1>8, <2>1 DEF ReadTail, Goto, Unlisted, Lists, Registers
  <2>3. FreeInv /\ IndexInv(p) /\ TailInv => IndexInv(p)'
    BY <2>2, FreeKept DEF IndexInv, TailInv, Taking, Filing, EmptyList
  <2>4. pc'[p] \notin Taking \cup {"use"}
    BY <2>2 DEF Taking
  <2>5. QED
    BY <1>1, <2>1, <2>3, <2>4, AllocOwn
<1>9. QED
  BY <1>4, <1>5, <1>6, <1>7, <1>8, AllocUnlink, AllocLink DEF Allocate
-----------------------------------------------------------------------------
(* The used list.  A step that leaves it alone moves p neither in nor out of   *)
(* the callers that are still to queue their page.                           *)
LEMMA UsedOwn ==
    ASSUME UsedInv, boot = "done", Orderly' => Orderly, UNCHANGED Unlisted,
           NEW p \in Procs, OthersStay(p),
           pc'[p] \in Filing <=> pc[p] \in Filing,
           pc[p] \in Filing => taken'[p].index = taken[p].index,
           Orderly /\ UsedInv =>
               /\ pc'[p] \in Taking => taken'[p].index = free_head
               /\ pc'[p] = "link" => taken'[p].tail = UsedTail
    PROVE  UsedInv'
<1>1. SUFFICES ASSUME Orderly'
      PROVE  /\ (\E s \in Seq(Pages) : Queued(s))'
             /\ \A q, r \in Procs : q # r /\ pc'[q] \in Filing /\ pc'[r] \in Filing
                                       => taken'[q].index # taken'[r].index
             /\ \A q \in Procs : pc'[q] \in Taking => taken'[q].index = free_head'
             /\ \A q \in Procs : pc'[q] = "link" => taken'[q].tail = UsedTail'
  BY DEF UsedInv
<1>2. Orderly
  BY <1>1
<1>3. UNCHANGED <<next, free_head, granted, used_head, used_tail>> /\ UsedTail' = UsedTail
  BY DEF Unlisted, Lists, UsedTail
<1>4. \A q \in Procs : /\ pc'[q] \in Filing <=> pc[q] \in Filing
                       /\ pc[q] \in Filing => taken'[q].index = taken[q].index
  BY DEF OthersStay
<1>5. (\E s \in Seq(Pages) : Queued(s))'
  <2>1. PICK s \in Seq(Pages) : Queued(s)
    BY <1>2 DEF UsedInv
  <2>2. Linked(s)' /\ Elements(granted)' = Elements(granted)
    BY <1>3, <2>1 DEF Queued, Linked, Elements
  <2>3. {taken'[q].index : q \in {r \in Procs : pc'[r] \in Filing}}
          = {taken[q].index : q \in {r \in Procs : pc[r] \in Filing}}
    BY <1>4
  <2>4. \A q \in Procs : pc'[q] \in Filing => taken'[q].index \notin Elements(s)
    BY <1>4, <2>1 DEF Queued
  <2>5. Queued(s)'
    BY <2>1, <2>2, <2>3, <2>4 DEF Queued
  <2>6. QED
    BY <2>5
<1>6. \A q, r \in Procs : q # r /\ pc'[q] \in Filing /\ pc'[r] \in Filing
                             => taken'[q].index # taken'[r].index
  BY <1>2, <1>4 DEF UsedInv
<1>7. \A q \in Procs : pc'[q] \in Taking => taken'[q].index = free_head'
  BY <1>2, <1>3 DEF UsedInv, OthersStay
<1>8. \A q \in Procs : pc'[q] = "link" => taken'[q].tail = UsedTail'
  BY <1>2, <1>3 DEF UsedInv, OthersStay
<1>9. QED
  BY <1>5, <1>6, <1>7, <1>8

(* As long as it is so, entry 0 was not handed out and nobody raced.          *)
LEMMA OrderlyBefore ==
    ASSUME TypeOK, NEW p \in Procs, Allocate(p)
    PROVE  Orderly' => Orderly
<1>1. raced \subseteq raced'
  BY RacedGrows
<1>2. Elements(granted) \subseteq Elements(granted')
  <2>1. CASE Unlink(p)
    <3>1. granted \in Seq(Links) /\ taken[p].page \in Links
      BY DEF TypeOK, Registers
    <3>2. granted' = Append(granted, taken[p].page)
      BY <2>1 DEF Unlink
    <3>3. \A k \in DOMAIN granted : k \in DOMAIN granted' /\ granted'[k] = granted[k]
      BY <3>1, <3>2
    <3>4. QED
      BY <3>3 DEF Elements
  <2>2. CASE ~Unlink(p)
    <3>1. granted' = granted
      BY <2>2 DEF Allocate, GetPage, kmalloc, ReadIndex, ReadHead, ReadTail, Link, MapAt, MoveOn,
                  Carve, logVars
    <3>2. QED
      BY <3>1
  <2>3. QED
    BY <2>1, <2>2
<1>3. QED
  BY <1>1, <1>2 DEF Orderly

(* The page unlinked was on the free list, so its caller alone has it.        *)
LEMMA UsedUnlink ==
    ASSUME TypeOK, AllocInv, UsedInv, boot = "done", NEW p \in Procs, Unlink(p)
    PROVE  UsedInv'
<1>1. Allocate(p)
  BY DEF Allocate
<1>2. SUFFICES ASSUME Orderly'
      PROVE  /\ (\E s \in Seq(Pages) : Queued(s))'
             /\ \A q, r \in Procs : q # r /\ pc'[q] \in Filing /\ pc'[r] \in Filing
                                       => taken'[q].index # taken'[r].index
             /\ \A q \in Procs : pc'[q] \in Taking => taken'[q].index = free_head'
             /\ \A q \in Procs : pc'[q] = "link" => taken'[q].tail = UsedTail'
  BY DEF UsedInv
<1>3. Orderly
  BY <1>1, <1>2, OrderlyBefore
<1>4. /\ Clean /\ FreeInv
      /\ \E s \in Seq(Pages) : Queued(s)
      /\ \A q, r \in Procs : q # r /\ pc[q] \in Filing /\ pc[r] \in Filing
                                => taken[q].index # taken[r].index
      /\ \A q \in Procs : pc[q] \in Taking => taken[q].index = free_head
      /\ \A q \in Procs : pc[q] = "link" => taken[q].tail = UsedTail
  <2>1. Clean
    BY <1>3 DEF Orderly, Clean
  <2>2. QED
    BY <1>3, <2>1 DEF UsedInv, AllocInv
<1>5. /\ pc[p] = "unlink" /\ pc'[p] = "use" /\ taken' = taken
      /\ taken[p].page = free_head /\ taken[p].index = free_head
  <2>1. pc[p] = "unlink" /\ pc'[p] = "use" /\ taken' = taken
    BY DEF Unlink, Goto, TypeOK
  <2>2. IndexInv(p)
    BY <1>4 DEF AllocInv
  <2>3. QED
    BY <1>4, <2>1, <2>2 DEF IndexInv, Taking
<1>6. \A q \in Procs \ {p} : pc[q] \notin Taking /\ pc'[q] = pc[q]
  <2>1. "page" \notin raced' /\ "index" \notin raced'
    BY <1>2 DEF Orderly
  <2>2. ~Meets(p, {"unlink"}) /\ ~Meets(p, {"head"})
    BY <2>1 DEF Unlink
  <2>3. QED
    BY <1>1, <2>2, OwnStep DEF Meets, OthersStay, Taking
<1>7. UNCHANGED <<next, used_head, used_tail>> /\ UsedTail' = UsedTail
  BY DEF Unlink, UsedTail
<1>8. Elements(granted)' = Elements(granted) \cup {free_head}
  <2>1. granted \in Seq(Links) /\ free_head \in Links /\ granted' = Append(granted, free_head)
    BY <1>5 DEF TypeOK, Unlink
  <2>2. DOMAIN granted' = 1..(Len(granted) + 1) /\ DOMAIN granted = 1..Len(granted)
        /\ Len(granted) \in Nat
    BY <2>1
  <2>3. granted'[Len(granted) + 1] = free_head /\ \A k \in 1..Len(granted) : granted'[k] = granted[k]
    BY <2>1
  <2>4. QED
    BY <2>2, <2>3 DEF Elements
<1>9. free_head \notin Elements(granted)
  <2>1. free_head # 0
    BY <1>2, <1>8 DEF Orderly
  <2>2. free_head \notin Gone
    <3>1. free_head \in Usable /\ free_head \in 0..NPages /\ NPages \in Nat
      BY <1>4, <2>1, PagesAssumption DEF FreeInv, TypeOK, Links
    <3>2. QED
      BY <2>1, <3>1 DEF Gone
  <2>3. QED
    BY <1>4, <2>1, <2>2 DEF FreeInv
<1>10. \A q \in Procs : pc'[q] \in Filing <=> pc[q] \in Filing \/ q = p
  BY <1>5, <1>6 DEF Filing
<1>11. PICK s \in Seq(Pages) : Queued(s)
  BY <1>4
<1>12. Elements(s) \subseteq Elements(granted)
       /\ \A q \in Procs : pc[q] \in Filing => taken[q].index \in Elements(granted)
  BY <1>11 DEF Queued
<1>13. Queued(s)'
  <2>1. Linked(s)' /\ Distinct(s)
    BY <1>7, <1>11 DEF Queued, Linked
  <2>2. {taken'[q].index : q \in {r \in Procs : pc'[r] \in Filing}}
          = {taken[q].index : q \in {r \in Procs : pc[r] \in Filing}} \cup {free_head}
    BY <1>5, <1>10
  <2>3. Elements(granted)'
          = Elements(s) \cup {taken'[q].index : q \in {r \in Procs : pc'[r] \in Filing}}
    <3>1. Elements(granted)
            = Elements(s) \cup {taken[q].index : q \in {r \in Procs : pc[r] \in Filing}}
      BY <1>11 DEF Queued
    <3>2. QED
      BY <1>8, <2>2, <3>1
  <2>4. \A q \in Procs : pc'[q] \in Filing => taken'[q].index \notin Elements(s)
    <3>1. \A q \in Procs : pc[q] \in Filing => taken[q].index \notin Elements(s)
      BY <1>11 DEF Queued
    <3>2. QED
      BY <1>5, <1>9, <1>10, <1>12, <3>1
  <2>5. QED
    BY <2>1, <2>3, <2>4 DEF Queued
<1>14. \A q, r \in Procs : q # r /\ pc'[q] \in Filing /\ pc'[r] \in Filing
                              => taken'[q].index # taken'[r].index
  BY <1>4, <1>5, <1>9, <1>10, <1>12
<1>15. \A q \in Procs : pc'[q] \in Taking => taken'[q].index = free_head'
  BY <1>5, <1>6 DEF Taking
<1>16. \A q \in Procs : pc'[q] = "link" => taken'[q].tail = UsedTail'
  BY <1>4, <1>5, <1>6, <1>7
<1>17. QED
  BY <1>13, <1>14, <1>15, <1>16

(* Linking behind the tail appends to the used list. *)
LEMMA LinkedAppend ==
    ASSUME TypeOK, NEW s \in Seq(Pages), Linked(s), Distinct(s), NEW k \in Pages,
           k \notin Elements(s), used_tail' = k,
           IF UsedTail = EmptyList
           THEN used_head' = k /\ next' = [next EXCEPT ![k] = 0]
           ELSE used_head' = used_head /\ next' = [next EXCEPT ![UsedTail] = k, ![k] = 0]
    PROVE  /\ Append(s, k) \in Seq(Pages)
           /\ Linked(Append(s, k))' /\ Distinct(Append(s, k))
           /\ Elements(Append(s, k)) = Elements(s) \cup {k}
<1>1. PICK t : t = Append(s, k)
  OBVIOUS
<1>2. PICK n \in Nat : n = Len(s)
  OBVIOUS
<1>3. t \in Seq(Pages) /\ Len(t) = n + 1 /\ DOMAIN t = 1..(n + 1) /\ DOMAIN s = 1..n
      /\ t[n + 1] = k /\ \A j \in 1..n : t[j] = s[j] /\ s[j] \in Pages
  BY <1>1, <1>2
<1>4. Elements(t) = Elements(s) \cup {k}
  BY <1>2, <1>3 DEF Elements
<1>5. \A j \in 1..n : s[j] # k
  BY <1>3 DEF Elements
<1>6. Distinct(t)
  BY <1>3, <1>5 DEF Distinct
<1>7. next \in [Links -> Links] /\ Pages \subseteq Links /\ NPages \in Nat /\ 0 \notin Pages
      /\ EmptyList \notin Pages /\ EmptyList # 0
  <2>1. NPages \in Nat
    BY PagesAssumption
  <2>2. 0 \notin Pages /\ Pages \subseteq Links
    BY <2>1 DEF Pages, Links
  <2>3. EmptyList \notin Pages /\ EmptyList # 0
    BY <2>1 DEF Pages, EmptyList
  <2>4. QED
    BY <2>1, <2>2, <2>3 DEF TypeOK
<1>8. CASE n = 0
  <2>0. Len(s) = 0
    BY <1>2, <1>8
  <2>1. s = <<>>
    BY ONLY <2>0, s \in Seq(Pages)
  <2>2. UsedTail = EmptyList
    BY <2>1 DEF Linked, UsedTail
  <2>3. used_head' = k /\ next'[k] = 0
    BY <1>7, <2>2
  <2>4. t # <<>> /\ Len(t) = 1 /\ DOMAIN t = 1..1 /\ t[1] = k
    BY <1>3, <1>8
  <2>a. \A j \in 1..1 : next'[t[j]] = IF j = 1 THEN 0 ELSE t[j + 1]
    BY <2>3, <2>4
  <2>b. Linked(t)'
    BY <2>3, <2>4, <2>a DEF Linked
  <2>5. QED
    BY <1>1, <1>3, <1>4, <1>6, <2>b
<1>9. CASE n # 0
  <2>1. s # <<>> /\ n \in 1..n /\ 1 \in 1..n
    BY <1>2, <1>9
  <2>2. used_head = s[1] /\ used_tail = s[n] /\ s[1] \in Pages /\ s[n] \in Pages
    BY <1>2, <1>3, <2>1 DEF Linked
  <2>3. UsedTail = s[n] /\ UsedTail # EmptyList
    BY <1>7, <2>2 DEF UsedTail
  <2>4. used_head' = s[1] /\ next' = [next EXCEPT ![s[n]] = k, ![k] = 0]
    BY <2>2, <2>3
  <2>5. \A x \in Pages : next'[x] = IF x = k THEN 0 ELSE IF x = s[n] THEN k ELSE next[x]
    BY <1>7, <2>2, <2>4
  <2>6. \A j \in 1..(n + 1) : next'[t[j]] = IF j = n + 1 THEN 0 ELSE t[j + 1]
    <3>1. SUFFICES ASSUME NEW j \in 1..(n + 1) PROVE next'[t[j]] = IF j = n + 1 THEN 0 ELSE t[j + 1]
      OBVIOUS
    <3>2. CASE j = n + 1
      BY <1>3, <2>5, <3>2
    <3>3. CASE j = n
      BY <1>3, <1>5, <2>1, <2>5, <3>3
    <3>4. CASE j < n
      <4>1. j \in 1..n /\ j + 1 \in 1..n /\ t[j] = s[j] /\ t[j + 1] = s[j + 1] /\ s[j] \in Pages
        BY <1>3, <3>4
      <4>2. s[j] # k /\ s[j] # s[n]
        BY <1>3, <1>5, <2>1, <3>4, <4>1 DEF Distinct
      <4>3. next[s[j]] = s[j + 1]
        BY <1>2, <1>3, <3>4, <4>1 DEF Linked
      <4>4. QED
        BY <2>5, <3>4, <4>1, <4>2, <4>3
    <3>5. QED
      BY <3>2, <3>3, <3>4
  <2>7. t # <<>> /\ t[1] = s[1]
    BY <1>3, <2>1
  <2>8. Linked(t)'
    BY <1>3, <2>4, <2>6, <2>7 DEF Linked
  <2>9. QED
    BY <1>1, <1>3, <1>4, <1>6, <2>8
<1>10. QED
  BY <1>8, <1>9

(* Linking: nobody else has read the same tail. *)
LEMMA UsedLink ==
    ASSUME TypeOK, AllocInv, UsedInv, boot = "done", NEW p \in Procs, Link(p)
    PROVE  UsedInv'
<1>1. Allocate(p)
  BY DEF Allocate
<1>2. SUFFICES ASSUME Orderly'
      PROVE  /\ \E s \in Seq(Pages) : Queued(s)'
             /\ \A q, r \in Procs : q # r /\ pc'[q] \in Filing /\ pc'[r] \in Filing
                                       => taken'[q].index # taken'[r].index
             /\ \A q \in Procs : pc'[q] \in Taking => taken'[q].index = free_head'
             /\ \A q \in Procs : pc'[q] = "link" => taken'[q].tail = UsedTail'
  BY DEF UsedInv
<1>3. Orderly
  BY <1>1, <1>2, OrderlyBefore
<1>4. /\ Clean /\ FreeInv
      /\ \E s \in Seq(Pages) : Queued(s)
      /\ \A q, r \in Procs : q # r /\ pc[q] \in Filing /\ pc[r] \in Filing
                                => taken[q].index # taken[r].index
      /\ \A q \in Procs : pc[q] \in Taking => taken[q].index = free_head
      /\ \A q \in Procs : pc[q] = "link" => taken[q].tail = UsedTail
  <2>1. Clean
    BY <1>3 DEF Orderly, Clean
  <2>2. QED
    BY <1>3, <2>1 DEF UsedInv, AllocInv
<1>5. /\ OthersStay(p) /\ pc[p] = "link" /\ pc'[p] = "map" /\ taken' = taken
      /\ taken[p].tail = UsedTail /\ pc[p] \in Filing
  BY <1>1, <1>4, OwnStep DEF Link, Goto, TypeOK, Filing
<1>6. \A q \in Procs \ {p} : pc[q] # "link" /\ pc'[q] = pc[q]
  <2>1. "file" \notin raced'
    BY <1>2 DEF Orderly
  <2>2. ~Meets(p, {"link"})
    BY <2>1 DEF Link
  <2>3. QED
    BY <1>5, <2>2 DEF Meets, OthersStay
<1>7. PICK s \in Seq(Pages) : Queued(s)
  BY <1>4
<1>8. PICK k : k = taken[p].index
  OBVIOUS
<1>9. /\ Linked(s) /\ Distinct(s)
      /\ Elements(granted)
            = Elements(s) \cup {taken[q].index : q \in {r \in Procs : pc[r] \in Filing}}
      /\ \A q \in Procs : pc[q] \in Filing => taken[q].index \notin Elements(s)
  BY <1>7 DEF Queued
<1>10. k \in Pages /\ k \notin Elements(s)
  <2>1. k \in Elements(granted) /\ k \notin Elements(s)
    BY <1>5, <1>8, <1>9
  <2>2. k # 0
    BY <1>3, <2>1 DEF Orderly
  <2>3. k \in Links
    BY <1>8 DEF TypeOK, Registers
  <2>4. QED
    BY <2>1, <2>2, <2>3, PagesAssumption DEF Links, Pages
<1>11. used_tail' = k /\ granted' = granted /\ free_head' = free_head
  BY <1>8 DEF Link, logVars
<1>12. IF UsedTail = EmptyList
       THEN used_head' = k /\ next' = [next EXCEPT ![k] = 0]
       ELSE used_head' = used_head /\ next' = [next EXCEPT ![UsedTail] = k, ![k] = 0]
  BY <1>5, <1>8 DEF Link
<1>13. PICK t : t = Append(s, k)
  OBVIOUS
<1>14. t \in Seq(Pages) /\ Linked(t)' /\ Distinct(t) /\ Elements(t) = Elements(s) \cup {k}
  BY <1>9, <1>10, <1>11, <1>12, <1>13, LinkedAppend
<1>15. \A q \in Procs : pc'[q] \in Filing <=> pc[q] \in Filing /\ q # p
  BY <1>5, <1>6 DEF Filing
<1>16. Queued(t)'
  <2>1. {taken[q].index : q \in {r \in Procs : pc[r] \in Filing}}
          = {taken'[q].index : q \in {r \in Procs : pc'[r] \in Filing}} \cup {k}
    BY <1>5, <1>8, <1>15
  <2>2. Elements(granted)'
          = Elements(t) \cup {taken'[q].index : q \in {r \in Procs : pc'[r] \in Filing}}
    <3>1. Elements(granted)' = Elements(granted)
      BY <1>11 DEF Elements
    <3>2. QED
      BY <1>9, <1>14, <2>1, <3>1
  <2>3. \A q \in Procs : pc'[q] \in Filing => taken'[q].index \notin Elements(t)
    BY <1>4, <1>5, <1>8, <1>9, <1>14, <1>15
  <2>4. QED
    BY <1>14, <2>2, <2>3 DEF Queued
<1>17. \A q, r \in Procs : q # r /\ pc'[q] \in Filing /\ pc'[r] \in Filing
                              => taken'[q].index # taken'[r].index
  BY <1>4, <1>5, <1>15
<1>18. \A q \in Procs : pc'[q] \in Taking => taken'[q].index = free_head'
  BY <1>4, <1>5, <1>6, <1>11 DEF Taking
<1>19. \A q \in Procs : pc'[q] = "link" => taken'[q].tail = UsedTail'
  BY <1>5, <1>6
<1>20. QED
  BY <1>14, <1>16, <1>17, <1>18, <1>19

(* Every step of a process. *)
LEMMA UsedStep ==
    ASSUME TypeOK, AllocInv, UsedInv, boot = "done", NEW p \in Procs, Allocate(p)
    PROVE  UsedInv'
<1>1. OthersStay(p) /\ (Orderly' => Orderly)
  BY OwnStep, OrderlyBefore
<1>2. pc \in [Procs -> Places] /\ taken \in [Procs -> Registers]
  BY DEF TypeOK
<1>3. ASSUME UNCHANGED Unlisted, pc[p] \notin Filing, pc'[p] \notin Taking \cup Filing PROVE UsedInv'
  <2>1. pc'[p] # "link"
    BY <1>3 DEF Filing
  <2>2. QED
    BY <1>1, <1>3, <2>1, UsedOwn
<1>4. CASE GetPage(p) \/ (\E n \in Requests : kmalloc(p, n))
  <2>1. UNCHANGED Unlisted
    BY <1>4 DEF GetPage, kmalloc, Step, Unlisted, Lists, bootVars, listVars, logVars
  <2>2. pc'[p] \in {"index", "carve"} /\ pc[p] = "out"
    BY <1>2, <1>4 DEF GetPage, kmalloc, Goto
  <2>3. QED
    BY <1>3, <2>1, <2>2 DEF Taking, Filing
<1>5. CASE MapAt(p) \/ MoveOn(p) \/ Carve(p)
  <2>1. UNCHANGED Unlisted
    BY <1>5 DEF MapAt, MoveOn, Carve, Step, Unlisted, Lists, bootVars, listVars, logVars
  <2>2. pc'[p] \in {"move", "kmove", "carve", "out"} /\ pc[p] \in {"map", "move", "kmove", "carve"}
    BY <1>2, <1>5 DEF MapAt, MoveOn, Carve, Goto
  <2>3. QED
    BY <1>3, <2>1, <2>2 DEF Taking, Filing
<1>6. CASE ReadIndex(p)
  <2>1. UNCHANGED Unlisted
    BY <1>6 DEF ReadIndex, Step, Unlisted, Lists, bootVars, listVars, logVars
  <2>2. pc[p] = "index" /\ pc'[p] = "head" /\ taken'[p].index = free_head
    BY <1>2, <1>6, <2>1 DEF ReadIndex, Goto, Registers
  <2>3. pc[p] \notin Filing /\ pc'[p] \notin Filing /\ pc'[p] # "link"
    BY <2>2 DEF Filing
  <2>4. QED
    BY <1>1, <2>1, <2>2, <2>3, UsedOwn
<1>7. CASE ReadHead(p)
  <2>1. UNCHANGED Unlisted
    BY <1>7 DEF ReadHead, Step, Unlisted, Lists, bootVars, listVars, logVars
  <2>2. pc[p] = "head" /\ pc'[p] = "unlink" /\ taken'[p].index = taken[p].index
    BY <1>2, <1>7, <2>1 DEF ReadHead, Goto, Registers
  <2>3. pc[p] \notin Filing /\ pc'[p] \notin Filing /\ pc'[p] # "link" /\ pc[p] \in Taking
    BY <2>2 DEF Filing, Taking
  <2>4. Orderly /\ UsedInv => taken'[p].index = free_head
    BY <2>2, <2>3 DEF UsedInv
  <2>5. QED
    BY <1>1, <2>1, <2>3, <2>4, UsedOwn
<1>8. CASE ReadTail(p)
  <2>1. UNCHANGED Unlisted
    BY <1>8 DEF ReadTail, Step, Unlisted, Lists, bootVars, listVars, logVars
  <2>2. pc[p] = "use" /\ pc'[p] = "link" /\ taken'[p].index = taken[p].index
        /\ taken'[p].tail = UsedTail
    BY <1>2, <1>8, <2>1 DEF ReadTail, Goto, Registers, UsedTail
  <2>3. pc[p] \in Filing /\ pc'[p] \in Filing /\ pc'[p] \notin Taking
    BY <2>2 DEF Filing, Taking
  <2>4. QED
    BY <1>1, <2>1, <2>2, <2>3, UsedOwn
<1>9. QED
  BY <1>4, <1>5, <1>6, <1>7, <1>8, UsedUnlink, UsedLink DEF Allocate
-----------------------------------------------------------------------------
(* Where a process is in get_new_page_v or in kmalloc. *)
LEMMA WantStep ==
    ASSUME TypeOK, WantInv, NEW p \in Procs, Allocate(p)
    PROVE  WantInv'
<1>1. pc \in [Procs -> Places] /\ want \in [Procs -> 0..PAGESIZE]
  BY DEF TypeOK
<1>2. CASE GetPage(p)
  BY <1>1, <1>2 DEF GetPage, Goto, WantInv
<1>3. ASSUME NEW n \in Requests, kmalloc(p, n) PROVE WantInv'
  <2>1. n # 0
    BY RequestAssumption
  <2>2. QED
    BY <1>1, <1>3, <2>1 DEF kmalloc, Goto, WantInv
<1>4. CASE ReadIndex(p) \/ ReadHead(p) \/ ReadTail(p)
  BY <1>1, <1>4 DEF ReadIndex, ReadHead, ReadTail, Goto, WantInv
<1>5. CASE Unlink(p)
  BY <1>1, <1>5 DEF Unlink, Goto, WantInv
<1>6. CASE Link(p)
  BY <1>1, <1>6 DEF Link, Goto, WantInv
<1>7. CASE MapAt(p)
  BY <1>1, <1>7 DEF MapAt, Goto, WantInv
<1>8. CASE MoveOn(p)
  BY <1>1, <1>8 DEF MoveOn, Goto, WantInv
<1>9. CASE Carve(p)
  BY <1>1, <1>9 DEF Carve, Goto, WantInv
<1>10. QED
  BY <1>2, <1>3, <1>4, <1>5, <1>6, <1>7, <1>8, <1>9 DEF Allocate

(* Between the read and the store of _available_virt_mem the page is mapped.  *)
LEMMA MapStep ==
    ASSUME TypeOK, MapInv, NEW p \in Procs, Allocate(p)
    PROVE  MapInv'
<1> SUFFICES ASSUME "virt" \notin raced'
             PROVE  /\ \A k \in DOMAIN mapped' : mapped'[k] < virt'
                    /\ Distinct(mapped')
                    /\ \A q \in Procs : pc'[q] \in Moving => taken'[q].virt = virt'
  BY DEF MapInv, Distinct
<1>1. /\ \A k \in DOMAIN mapped : mapped[k] < virt
      /\ Distinct(mapped)
      /\ \A q \in Procs : pc[q] \in Moving => taken[q].virt = virt
  BY RacedGrows DEF MapInv
<1>2. pc \in [Procs -> Places] /\ taken \in [Procs -> Registers] /\ mapped \in Seq(Nat) /\ virt \in Nat
  BY DEF TypeOK
<1>3. OthersStay(p)
  BY OwnStep
<1>4. CASE MoveOn(p)
  <2>1. pc[p] \in Moving /\ taken[p].virt = virt /\ pc'[p] \notin Moving
    BY <1>1, <1>2, <1>4 DEF MoveOn, Goto, Moving
  <2>2. \A q \in Procs \ {p} : pc[q] \notin Moving
    BY <1>4 DEF MoveOn, Meets, Moving
  <2>3. mapped' = Append(mapped, virt) /\ virt' = virt + 1
    BY <1>4, <2>1 DEF MoveOn
  <2>4. DOMAIN mapped' = 1..(Len(mapped) + 1) /\ DOMAIN mapped = 1..Len(mapped) /\ Len(mapped) \in Nat
        /\ mapped'[Len(mapped) + 1] = virt /\ \A k \in 1..Len(mapped) : mapped'[k] = mapped[k]
    BY <1>2, <2>3
  <2>5. \A k \in DOMAIN mapped' : mapped'[k] < virt'
    BY <1>1, <1>2, <2>3, <2>4
  <2>6. Distinct(mapped')
    <3>1. \A k \in 1..Len(mapped) : mapped[k] # virt
      BY <1>1, <1>2, <2>4
    <3>2. QED
      BY <1>1, <2>4, <3>1 DEF Distinct
  <2>7. \A q \in Procs : pc'[q] \in Moving => taken'[q].virt = virt'
    BY <1>3, <2>1, <2>2 DEF OthersStay
  <2>8. QED
    BY <2>5, <2>6, <2>7
<1>5. CASE ~MoveOn(p)
  <2>1. mapped' = mapped /\ virt' = virt
    BY <1>5 DEF Allocate, GetPage, kmalloc, ReadIndex, ReadHead, Unlink, ReadTail, Link, MapAt,
                Carve, logVars, kVars
  <2>2. pc'[p] \in Moving => taken'[p].virt = virt
    <3>1. CASE MapAt(p)
      BY <1>2, <3>1 DEF MapAt, Registers
    <3>2. CASE ~MapAt(p)
      <4>1. pc'[p] \notin Moving
        BY <1>2, <1>5, <3>2 DEF Allocate, GetPage, kmalloc, ReadIndex, ReadHead, Unlink, ReadTail,
                                Link, Carve, Goto, Moving
      <4>2. QED
        BY <4>1
    <3>3. QED
      BY <3>1, <3>2
  <2>3. \A q \in Procs : pc'[q] \in Moving => taken'[q].virt = virt'
    BY <1>1, <1>3, <2>1, <2>2 DEF OthersStay
  <2>4. QED
    BY <1>1, <2>1, <2>3
<1>6. QED
  BY <1>4, <1>5

(* What BlockInv says of the blocks only, and of the processes. *)
BlockBody ==
    /\ kpage <= virt /\ (kpage = virt => ~NobodyMaps)
    /\ \A p \in Procs : pc[p] = "kmove" => kpage = virt
    /\ \A k \in DOMAIN blocks : blocks[k].page < virt
    /\ NobodyMaps => \A k \in DOMAIN blocks :
          /\ blocks[k].page <= kpage
          /\ blocks[k].page = kpage => blocks[k].from + blocks[k].bytes <= kindex
    /\ \A p \in Procs : pc[p] = "carve" /\ Alone(p) => kindex + want[p] <= PAGESIZE
    /\ \A a \in DOMAIN blocks : blocks[a].from + blocks[a].bytes <= PAGESIZE
    /\ \A a, b \in DOMAIN blocks : a = b \/ Apart(a, b)

(* A step outside the windows of kmalloc. *)
LEMMA BlockElsewhere ==
    ASSUME TypeOK, BlockBody, NEW p \in Procs, OthersStay(p),
           UNCHANGED <<kpage, virt, kindex, blocks>>,
           pc[p] \notin {"carve", "kmove"}, pc'[p] # "kmove",
           pc'[p] = "carve" => kindex + want'[p] <= PAGESIZE,
           \A q \in Procs \ {p} : want'[q] = want[q]
    PROVE  BlockBody'
<1>1. \A q \in Procs \ {p} : pc'[q] = pc[q]
  BY DEF OthersStay
<1>2. NobodyMaps' <=> NobodyMaps
  BY <1>1 DEF NobodyMaps
<1>3. \A q \in Procs : pc'[q] = "kmove" => pc[q] = "kmove"
  BY <1>1
<1>4. \A q \in Procs : pc'[q] = "carve" /\ Alone(q)' => kindex' + want'[q] <= PAGESIZE
  <2>1. SUFFICES ASSUME NEW q \in Procs, pc'[q] = "carve", Alone(q)'
                 PROVE  kindex' + want'[q] <= PAGESIZE
    OBVIOUS
  <2>2. CASE q = p
    BY <2>1, <2>2
  <2>3. CASE q # p
    <3>1. pc[q] = "carve" /\ Alone(q)
      BY <1>1, <2>1, <2>3 DEF Alone
    <3>2. kindex + want[q] <= PAGESIZE
      BY <3>1 DEF BlockBody
    <3>3. QED
      BY <2>3, <3>2
  <2>4. QED
    BY <2>2, <2>3
<1>5. \A a, b \in DOMAIN blocks' : a = b \/ Apart(a, b)'
  BY DEF BlockBody, Apart
<1>6. QED
  BY <1>2, <1>3, <1>4, <1>5 DEF BlockBody

(* Carving alone: the block lies behind those of the page. *)
LEMMA BlockCarve ==
    ASSUME TypeOK, BlockBody, NEW p \in Procs, Carve(p), "block" \notin raced'
    PROVE  BlockBody'
<1>1. /\ pc \in [Procs -> Places] /\ want[p] \in Nat /\ blocks \in Seq(Block)
      /\ kpage \in Nat /\ virt \in Nat /\ kindex \in Nat /\ PAGESIZE \in Nat
  BY BytesAssumption DEF TypeOK
<1>2. pc[p] = "carve" /\ pc'[p] = "out" /\ \A q \in Procs \ {p} : pc'[q] = pc[q]
  BY <1>1 DEF Carve, Goto
<1>3. \A q \in Procs \ {p} : pc[q] \notin {"carve", "kmove"}
  BY DEF Carve, Meets
<1>4. NobodyMaps /\ NobodyMaps' /\ Alone(p)
  BY <1>2, <1>3 DEF NobodyMaps, Alone
<1>5. kindex + want[p] <= PAGESIZE /\ kpage <= virt /\ kpage # virt
  BY <1>2, <1>4 DEF BlockBody
<1>6. PICK n \in Nat : n = Len(blocks)
  BY <1>1
<1>7. PICK b : b = [page |-> kpage, from |-> kindex, bytes |-> want[p]]
  OBVIOUS
<1>8. b.page = kpage /\ b.from = kindex /\ b.bytes = want[p] /\ b \in Block
  BY <1>1, <1>7 DEF Block
<1>9. /\ DOMAIN blocks = 1..n /\ DOMAIN blocks' = 1..(n + 1) /\ blocks'[n + 1] = b
      /\ \A k \in 1..n : blocks'[k] = blocks[k] /\ blocks[k] \in Block
  BY <1>1, <1>6, <1>7, <1>8 DEF Carve
<1>10. kindex' = kindex + want[p] /\ kpage' = kpage /\ virt' = virt
  BY DEF Carve
<1>11. \A k \in 1..n : /\ blocks[k].page \in Nat /\ blocks[k].from \in Nat /\ blocks[k].bytes \in Nat
                       /\ blocks[k].page < virt /\ blocks[k].page <= kpage
                       /\ blocks[k].page = kpage => blocks[k].from + blocks[k].bytes <= kindex
                       /\ blocks[k].from + blocks[k].bytes <= PAGESIZE
  BY <1>4, <1>9 DEF BlockBody, Block
<1>12. \A k \in DOMAIN blocks' : /\ blocks'[k].page < virt' /\ blocks'[k].page <= kpage'
                                 /\ blocks'[k].page = kpage' => blocks'[k].from + blocks'[k].bytes <= kindex'
                                 /\ blocks'[k].from + blocks'[k].bytes <= PAGESIZE
  <2>1. SUFFICES ASSUME NEW k \in 1..(n + 1)
        PROVE  /\ blocks'[k].page < virt' /\ blocks'[k].page <= kpage'
               /\ blocks'[k].page = kpage' => blocks'[k].from + blocks'[k].bytes <= kindex'
               /\ blocks'[k].from + blocks'[k].bytes <= PAGESIZE
    BY <1>9
  <2>2. CASE k = n + 1
    BY <1>1, <1>5, <1>8, <1>9, <1>10, <2>2
  <2>3. CASE k # n + 1
    <3>1. k \in 1..n
      BY <2>1, <2>3
    <3>2. blocks'[k] = blocks[k] /\ k \in 1..n
      BY <1>9, <3>1
    <3>3. /\ blocks[k].page < virt /\ blocks[k].page <= kpage
          /\ blocks[k].page = kpage => blocks[k].from + blocks[k].bytes <= kindex
          /\ blocks[k].from + blocks[k].bytes <= PAGESIZE
          /\ blocks[k].from + blocks[k].bytes \in Nat
      BY <1>11, <3>1
    <3>4. kindex <= kindex'
      BY <1>1, <1>10
    <3>5. kindex' \in Nat
      BY <1>1, <1>10
    <3>6. QED
      BY <1>1, <1>10, <3>2, <3>3, <3>4, <3>5
  <2>4. QED
    BY <2>2, <2>3
<1>13. \A x, y \in DOMAIN blocks' : x = y \/ Apart(x, y)'
  <2>1. SUFFICES ASSUME NEW x \in 1..(n + 1), NEW y \in 1..(n + 1), x # y PROVE Apart(x, y)'
    BY <1>9
  <2>2. CASE x \in 1..n /\ y \in 1..n
    BY <1>9, <2>1, <2>2 DEF BlockBody, Apart
  <2>3. CASE x = n + 1
    <3>1. y \in 1..n
      BY <2>1, <2>3
    <3>2. blocks[y].page # kpage \/ blocks[y].from + blocks[y].bytes <= kindex
      BY <1>11, <3>1
    <3>3. QED
      BY <1>8, <1>9, <2>3, <3>1, <3>2 DEF Apart
  <2>4. CASE y = n + 1
    <3>1. x \in 1..n
      BY <2>1, <2>4
    <3>2. blocks[x].page # kpage \/ blocks[x].from + blocks[x].bytes <= kindex
      BY <1>11, <3>1
    <3>3. QED
      BY <1>8, <1>9, <2>4, <3>1, <3>2 DEF Apart
  <2>5. QED
    BY <2>2, <2>3, <2>4
<1>14. \A q \in Procs : pc'[q] # "kmove" /\ pc'[q] # "carve"
  BY <1>2, <1>3
<1>15. QED
  BY <1>1, <1>5, <1>10, <1>12, <1>13, <1>14 DEF BlockBody

(* A new current page: it is the next virtual page, ahead of every block.     *)
LEMMA BlockMap ==
    ASSUME TypeOK, WantInv, BlockBody, NEW p \in Procs, MapAt(p)
    PROVE  BlockBody'
<1>1. /\ pc \in [Procs -> Places] /\ blocks \in Seq(Block) /\ virt \in Nat
  BY DEF TypeOK
<1>2. Allocate(p) /\ pc[p] = "map" /\ UNCHANGED <<virt, kindex, want, blocks>>
  BY DEF Allocate, MapAt, logVars
<1>3. OthersStay(p)
  BY <1>2, OwnStep
<1>4. CASE want[p] = 0
  <2>1. pc'[p] = "move" /\ kpage' = kpage
    BY <1>1, <1>4 DEF MapAt, Goto
  <2>2. QED
    BY <1>2, <1>3, <2>1, BlockElsewhere
<1>5. CASE want[p] # 0
  <2>1. pc'[p] = "kmove" /\ kpage' = virt
    BY <1>1, <1>5 DEF MapAt, Goto
  <2>2. ~NobodyMaps'
    BY <2>1 DEF NobodyMaps
  <2>3. \A q \in Procs : pc'[q] = "carve" => ~Alone(q)'
    BY <2>1 DEF Alone
  <2>4. \A a, b \in DOMAIN blocks' : a = b \/ Apart(a, b)'
    BY <1>2 DEF BlockBody, Apart
  <2>5. QED
    BY <1>1, <1>2, <2>1, <2>2, <2>3, <2>4 DEF BlockBody
<1>6. QED
  BY <1>4, <1>5

(* Then nobody else is mapping, and _available_virt_mem moves past it.        *)
LEMMA BlockMoveOn ==
    ASSUME TypeOK, WantInv, MapInv, BlockBody, NEW p \in Procs, MoveOn(p), "virt" \notin raced'
    PROVE  BlockBody'
<1>1. /\ pc \in [Procs -> Places] /\ blocks \in Seq(Block) /\ virt \in Nat /\ kpage \in Nat
      /\ kindex \in Nat /\ want \in [Procs -> 0..PAGESIZE] /\ PAGESIZE \in Nat
  BY BytesAssumption DEF TypeOK
<1>2. Allocate(p) /\ pc[p] \in {"move", "kmove"} /\ UNCHANGED <<kpage, want, blocks>>
  BY DEF Allocate, MoveOn
<1>3. \A q \in Procs \ {p} : pc'[q] = pc[q] /\ pc[q] \notin {"move", "kmove"}
  BY <1>2, OwnStep DEF OthersStay, MoveOn, Meets
<1>4. virt' = virt + 1
  BY <1>2, RacedGrows DEF MapInv, Moving, MoveOn
<1>5. \A k \in DOMAIN blocks : blocks[k] \in Block /\ blocks[k].page < virt
  BY <1>1 DEF BlockBody
<1>6. \A a, b \in DOMAIN blocks' : a = b \/ Apart(a, b)'
  BY <1>2 DEF BlockBody, Apart
<1>7. CASE pc[p] = "move"
  <2>1. pc'[p] = "out" /\ kindex' = kindex
    BY <1>1, <1>7 DEF MoveOn, Goto, WantInv
  <2>2. NobodyMaps /\ NobodyMaps'
    BY <1>3, <1>7, <2>1 DEF NobodyMaps
  <2>3. kpage <= virt /\ kpage # virt
    BY <2>2 DEF BlockBody
  <2>4. \A q \in Procs : pc'[q] = "carve" /\ Alone(q)' => kindex' + want'[q] <= PAGESIZE
    <3>1. SUFFICES ASSUME NEW q \in Procs, pc'[q] = "carve", Alone(q)'
                   PROVE  kindex' + want'[q] <= PAGESIZE
      OBVIOUS
    <3>2. pc[q] = "carve" /\ Alone(q)
      BY <1>3, <1>7, <2>1, <3>1 DEF Alone
    <3>3. QED
      BY <1>2, <2>1, <3>2 DEF BlockBody
  <2>5. kpage' <= virt' /\ kpage' # virt' /\ \A k \in DOMAIN blocks' : blocks'[k].page < virt'
    BY <1>1, <1>2, <1>4, <1>5, <2>3 DEF Block
  <2>6. \A q \in Procs : pc'[q] # "kmove"
    BY <2>2 DEF NobodyMaps
  <2>7. \A k \in DOMAIN blocks : /\ blocks[k].page <= kpage
                                 /\ blocks[k].page = kpage => blocks[k].from + blocks[k].bytes <= kindex
                                 /\ blocks[k].from + blocks[k].bytes <= PAGESIZE
    BY <2>2 DEF BlockBody
  <2>8. QED
    BY <1>2, <1>6, <2>1, <2>4, <2>5, <2>6, <2>7 DEF BlockBody
<1>8. CASE pc[p] = "kmove"
  <2>1. pc'[p] = "carve" /\ kindex' = 0 /\ kpage = virt
    BY <1>1, <1>8 DEF MoveOn, Goto, WantInv, BlockBody
  <2>2. \A q \in Procs : pc'[q] # "kmove"
    BY <1>3, <2>1
  <2>3. \A q \in Procs : pc'[q] = "carve" /\ Alone(q)' => kindex' + want'[q] <= PAGESIZE
    <3>1. SUFFICES ASSUME NEW q \in Procs, pc'[q] = "carve", Alone(q)'
                   PROVE  kindex' + want'[q] <= PAGESIZE
      OBVIOUS
    <3>2. q = p
      BY <2>1, <3>1 DEF Alone
    <3>3. QED
      BY <1>1, <1>2, <2>1, <3>2
  <2>4. kpage' <= virt' /\ kpage' # virt' /\ \A k \in DOMAIN blocks' : blocks'[k].page < virt'
    BY <1>1, <1>2, <1>4, <1>5, <2>1 DEF Block
  <2>5. \A k \in DOMAIN blocks : blocks[k].page <= kpage /\ blocks[k].page # kpage
    BY <1>1, <1>5, <2>1 DEF Block
  <2>6. \A k \in DOMAIN blocks : blocks[k].from + blocks[k].bytes <= PAGESIZE
    BY DEF BlockBody
  <2>7. QED
    BY <1>2, <1>6, <2>2, <2>3, <2>4, <2>5, <2>6 DEF BlockBody
<1>9. QED
  BY <1>2, <1>7, <1>8

(* Every step of a process. *)
LEMMA BlockStep ==
    ASSUME TypeOK, WantInv, MapInv, BlockInv, NEW p \in Procs, Allocate(p)
    PROVE  BlockInv'
<1>1. SUFFICES ASSUME raced' \cap {"block", "virt"} = {} PROVE BlockBody'
  BY DEF BlockInv, BlockBody
<1>2. BlockBody
  BY <1>1, RacedGrows DEF BlockInv, BlockBody
<1>3. OthersStay(p) /\ pc \in [Procs -> Places] /\ want \in [Procs -> 0..PAGESIZE]
  BY OwnStep DEF TypeOK
<1>4. CASE GetPage(p)
  <2>1. UNCHANGED <<kpage, virt, kindex, blocks>> /\ pc[p] = "out" /\ pc'[p] = "index"
        /\ \A q \in Procs \ {p} : want'[q] = want[q]
    BY <1>3, <1>4 DEF GetPage, Goto, kVars, logVars
  <2>2. QED
    BY <1>2, <1>3, <2>1, BlockElsewhere
<1>5. ASSUME NEW n \in Requests, kmalloc(p, n) PROVE BlockBody'
  <2>1. UNCHANGED <<kpage, virt, kindex, blocks>> /\ pc[p] = "out"
        /\ (pc'[p] = "index" \/ (pc'[p] = "carve" /\ Fits(n))) /\ want'[p] = n
        /\ \A q \in Procs \ {p} : want'[q] = want[q]
    BY <1>3, <1>5 DEF kmalloc, Goto, kVars, logVars
  <2>2. pc'[p] = "carve" => kindex + want'[p] <= PAGESIZE
    BY <2>1, RequestAssumption, BytesAssumption DEF Fits, TypeOK
  <2>3. QED
    BY <1>2, <1>3, <2>1, <2>2, BlockElsewhere
<1>6. CASE ReadIndex(p) \/ ReadHead(p) \/ Unlink(p) \/ ReadTail(p) \/ Link(p)
  <2>1. UNCHANGED <<kpage, virt, kindex, blocks, want>>
    BY <1>6 DEF ReadIndex, ReadHead, Unlink, ReadTail, Link, kVars, logVars
  <2>2. pc[p] \in {"index", "head", "unlink", "use", "link"}
        /\ pc'[p] \in {"head", "unlink", "use", "link", "map"}
    BY <1>3, <1>6 DEF ReadIndex, ReadHead, Unlink, ReadTail, Link, Goto
  <2>3. QED
    BY <1>2, <1>3, <2>1, <2>2, BlockElsewhere
<1>7. QED
  BY <1>1, <1>2, <1>4, <1>5, <1>6, BlockMap, BlockMoveOn, BlockCarve DEF Allocate
-----------------------------------------------------------------------------
(* The invariant, step by step. *)
LEMMA InvInit == Init => IInv
<1> SUFFICES ASSUME Init PROVE IInv
  OBVIOUS
<1>1. TypeOK /\ BootInv
  BY TypeInit, BootInit
<1>2. Untouched /\ DoneInv
  BY <1>1 DEF Init, BootInv, DoneInv
<1>3. QED
  BY <1>1, <1>2, AtRest DEF IInv

(* The steps of boot. *)
LEMMA InvBoot == ASSUME IInv, Booting PROVE IInv'
<1>1. BootInv'
  BY BootSkipRegion, BootMakePage, BootFilterHead, BootFilterRest DEF IInv, Booting
<1>2. TypeOK'
  BY TypeBoot DEF IInv, BootInv
<1>3. DoneInv' /\ calls' = 0
  <2>1. calls' = calls /\ boot # "done"
    BY DEF Booting, SkipRegion, MakePage, FilterHead, FilterRest
  <2>2. QED
    BY <1>1, <2>1 DEF IInv, BootInv, DoneInv
<1>4. Untouched'
  BY <1>3 DEF DoneInv
<1>5. (WantInv /\ AllocInv /\ UsedInv /\ MapInv /\ BlockInv)'
  BY <1>2, <1>3, <1>4, AtRest, PTL
<1>6. QED
  BY <1>1, <1>2, <1>5 DEF IInv

(* A call of one process. *)
LEMMA InvAllocate == ASSUME IInv, NEW p \in Procs, Allocate(p) PROVE IInv'
<1>1. TypeOK'
  BY TypeAllocate DEF IInv
<1>2. boot = "done" /\ boot' = "done" /\ calls' > 0 /\ ~Untouched'
  BY Begun DEF IInv, BootInv
<1>3. BootInv'
  <2>1. calls' # 0
    BY <1>1, <1>2 DEF TypeOK
  <2>2. QED
    BY <1>2, <2>1 DEF BootInv, MakeInv, HeadInv, RestInv, DoneInv
<1>4. AllocInv' /\ UsedInv'
  BY <1>2, AllocStep, UsedStep DEF IInv
<1>5. WantInv' /\ MapInv' /\ BlockInv'
  BY WantStep, MapStep, BlockStep DEF IInv
<1>6. QED
  BY <1>1, <1>3, <1>4, <1>5 DEF IInv

(* A step that changes nothing. *)
LEMMA InvUnchanged == ASSUME IInv, UNCHANGED vars PROVE IInv'
<1> USE DEF vars, bootVars, listVars, kVars, procVars, logVars
<1>1. TypeOK' /\ WantInv'
  BY DEF IInv, TypeOK, WantInv
<1>2. Usable' = Usable /\ Gone' = Gone
  BY DEF Usable, Gone
<1>3. \A x, y : Follows(x, y)' <=> Follows(x, y)
  BY <1>2 DEF Follows
<1>4. \A x, y : Ahead(x, y)' <=> Ahead(x, y)
  BY <1>2 DEF Ahead, Straight
<1>5. Untouched' <=> Untouched
  BY DEF Untouched
<1>6. BootInv'
  <2>1. MakeInv' /\ HeadInv'
    BY DEF IInv, BootInv, MakeInv, HeadInv, Added, Straight
  <2>2. First' <=> First
    BY <1>2 DEF First
  <2>3. RestInv'
    BY <1>2, <1>3, <1>4, <2>2 DEF IInv, BootInv, RestInv
  <2>4. DoneInv'
    BY <1>2, <1>3, <1>5, <2>2 DEF IInv, BootInv, DoneInv
  <2>5. QED
    BY <2>1, <2>3, <2>4 DEF BootInv
<1>7. Elements(granted)' = Elements(granted) /\ UsedTail' = UsedTail
  BY DEF Elements, UsedTail
<1>8. AllocInv'
  <2>1. FreeInv' <=> FreeInv
    BY <1>2, <1>3, <1>7 DEF FreeInv
  <2>2. \A p \in Procs : IndexInv(p)' <=> IndexInv(p)
    BY <1>2 DEF IndexInv
  <2>3. TailInv' <=> TailInv
    BY <1>2 DEF TailInv
  <2>4. QED
    BY <2>1, <2>2, <2>3 DEF IInv, AllocInv, Clean
<1>9. UsedInv'
  <2>1. \A s \in Seq(Pages) : Queued(s)' <=> Queued(s)
    BY <1>7 DEF Queued, Linked
  <2>2. QED
    BY <1>7, <2>1 DEF IInv, UsedInv, Orderly
<1>10. MapInv'
  BY DEF IInv, MapInv, Distinct
<1>11. BlockInv'
  <2>1. \A a, b : Apart(a, b)' <=> Apart(a, b)
    BY DEF Apart
  <2>2. NobodyMaps' <=> NobodyMaps
    BY DEF NobodyMaps
  <2>3. \A p \in Procs : Alone(p)' <=> Alone(p)
    BY DEF Alone
  <2>4. QED
    BY <2>1, <2>2, <2>3 DEF IInv, BlockInv
<1>12. QED
  BY <1>1, <1>6, <1>8, <1>9, <1>10, <1>11 DEF IInv

(* All parts of the invariant hold in every reachable state. *)
LEMMA Invariance == Spec => []IInv
<1>1. ASSUME IInv, [Next]_vars PROVE IInv'
  <2>1. CASE Booting
    BY <1>1, <2>1, InvBoot
  <2>2. ASSUME NEW p \in Procs, Allocate(p) PROVE IInv'
    BY <1>1, <2>2, InvAllocate
  <2>3. CASE Rest \/ UNCHANGED vars
    BY <1>1, <2>3, InvUnchanged DEF Rest
  <2>4. QED
    BY <1>1, <2>1, <2>2, <2>3 DEF Next, Booting, Allocate
<1>2. QED
  BY InvInit, <1>1, PTL DEF Spec
-----------------------------------------------------------------------------
(* Walking a list.  The lists are finite; induction along them is taken from  *)
(* a least counterexample.                                                   *)
LEMMA Least ==
    ASSUME NEW S \in SUBSET Nat, S # {}
    PROVE  \E m \in S : \A k \in S : m <= k
<1>1. PICK m \in S : \A y \in S : ~(<<y, m>> \in OpToRel(<, Nat))
  BY NatLessThanWellFounded, WFMin
<1>2. \A y \in S : ~(y < m)
  BY <1>1 DEF OpToRel
<1>3. QED
  BY <1>2

(* A bounded set of numbers that is not empty has a greatest one. *)
LEMMA Greatest ==
    ASSUME NEW n \in Nat, NEW S \in SUBSET (0..n), S # {}
    PROVE  \E m \in S : \A k \in S : k <= m
<1>1. PICK T : T = {n - k : k \in S}
  OBVIOUS
<1>2. T \in SUBSET Nat /\ T # {}
  <2>1. \A k \in S : n - k \in Nat
    OBVIOUS
  <2>2. QED
    BY <1>1, <2>1
<1>3. PICK t \in T : \A u \in T : t <= u
  BY <1>2, Least
<1>4. PICK m \in S : t = n - m
  BY <1>1
<1>5. \A k \in S : k <= m
  BY <1>1, <1>3, <1>4
<1>6. QED
  BY <1>5

(* The walk from a page: what the recursive function in Chain computes.       *)
FreeWalk(head, n, g) ==
    g = [k \in 0..n |-> IF k = 0 THEN head ELSE IF g[k - 1] = 0 THEN 0 ELSE next[g[k - 1]]]

(* What the links of a walk are. *)
LEMMA WalkFacts ==
    ASSUME NEW head, NEW n \in Nat, NEW g, FreeWalk(head, n, g)
    PROVE  /\ DOMAIN g = 0..n /\ g[0] = head
           /\ \A k \in 1..n : g[k] = IF g[k - 1] = 0 THEN 0 ELSE next[g[k - 1]]
BY DEF FreeWalk

(* There is a walk of every length from every head. *)
LEMMA WalkExists ==
    ASSUME NEW head, NEW n \in Nat
    PROVE  \E g : FreeWalk(head, n, g)
<1>1. PICK Bad : Bad = {k \in Nat : ~\E g : FreeWalk(head, k, g)}
  OBVIOUS
<1>2. SUFFICES ASSUME Bad # {} PROVE FALSE
  BY <1>1
<1>3. PICK m \in Bad : \A k \in Bad : m <= k
  BY <1>1, <1>2, Least
<1>4. m \in Nat /\ ~\E g : FreeWalk(head, m, g)
  BY <1>1, <1>3
<1>5. CASE m = 0
  <2>1. PICK g : g = [k \in 0..0 |-> head]
    OBVIOUS
  <2>2. FreeWalk(head, 0, g)
    BY <2>1 DEF FreeWalk
  <2>3. QED
    BY <1>4, <1>5, <2>2
<1>6. CASE m # 0
  <2>1. m - 1 \in Nat /\ m - 1 \notin Bad
    BY <1>3, <1>4, <1>6
  <2>2. PICK h : FreeWalk(head, m - 1, h)
    BY <1>1, <2>1
  <2>3. /\ h[0] = head
        /\ \A k \in 1..(m - 1) : h[k] = IF h[k - 1] = 0 THEN 0 ELSE next[h[k - 1]]
    BY <2>1, <2>2, WalkFacts
  <2>4. PICK g : g = [k \in 0..m |-> IF k < m THEN h[k] ELSE IF h[m - 1] = 0 THEN 0 ELSE next[h[m - 1]]]
    OBVIOUS
  <2>5. \A k \in 0..m : g[k] = IF k = 0 THEN head ELSE IF g[k - 1] = 0 THEN 0 ELSE next[g[k - 1]]
    <3>1. SUFFICES ASSUME NEW k \in 0..m
          PROVE g[k] = IF k = 0 THEN head ELSE IF g[k - 1] = 0 THEN 0 ELSE next[g[k - 1]]
      OBVIOUS
    <3>2. CASE k = 0
      BY <1>4, <1>6, <2>3, <2>4, <3>2
    <3>3. CASE k # 0
      <4>1. k - 1 \in 0..m /\ k - 1 < m /\ k \in 1..m
        BY <1>4, <3>1, <3>3
      <4>2. g[k - 1] = h[k - 1]
        BY <2>4, <4>1
      <4>3. CASE k = m
        BY <1>4, <2>4, <3>3, <4>2, <4>3
      <4>4. CASE k # m
        BY <1>4, <2>3, <2>4, <3>3, <4>1, <4>2, <4>4
      <4>5. QED
        BY <4>3, <4>4
    <3>4. QED
      BY <3>2, <3>3
  <2>6. FreeWalk(head, m, g)
    BY <2>4, <2>5 DEF FreeWalk
  <2>7. QED
    BY <1>4, <2>6
<1>7. QED
  BY <1>5, <1>6

(* And only one. *)
LEMMA WalkUnique ==
    ASSUME NEW head, NEW n \in Nat, NEW f, NEW g, FreeWalk(head, n, f), FreeWalk(head, n, g)
    PROVE  \A k \in 0..n : f[k] = g[k]
<1>1. /\ f[0] = head
      /\ g[0] = head
      /\ \A k \in 1..n : f[k] = IF f[k - 1] = 0 THEN 0 ELSE next[f[k - 1]]
      /\ \A k \in 1..n : g[k] = IF g[k - 1] = 0 THEN 0 ELSE next[g[k - 1]]
  BY WalkFacts
<1>2. PICK Bad : Bad = {k \in 0..n : f[k] # g[k]}
  OBVIOUS
<1>3. SUFFICES ASSUME Bad # {} PROVE FALSE
  BY <1>2
<1>4. PICK m \in Bad : \A k \in Bad : m <= k
  <2>1. Bad \in SUBSET Nat
    BY <1>2
  <2>2. QED
    BY <1>3, <2>1, Least
<1>5. m \in 1..n
  BY <1>1, <1>2, <1>4
<1>6. m - 1 \in 0..n /\ m - 1 \notin Bad
  BY <1>4, <1>5
<1>7. f[m - 1] = g[m - 1]
  BY <1>2, <1>6
<1>8. f[m] = g[m]
  BY <1>1, <1>5, <1>7
<1>9. QED
  BY <1>2, <1>4, <1>8

(* The pages on a list are the places of the walk that has gone through all. *)
LEMMA ChainIs ==
    ASSUME NEW head, NEW g, FreeWalk(head, NPages, g)
    PROVE  Chain(head) = {g[k] : k \in 0..NPages} \ {0}
<1> DEFINE at == CHOOSE a : a = [k \in 0..NPages |-> IF k = 0 THEN head
                                    ELSE IF a[k - 1] = 0 THEN 0 ELSE next[a[k - 1]]]
<1>1. NPages \in Nat
  BY PagesAssumption
<1>2. FreeWalk(head, NPages, at)
  BY DEF FreeWalk
<1>3. Chain(head) = {at[k] : k \in 0..NPages} \ {0}
  BY DEF Chain
<1> HIDE DEF at
<1>4. \A k \in 0..NPages : at[k] = g[k]
  BY <1>1, <1>2, WalkUnique
<1>5. {at[k] : k \in 0..NPages} = {g[k] : k \in 0..NPages}
  BY <1>4
<1>6. QED
  BY ONLY <1>3, <1>5, Zenon

(* A list that runs upwards through S from its least page holds S. *)
LEMMA UpwardChain ==
    ASSUME NEW S \in SUBSET Pages, NEW head,
           IF head = 0 THEN S = {} ELSE head \in S /\ \A z \in S : head <= z,
           \A x \in S : IF next[x] = 0 THEN \A z \in S : z <= x
                        ELSE next[x] \in S /\ x < next[x] /\ \A z \in S : z <= x \/ next[x] <= z
    PROVE  Chain(head) = S
<1>0. NPages \in Nat
  BY PagesAssumption
<1>1. NPages \in Nat /\ \A z \in S : z \in Nat /\ z > 0 /\ z <= NPages
  BY PagesAssumption DEF Pages
<1>a. head # 0 => head \in Nat /\ head > 0
  BY <1>1
<1>2. PICK g : FreeWalk(head, NPages, g)
  BY <1>0, WalkExists
<1>3. /\ g[0] = head
      /\ \A k \in 1..NPages : g[k] = IF g[k - 1] = 0 THEN 0 ELSE next[g[k - 1]]
  BY ONLY <1>0, <1>2, WalkFacts
<1>4. Chain(head) = {g[k] : k \in 0..NPages} \ {0}
  BY <1>2, ChainIs
<1>5. \A k \in 0..NPages : g[k] = 0 \/ (g[k] \in S /\ g[k] > k)
  <2>1. PICK Bad : Bad = {k \in 0..NPages : ~(g[k] = 0 \/ (g[k] \in S /\ g[k] > k))}
    OBVIOUS
  <2>2. SUFFICES ASSUME Bad # {} PROVE FALSE
    BY <2>1
  <2>3. PICK m \in Bad : \A k \in Bad : m <= k
    <3>1. Bad \in SUBSET Nat
      BY <2>1
    <3>2. QED
      BY <2>2, <3>1, Least
  <2>4. m \in 1..NPages
    <3>1. m \in 0..NPages /\ ~(g[m] = 0 \/ (g[m] \in S /\ g[m] > m))
      BY <2>1, <2>3
    <3>2. CASE m = 0
      <4>1. g[m] = head /\ head # 0 /\ head \in S
        BY <1>3, <3>1, <3>2
      <4>2. head > 0
        BY <1>a, <4>1
      <4>3. QED
        BY <3>1, <3>2, <4>1, <4>2
    <3>3. QED
      BY <1>1, <3>1, <3>2
  <2>5. m - 1 \in 0..NPages /\ m - 1 \notin Bad
    BY <1>1, <2>3, <2>4
  <2>6. PICK x : x = g[m - 1]
    OBVIOUS
  <2>7. x = 0 \/ (x \in S /\ x > m - 1)
    BY <2>1, <2>5, <2>6
  <2>8. g[m] = IF x = 0 THEN 0 ELSE next[x]
    BY <1>3, <2>4, <2>6
  <2>9. g[m] = 0 \/ (x \in S /\ x > m - 1 /\ g[m] = next[x] /\ next[x] \in S /\ x < next[x])
    BY <2>7, <2>8
  <2>10. g[m] = 0 \/ (g[m] \in S /\ g[m] > m)
    <3>1. SUFFICES ASSUME x \in S, x > m - 1, g[m] = next[x], next[x] \in S, x < next[x]
                   PROVE  g[m] > m
      BY <2>9
    <3>2. x \in Nat /\ next[x] \in Nat /\ m \in Nat
      BY <1>1, <2>4, <3>1
    <3>3. QED
      BY <3>1, <3>2
  <2>11. QED
    BY <2>1, <2>3, <2>10
<1>6. ASSUME NEW x \in S PROVE \E k \in 0..NPages : g[k] = x
  <2>1. SUFFICES ASSUME \A k \in 0..NPages : g[k] # x PROVE FALSE
    OBVIOUS
  <2>2. PICK K : K = {k \in 0..NPages : g[k] # 0 /\ g[k] < x}
    OBVIOUS
  <2>3. 0 \in K
    <3>1. 0 \in 0..NPages /\ g[0] = head /\ head # x /\ x \in Nat /\ x > 0
      BY <1>1, <1>3, <1>6, <2>1
    <3>2. head # 0 /\ head <= x /\ head \in Nat
      BY <1>a, <1>6, <3>1
    <3>3. QED
      BY <2>2, <3>1, <3>2
  <2>4. PICK m \in K : \A k \in K : k <= m
    BY <1>1, <2>2, <2>3, Greatest
  <2>5. m \in 0..NPages /\ g[m] \in S /\ g[m] < x /\ g[m] > m
    BY <1>5, <2>2, <2>4
  <2>6. m + 1 \in 1..NPages /\ m + 1 \notin K
    <3>1. g[m] \in Nat /\ g[m] <= NPages
      BY <1>1, <2>5
    <3>2. m + 1 \in 1..NPages
      BY <1>1, <2>5, <3>1
    <3>3. ~(m + 1 <= m)
      BY <2>5
    <3>4. QED
      BY <2>4, <3>2, <3>3
  <2>7. PICK y : y = g[m]
    OBVIOUS
  <2>8. y \in S /\ y # 0 /\ y < x /\ g[m + 1] = next[y] /\ g[m + 1] # x
    BY <1>1, <1>3, <2>1, <2>5, <2>6, <2>7
  <2>b. x \in Nat /\ y \in Nat
    BY <1>1, <1>6, <2>8
  <2>9. next[y] = 0 \/ ~(next[y] < x)
    BY <2>2, <2>6, <2>8
  <2>10. CASE next[y] = 0
    <3>1. x <= y
      BY <1>6, <2>8, <2>10
    <3>2. QED
      BY <2>8, <2>b, <3>1
  <2>11. CASE next[y] # 0
    <3>1. next[y] \in S /\ (x <= y \/ next[y] <= x)
      BY <1>6, <2>8, <2>11
    <3>2. QED
      <4>1. next[y] \in Nat /\ next[y] # x
        BY <1>1, <2>8, <3>1
      <4>2. QED
        BY <2>8, <2>9, <2>11, <2>b, <3>1, <4>1
  <2>12. QED
    BY <2>10, <2>11
<1>7. ASSUME NEW x PROVE x \in {g[k] : k \in 0..NPages} \ {0} <=> x \in S
  <2>1. x \in S => x # 0
    BY <1>1
  <2>2. QED
    BY <1>5, <1>6, <2>1
<1>8. QED
  BY <1>4, <1>7

(* A list that runs through a sequence of different pages holds those.        *)
LEMMA SequenceChain ==
    ASSUME NEW s \in Seq(Pages), Linked(s), Distinct(s)
    PROVE  Chain(used_head) = Elements(s)
<1>1. NPages \in Nat
  BY PagesAssumption
<1>2. PICK n \in Nat : n = Len(s)
  OBVIOUS
<1>3. DOMAIN s = 1..n /\ (n # 0 => s # <<>>) /\ (n = 0 => s = <<>>)
      /\ \A j \in 1..n : s[j] \in 1..NPages /\ s[j] # 0
  <2>1. DOMAIN s = 1..n /\ (n # 0 => s # <<>>) /\ \A j \in 1..n : s[j] \in 1..NPages /\ s[j] # 0
    BY <1>1, <1>2 DEF Pages
  <2>2. ASSUME n = 0 PROVE s = <<>>
    <3>1. Len(s) = 0
      BY <1>2, <2>2
    <3>2. QED
      BY ONLY <3>1, s \in Seq(Pages)
  <2>3. QED
    BY <2>1, <2>2
<1>4. n <= NPages
  <2>1. IsFiniteSet(1..n) /\ IsFiniteSet(1..NPages) /\ Cardinality(1..n) = n
        /\ Cardinality(1..NPages) = NPages
    <3>1. 1 \in Int /\ n \in Int /\ NPages \in Int
      BY <1>1
    <3>2. /\ IsFiniteSet(1..n)
          /\ Cardinality(1..n) = IF 1 > n THEN 0 ELSE n - 1 + 1
      BY <3>1, FS_Interval
    <3>3. /\ IsFiniteSet(1..NPages)
          /\ Cardinality(1..NPages) = IF 1 > NPages THEN 0 ELSE NPages - 1 + 1
      BY <3>1, FS_Interval
    <3>4. QED
      BY <1>1, <3>2, <3>3
  <2>2. PICK f : f = [j \in 1..n |-> s[j]]
    OBVIOUS
  <2>3. f \in Injection(1..n, 1..NPages)
    BY <1>3, <2>2 DEF Distinct, Injection, IsInjective
  <2>4. Cardinality(1..n) <= Cardinality(1..NPages)
    BY <2>1, <2>3, FS_Injection DEF ExistsInjection
  <2>5. QED
    BY <2>1, <2>4
<1>5. PICK g : g = [k \in 0..NPages |-> IF k < n THEN s[k + 1] ELSE 0]
  OBVIOUS
<1>6. /\ used_head = IF n = 0 THEN 0 ELSE s[1]
      /\ \A j \in 1..n : next[s[j]] = IF j = n THEN 0 ELSE s[j + 1]
  BY <1>2, <1>3 DEF Linked
<1>7. \A k \in 0..NPages : g[k] = IF k = 0 THEN used_head ELSE IF g[k - 1] = 0 THEN 0 ELSE next[g[k - 1]]
  <2>1. SUFFICES ASSUME NEW k \in 0..NPages
        PROVE  g[k] = IF k = 0 THEN used_head ELSE IF g[k - 1] = 0 THEN 0 ELSE next[g[k - 1]]
    OBVIOUS
  <2>2. CASE k = 0
    BY <1>1, <1>5, <1>6, <2>2
  <2>3. CASE k # 0 /\ k <= n
    <3>1. k \in 1..n /\ k - 1 \in 0..NPages /\ k - 1 < n
      BY <1>1, <2>1, <2>3
    <3>2. g[k - 1] = s[k] /\ s[k] # 0
      BY <1>3, <1>5, <3>1
    <3>3. g[k] = IF k = n THEN 0 ELSE s[k + 1]
      BY <1>5, <2>1, <3>1
    <3>4. QED
      BY <1>6, <2>3, <3>1, <3>2, <3>3
  <2>4. CASE k # 0 /\ k > n
    <3>1. k - 1 \in 0..NPages /\ ~(k - 1 < n) /\ ~(k < n)
      BY <1>1, <2>1, <2>4
    <3>2. QED
      BY <1>5, <2>1, <2>4, <3>1
  <2>5. QED
    BY <1>1, <2>2, <2>3, <2>4
<1>8. FreeWalk(used_head, NPages, g)
  BY <1>5, <1>7 DEF FreeWalk
<1>9. Chain(used_head) = {g[k] : k \in 0..NPages} \ {0}
  BY <1>8, ChainIs
<1>10. ASSUME NEW x PROVE x \in {g[k] : k \in 0..NPages} \ {0} <=> \E j \in 1..n : s[j] = x
  <2>1. ASSUME NEW k \in 0..NPages, g[k] # 0 PROVE \E j \in 1..n : s[j] = g[k]
    <3>1. k < n /\ g[k] = s[k + 1] /\ k + 1 \in 1..n
      BY <1>1, <1>5, <2>1
    <3>2. QED
      BY <3>1
  <2>2. ASSUME NEW j \in 1..n PROVE \E k \in 0..NPages : g[k] = s[j] /\ g[k] # 0
    <3>1. j - 1 \in 0..NPages /\ j - 1 < n /\ (j - 1) + 1 = j
      BY <1>1, <1>4, <2>2
    <3>2. g[j - 1] = s[j]
      BY <1>5, <3>1
    <3>3. QED
      BY <1>3, <2>2, <3>1, <3>2
  <2>3. ASSUME x \in {g[k] : k \in 0..NPages} \ {0} PROVE \E j \in 1..n : s[j] = x
    <3>1. PICK k \in 0..NPages : g[k] = x /\ g[k] # 0
      BY <2>3
    <3>2. QED
      BY <2>1, <3>1
  <2>4. ASSUME NEW j \in 1..n, s[j] = x PROVE x \in {g[k] : k \in 0..NPages} \ {0}
    <3>1. PICK k \in 0..NPages : g[k] = s[j] /\ g[k] # 0
      BY <2>2
    <3>2. QED
      BY <2>4, <3>1
  <2>5. QED
    BY <2>3, <2>4
<1>11. QED
  BY <1>3, <1>9, <1>10 DEF Elements
-----------------------------------------------------------------------------
(* What is left of the free list is chained from its head. *)
LEMMA FreeChain ==
    ASSUME TypeOK, FreeInv
    PROVE  Chain(free_head) = Usable \ Gone /\ Gone \subseteq Usable
<1>1. NPages \in Nat /\ Usable \subseteq 1..NPages /\ free_head \in 0..NPages
  <2>1. linked \in 0..NPages /\ NPages \in Nat /\ free_head \in 0..NPages
    BY PagesAssumption DEF TypeOK, Links
  <2>2. QED
    BY <2>1 DEF Usable
<1>2. PICK S : S = Usable \ Gone
  OBVIOUS
<1>3. \A x \in Usable : x \in S <=> free_head # 0 /\ ~(x < free_head)
  BY <1>2 DEF Gone
<1>4. free_head \in Usable \cup {0} /\ \A x \in S : Follows(x, next[x])
  BY <1>2 DEF FreeInv
<1>5. S \in SUBSET Pages /\ \A x \in S : x \in Usable /\ x \in Nat /\ x # 0
  <2>1. \A x \in Usable : x \in 1..NPages /\ x \in Nat /\ x # 0
    BY <1>1
  <2>2. QED
    BY <1>2, <2>1 DEF Pages
<1>6. IF free_head = 0 THEN S = {} ELSE free_head \in S /\ \A z \in S : free_head <= z
  <2>1. CASE free_head = 0
    BY <1>3, <1>5, <2>1
  <2>2. CASE free_head # 0
    <3>1. free_head \in S
      BY <1>1, <1>3, <1>4, <2>2
    <3>2. \A z \in S : free_head <= z
      BY <1>1, <1>3, <1>5
    <3>3. QED
      BY <2>2, <3>1, <3>2
  <2>3. QED
    BY <2>1, <2>2
<1>7. ASSUME NEW x \in S
      PROVE  IF next[x] = 0 THEN \A z \in S : z <= x
             ELSE next[x] \in S /\ x < next[x] /\ \A z \in S : z <= x \/ next[x] <= z
  <2>1. Follows(x, next[x])
    BY <1>4
  <2>2. CASE next[x] = 0
    BY <1>5, <2>1, <2>2 DEF Follows
  <2>3. CASE next[x] # 0
    <3>1. next[x] \in Usable /\ x < next[x] /\ \A z \in Usable : z <= x \/ next[x] <= z
      BY <2>1, <2>3 DEF Follows
    <3>2. free_head # 0 /\ ~(x < free_head) /\ x \in Nat /\ next[x] \in Nat
      <4>1. free_head # 0 /\ ~(x < free_head) /\ x \in Nat
        BY <1>3, <1>5
      <4>2. next[x] \in 1..NPages
        BY <1>1, <3>1
      <4>3. QED
        BY <1>1, <4>1, <4>2
    <3>3. next[x] \in S
      BY <1>1, <1>3, <3>1, <3>2
    <3>4. QED
      BY <1>5, <2>3, <3>1, <3>3
  <2>4. QED
    BY <2>2, <2>3
<1>8. Chain(free_head) = S
  BY <1>5, <1>6, <1>7, UpwardChain
<1>9. QED
  BY <1>2, <1>8 DEF Gone

(* FilteredExactly: until the first allocation nothing is gone. *)
LEMMA Filtered == IInv => FilteredExactly
<1> SUFFICES ASSUME IInv, boot = "done", calls = 0 PROVE Chain(free_head) = Usable
  BY DEF FilteredExactly
<1>1. Untouched
  BY DEF IInv, BootInv, DoneInv
<1>2. FreeInv
  BY <1>1 DEF IInv, AllocInv, Clean, Untouched
<1>3. Gone = {}
  <2>1. Elements(granted) = {}
    BY <1>1 DEF Untouched, Elements
  <2>2. QED
    BY <1>2, <2>1 DEF FreeInv
<1>4. QED
  BY <1>2, <1>3, FreeChain DEF IInv

(* PagesGrantedOnce: the pages handed out are those below the head. *)
LEMMA GrantedOnce == IInv => PagesGrantedOnce
<1> SUFFICES ASSUME IInv, Clean
    PROVE  /\ Elements(granted) \cap range = {}
           /\ \A a, b \in DOMAIN granted : granted[a] = granted[b] /\ granted[a] # 0 => a = b
           /\ 0 \in Elements(granted) => Elements(granted) \ {0} = Usable
  BY DEF PagesGrantedOnce, Clean
<1>1. CASE boot # "done"
  <2>1. granted = <<>>
    BY <1>1 DEF IInv, BootInv, DoneInv, Untouched
  <2>2. QED
    BY <2>1 DEF Elements
<1>2. CASE boot = "done"
  <2>1. FreeInv
    BY <1>2 DEF IInv, AllocInv
  <2>2. Elements(granted) \ {0} = Gone /\ (0 \in Elements(granted) => free_head = 0)
    BY <2>1 DEF FreeInv
  <2>3. range \subseteq 1..NPages /\ NPages \in Nat
    BY PagesAssumption DEF IInv, TypeOK, Pages
  <2>4. Gone \subseteq Usable /\ Usable \cap range = {} /\ (free_head = 0 => Gone = Usable)
    BY DEF Gone, Usable
  <2>5. QED
    BY <2>1, <2>2, <2>3, <2>4 DEF FreeInv
<1>3. QED
  BY <1>1, <1>2

(* NothingLost: nobody is on the way to queue a page. *)
LEMMA NothingIsLost == IInv => NothingLost
<1> SUFFICES ASSUME IInv, raced \subseteq {"block", "virt"}, boot = "done", 0 \notin Elements(granted),
                    ~\E p \in Procs : Inside(p)
    PROVE  /\ Chain(free_head) \cup Chain(used_head) = Usable
           /\ Chain(free_head) \cap Chain(used_head) = {}
           /\ Chain(used_head) = Elements(granted)
  BY DEF NothingLost
<1>1. Orderly /\ Clean
  BY DEF Orderly, Clean
<1>2. FreeInv
  BY <1>1 DEF IInv, AllocInv
<1>3. Chain(free_head) = Usable \ Gone /\ Gone \subseteq Usable /\ Elements(granted) = Gone
  BY <1>2, FreeChain DEF IInv, FreeInv
<1>4. PICK s \in Seq(Pages) : Queued(s)
  BY <1>1 DEF IInv, UsedInv
<1>5. \A p \in Procs : pc[p] \notin Filing
  BY DEF Inside, Filing
<1>6. Elements(granted) = Elements(s)
  BY <1>4, <1>5 DEF Queued
<1>7. Chain(used_head) = Elements(s)
  BY <1>4, SequenceChain DEF Queued
<1>8. QED
  BY <1>3, <1>6, <1>7

(* BlocksApart is part of the invariant. *)
LEMMA Apartness == IInv => BlocksApart
<1> SUFFICES ASSUME IInv PROVE BlocksApart
  OBVIOUS
<1>1. "virt" \notin raced => Distinct(mapped)
  BY DEF IInv, MapInv
<1>2. ASSUME raced \cap {"block", "virt"} = {}, NEW a \in DOMAIN blocks
      PROVE  /\ blocks[a].from + blocks[a].bytes <= PAGESIZE
             /\ \A b \in DOMAIN blocks :
                   \/ a = b
                   \/ blocks[a].page # blocks[b].page
                   \/ blocks[a].from + blocks[a].bytes <= blocks[b].from
                   \/ blocks[b].from + blocks[b].bytes <= blocks[a].from
  BY <1>2 DEF IInv, BlockInv, Apart
<1>3. QED
  BY <1>1, <1>2 DEF BlocksApart
-----------------------------------------------------------------------------
(* Every variable has its type: in particular no index leaves _page_list.     *)
THEOREM TypeCorrect == Spec => []TypeOK
<1>1. IInv => TypeOK
  BY DEF IInv
<1>2. QED
  BY Invariance, <1>1, PTL

(* When filter_out_pages is done the free list holds exactly the usable pages *)
(* (make_pages, filter_out_pages).                                           *)
THEOREM FilterIsExact == Spec => []FilteredExactly
BY Invariance, Filtered, PTL

(* get_free_page hands out no page twice, none of the kernel's, and page 0    *)
(* only when it has nothing else, unless processes met in the two windows.    *)
THEOREM NoPageTwice == Spec => []PagesGrantedOnce
BY Invariance, GrantedOnce, PTL

(* Between allocations every page is on the free or on the used list: queue_page *)
(* and dequeue_page lose none.                                               *)
THEOREM EveryPageListed == Spec => []NothingLost
BY Invariance, NothingIsLost, PTL

(* The blocks of kmalloc are disjoint and within their page, and no virtual   *)
(* page is mapped twice.                                                     *)
THEOREM KmallocSound == Spec => []BlocksApart
BY Invariance, Apartness, PTL
-----------------------------------------------------------------------------
(* Page tables.  Paths: what an index more does to one. *)
LEMMA AppendFacts ==
    ASSUME NEW t \in Seq(Idx), NEW i \in Idx
    PROVE  /\ Append(t, i) \in Seq(Idx)
           /\ Len(t) \in Nat /\ Len(Append(t, i)) = Len(t) + 1
           /\ Append(t, i)[Len(t) + 1] = i
           /\ \A n \in 1..Len(t) : Append(t, i)[n] = t[n]
           /\ Append(t, i) # <<>>
BY AppendProperties, LenProperties

(* Two paths are the same if all indices are. *)
LEMMA SamePath ==
    ASSUME NEW t \in Seq(Idx), NEW u \in Seq(Idx),
           Len(t) = Len(u), \A n \in 1..Len(t) : t[n] = u[n]
    PROVE  t = u
BY SeqEqual

(* The last index and what is before it are those of the path. *)
LEMMA AppendSame ==
    ASSUME NEW t \in Seq(Idx), NEW u \in Seq(Idx), NEW i \in Idx, NEW j \in Idx,
           Append(t, i) = Append(u, j)
    PROVE  t = u /\ i = j
<1>1. /\ Len(t) = Len(u) /\ i = j
  BY AppendFacts
<1>2. \A n \in 1..Len(t) : t[n] = u[n]
  BY <1>1, AppendFacts
<1>3. QED
  BY <1>1, <1>2, SamePath

(* What leads to a path with an index more leads to the path, or is it all. *)
LEMMA UnderAppend ==
    ASSUME NEW u \in Seq(Idx), NEW t \in Seq(Idx), NEW i \in Idx, Under(u, Append(t, i))
    PROVE  u = Append(t, i) \/ Under(u, t)
<1>1. /\ Len(u) \in Nat /\ Len(u) <= Len(t) + 1
      /\ \A n \in 1..Len(u) : Append(t, i)[n] = u[n]
  BY AppendFacts, LenProperties DEF Under
<1>2. CASE Len(u) = Len(t) + 1
  <2>1. u = Append(t, i)
    BY <1>1, <1>2, AppendFacts, SamePath
  <2>2. QED
    BY <2>1
<1>3. CASE Len(u) # Len(t) + 1
  <2>1. Len(u) <= Len(t) /\ \A n \in 1..Len(u) : t[n] = u[n]
    BY <1>1, <1>3, AppendFacts
  <2>2. QED
    BY <2>1 DEF Under
<1>4. QED
  BY <1>2, <1>3

(* The first n indices of a virtual page. *)
Upto(v, n) == [m \in 1..n |-> v[m]]
VPages == [1..LEVELS -> Idx]

(* The first n indices are a path, and one index more follows them.         *)
LEMMA UptoFacts ==
    ASSUME NEW v \in VPages, NEW n \in 0..LEVELS
    PROVE  /\ Upto(v, n) \in Seq(Idx) /\ Len(Upto(v, n)) = n
           /\ \A m \in 1..n : Upto(v, n)[m] = v[m]
           /\ n = 0 => Upto(v, n) = <<>>
           /\ n = LEVELS => Upto(v, n) = v
           /\ n < LEVELS => Append(Upto(v, n), v[n + 1]) = Upto(v, n + 1)
<1>1. LEVELS \in Nat
  BY TableAssumption
<1>2. ASSUME NEW k \in 0..LEVELS
      PROVE  Upto(v, k) \in Seq(Idx) /\ Len(Upto(v, k)) = k /\ \A m \in 1..k : Upto(v, k)[m] = v[m]
  <2>1. Upto(v, k) \in [1..k -> Idx] /\ k \in Nat
    BY <1>1, <1>2 DEF Upto, VPages
  <2>2. QED
    BY <2>1, <1>2 DEF Upto
<1>3. n = 0 => Upto(v, n) = <<>>
  BY <1>1, <1>2, SamePath
<1>4. n = LEVELS => Upto(v, n) = v
  BY <1>1 DEF Upto, VPages
<1>5. ASSUME n < LEVELS PROVE Append(Upto(v, n), v[n + 1]) = Upto(v, n + 1)
  <2>1. n + 1 \in 0..LEVELS /\ v[n + 1] \in Idx
    BY <1>1, <1>5 DEF VPages
  <2>2. QED
    BY <1>2, <2>1, AppendFacts, SamePath
<1>6. QED
  BY <1>2, <1>3, <1>4, <1>5
-----------------------------------------------------------------------------
(* Whose table a frame is, and at which path: the top level at the empty one. *)
(* Owner 0 is the kernel, whose tables every top level shares.               *)
Owners == 0..MaxProcs
Owned(o, t) == [of |-> o, path |-> t]
Nobodys == Owned(-1, <<>>)
RoleSet == [Frames -> [of : Int, path : Seq(Idx)]]

Top(o) == IF o = 0 THEN {KERNEL} ELSE User
PagesOf(o) == IF o = 0 THEN VKernel ELSE VUser
PathOf(o, t) == t \in Seq(Idx) /\ Len(t) < LEVELS /\ (t # <<>> => t[1] \in Top(o))
EntryOf(o, t, i) == i \in Idx /\ (t = <<>> => i \in Top(o))

(* What an unused frame holds. *)
Found(f) == [i \in Idx |-> IF f \in dirty THEN JUNK ELSE 0]

(* Entry e leads to o's table at path t, if to any. *)
LeadsTo(e, role, o, t) == e \in {0, JUNK} \/ (e \in Frames /\ role[e] = Owned(o, t))

(* The tables are a forest: every table has one owner and one path, the entry *)
(* of the table above points to it, and all tables above it are there.       *)
RolesOK(role, used) ==
    \A f \in Frames : role[f] # Nobodys =>
        role[f].of \in Owners /\ PathOf(role[f].of, role[f].path) /\ f <= used
OneEach(role) == \A f, g \in Frames : role[f] = role[g] /\ role[f] # Nobodys => f = g
Down(mem, role) ==
    \A f \in Frames, i \in Idx :
        /\ role[f] # Nobodys /\ Len(role[f].path) + 1 < LEVELS
        /\ EntryOf(role[f].of, role[f].path, i)
        => /\ LeadsTo(mem[f][i], role, role[f].of, Append(role[f].path, i))
           /\ role[f].of = 0 => mem[f][i] # JUNK
PointedTo(mem, role) ==
    \A f, g \in Frames, i \in Idx :
        role[f] # Nobodys /\ role[g] = Owned(role[f].of, Append(role[f].path, i)) => mem[f][i] = g
Above(role) ==
    \A g \in Frames, u \in Seq(Idx) :
        role[g] # Nobodys /\ Under(u, role[g].path) =>
            \E f \in Frames : role[f] = Owned(role[g].of, u)
TopLevel(mem, role) ==
    /\ \A f \in Frames : role[f] # Nobodys /\ role[f].path = <<>> =>
          mem[f][SELF] = f /\ mem[f][KERNEL] = mem[1][KERNEL]
    /\ role[1] = Owned(0, <<>>)
    /\ \A i \in User : mem[1][i] = 0
Fresh(mem, used) == \A f \in Frames : f > used => mem[f] = Found(f)

Forest(mem, used, role) ==
    /\ RolesOK(role, used) /\ OneEach(role) /\ Down(mem, role) /\ PointedTo(mem, role)
    /\ Above(role) /\ TopLevel(mem, role) /\ Fresh(mem, used)

(* A page that is mapped is in its table, one that is not is in none, and    *)
(* where a table is missing nothing is mapped.                               *)
Exact(mem, role, M) ==
    \A f \in Frames, i \in Idx :
        role[f] # Nobodys /\ EntryOf(role[f].of, role[f].path, i) =>
            LET o == role[f].of
                t == Append(role[f].path, i)
            IN  IF Len(t) = LEVELS THEN mem[f][i] = M[o][t]
                ELSE /\ mem[f][i] # JUNK
                     /\ mem[f][i] = 0 => \A v \in PagesOf(o) : Under(t, v) => M[o][v] = 0

Rams == [mem : [Frames -> [Idx -> Int]], used : Nat, kvirt : Nat, kmapped : Seq(Int),
         tainted : BOOLEAN]
IsMap(M) == DOMAIN M = Owners /\ \A o \in Owners : M[o] \in [PagesOf(o) -> Nat]

Good(r, role, M) ==
    /\ r \in Rams /\ r.used <= MaxFrames /\ role \in RoleSet /\ IsMap(M)
    /\ Forest(r.mem, r.used, role)
    /\ ~r.tainted => Exact(r.mem, role, M)
-----------------------------------------------------------------------------
(* The five kinds of entries are different. *)
LEMMA Slots ==
    /\ LEVELS \in Nat /\ LEVELS > 1 /\ MaxFrames \in Nat /\ MaxProcs \in Nat
    /\ KERNEL \in Idx /\ SELF \in Idx /\ CROSS \in Idx /\ User \subseteq Idx
    /\ KERNEL \notin User /\ SELF \notin User /\ CROSS \notin User
    /\ KERNEL # SELF /\ KERNEL # CROSS /\ SELF # CROSS
    /\ 0 \in User /\ 1 \in Frames
    /\ \A o : Top(o) \subseteq Idx /\ SELF \notin Top(o) /\ CROSS \notin Top(o)
    /\ \A f \in Frames : f # 0 /\ f # JUNK /\ f \in Nat
BY TableAssumption DEF Idx, User, KERNEL, SELF, CROSS, Top, Frames, JUNK

(* What is known of a frame that is somebody's table. *)
LEMMA RoleFacts ==
    ASSUME NEW role \in RoleSet, NEW used, RolesOK(role, used), NEW f \in Frames, role[f] # Nobodys
    PROVE  /\ role[f] = Owned(role[f].of, role[f].path)
           /\ role[f].of \in Owners /\ role[f].of \in Nat
           /\ role[f].path \in Seq(Idx) /\ Len(role[f].path) \in Nat
           /\ Len(role[f].path) < LEVELS /\ f <= used
           /\ role[f].path # <<>> => role[f].path[1] \in Top(role[f].of)
<1>1. role[f].of \in Owners /\ PathOf(role[f].of, role[f].path) /\ f <= used
  BY DEF RolesOK
<1>2. Owners \subseteq Nat
  BY Slots DEF Owners
<1>3. role[f] \in [of : Int, path : Seq(Idx)]
  BY DEF RoleSet
<1>4. role[f] = Owned(role[f].of, role[f].path)
  BY <1>3 DEF Owned
<1>5. Len(role[f].path) \in Nat
  BY <1>3, LenProperties
<1>6. QED
  BY <1>1, <1>2, <1>3, <1>4, <1>5 DEF PathOf

(* The owner and the path are read off a role. *)
LEMMA OwnedFacts ==
    ASSUME NEW o \in Nat, NEW t
    PROVE  Owned(o, t).of = o /\ Owned(o, t).path = t /\ Owned(o, t) # Nobodys
<1>1. Owned(o, t).of = o /\ Owned(o, t).path = t
  BY DEF Owned
<1>2. Nobodys.of = -1 /\ -1 \notin Nat
  BY DEF Nobodys, Owned
<1>3. QED
  BY <1>1, <1>2
-----------------------------------------------------------------------------
(* What the steps on physical memory do to each part of it. *)
LEMMA ZeroOutFacts ==
    ASSUME NEW r \in Rams, NEW t \in Frames
    PROVE  /\ ZeroOut(r, t) \in Rams
           /\ ZeroOut(r, t).mem = [r.mem EXCEPT ![t] = Zeros]
           /\ ZeroOut(r, t).used = r.used /\ ZeroOut(r, t).kvirt = r.kvirt
           /\ ZeroOut(r, t).kmapped = r.kmapped /\ ZeroOut(r, t).tainted = r.tainted
           /\ \A f \in Frames, i \in Idx :
                 ZeroOut(r, t).mem[f][i] = IF f = t THEN 0 ELSE r.mem[f][i]
<1>1. Zeros \in [Idx -> Int] /\ \A i \in Idx : Zeros[i] = 0
  BY DEF Zeros
<1>2. r.mem \in [Frames -> [Idx -> Int]]
  BY DEF Rams
<1>3. ZeroOut(r, t).mem = [r.mem EXCEPT ![t] = Zeros]
  BY DEF ZeroOut, Rams
<1>4. [r.mem EXCEPT ![t] = Zeros] \in [Frames -> [Idx -> Int]]
  BY <1>1, <1>2
<1>5. \A f \in Frames, i \in Idx :
         [r.mem EXCEPT ![t] = Zeros][f][i] = IF f = t THEN 0 ELSE r.mem[f][i]
  BY <1>1, <1>2
<1>6. ZeroOut(r, t) \in Rams
  BY <1>4 DEF ZeroOut, Rams
<1>7. QED
  BY <1>3, <1>5, <1>6 DEF ZeroOut, Rams

(* A new table: one frame more is used, one entry points to it.             *)
LEMMA NewTableFacts ==
    ASSUME NEW r \in Rams, NEW t \in Frames, NEW i \in Idx
    PROVE  /\ NewTable(r, t, i) \in Rams
           /\ NewTable(r, t, i).used = r.used + 1 /\ NewTable(r, t, i).kvirt = r.kvirt
           /\ NewTable(r, t, i).kmapped = r.kmapped /\ NewTable(r, t, i).tainted = r.tainted
           /\ \A f \in Frames, j \in Idx :
                 NewTable(r, t, i).mem[f][j] = IF f = t /\ j = i THEN r.used + 1 ELSE r.mem[f][j]
<1>1. r.mem \in [Frames -> [Idx -> Int]] /\ r.used + 1 \in Nat
  BY DEF Rams
<1>2. NewTable(r, t, i).mem = [r.mem EXCEPT ![t][i] = r.used + 1]
  BY DEF NewTable, Rams
<1>3. [r.mem EXCEPT ![t][i] = r.used + 1] \in [Frames -> [Idx -> Int]]
  BY <1>1
<1>4. \A f \in Frames, j \in Idx :
         [r.mem EXCEPT ![t][i] = r.used + 1][f][j] = IF f = t /\ j = i THEN r.used + 1 ELSE r.mem[f][j]
  BY <1>1
<1>5. NewTable(r, t, i) \in Rams
  BY <1>1, <1>3 DEF NewTable, Rams
<1>6. QED
  BY <1>1, <1>2, <1>4, <1>5 DEF NewTable, Rams

(* A new table below frame f, cleared: nothing else is at its place.          *)
Added1(r, role, f, i) == [role EXCEPT ![r.used + 1] = Owned(role[f].of, Append(role[f].path, i))]

(* With a cleared table more below frame f the tables are still a forest that *)
(* maps the same pages.                                                     *)
LEMMA TableAdded ==
    ASSUME NEW r, NEW role, NEW M, Good(r, role, M), r.used < MaxFrames,
           NEW f \in Frames, role[f] # Nobodys, Len(role[f].path) + 1 < LEVELS,
           NEW i \in Idx, EntryOf(role[f].of, role[f].path, i), r.mem[f][i] = 0,
           role[f] = Owned(0, <<>>) =>
               \A g \in Frames : role[g] # Nobodys /\ role[g].path = <<>> => g = 1,
           NEW r1 \in Rams, r1.used = r.used + 1, r1.tainted = r.tainted,
           \A g \in Frames, j \in Idx :
               r1.mem[g][j] = IF g = r.used + 1 THEN 0
                              ELSE IF g = f /\ j = i THEN r.used + 1 ELSE r.mem[g][j]
    PROVE  Good(r1, Added1(r, role, f, i), M)
<1> DEFINE n == r.used + 1
           o == role[f].of
           t == Append(role[f].path, i)
           role1 == Added1(r, role, f, i)
<1>1. /\ r \in Rams /\ r.used \in Nat /\ n \in Frames /\ role \in RoleSet /\ n \in Nat /\ IsMap(M)
      /\ RolesOK(role, r.used) /\ OneEach(role) /\ Down(r.mem, role) /\ PointedTo(r.mem, role)
      /\ Above(role) /\ TopLevel(r.mem, role) /\ Fresh(r.mem, r.used)
      /\ ~r.tainted => Exact(r.mem, role, M)
  <2>1. /\ r \in Rams /\ role \in RoleSet /\ IsMap(M) /\ Forest(r.mem, r.used, role)
        /\ ~r.tainted => Exact(r.mem, role, M)
    BY DEF Good
  <2>2. r.used \in Nat
    BY <2>1 DEF Rams
  <2>3. n \in Frames /\ n \in Nat
    BY <2>2, Slots DEF Frames
  <2>4. QED
    BY <2>1, <2>2, <2>3 DEF Forest
<1>2. /\ o \in Owners /\ o \in Nat /\ role[f].path \in Seq(Idx) /\ Len(role[f].path) \in Nat
      /\ f <= r.used /\ role[f] = Owned(o, role[f].path)
      /\ role[f].path # <<>> => role[f].path[1] \in Top(o)
  BY <1>1, RoleFacts
<1>3. f # n
  BY <1>1, <1>2, Slots
<1>4. /\ t \in Seq(Idx) /\ Len(t) = Len(role[f].path) + 1 /\ t # <<>>
      /\ \A m \in 1..Len(role[f].path) : t[m] = role[f].path[m]
      /\ t[Len(role[f].path) + 1] = i
  BY <1>2, AppendFacts
<1>5. t[1] \in Top(o)
  <2>1. CASE role[f].path = <<>>
    <3>1. Len(role[f].path) = 0
      BY <2>1
    <3>2. QED
      BY <1>4, <2>1, <3>1 DEF EntryOf
  <2>2. CASE role[f].path # <<>>
    <3>1. 1 \in 1..Len(role[f].path)
      BY <1>2, <2>2, EmptySeq
    <3>2. QED
      BY <1>2, <1>4, <2>2, <3>1
  <2>3. QED
    BY <2>1, <2>2
<1>6. PathOf(o, t)
  BY <1>4, <1>5 DEF PathOf
<1>7. role[n] = Nobodys
  BY <1>1 DEF RolesOK
<1>8. /\ role1 \in RoleSet
      /\ \A g \in Frames : role1[g] = IF g = n THEN Owned(o, t) ELSE role[g]
      /\ Owned(o, t) # Nobodys /\ Owned(o, t).of = o /\ Owned(o, t).path = t
  <2>1. Owned(o, t) \in [of : Int, path : Seq(Idx)]
    BY <1>2, <1>4 DEF Owned
  <2>2. role1 \in RoleSet /\ \A g \in Frames : role1[g] = IF g = n THEN Owned(o, t) ELSE role[g]
    BY <1>1, <2>1 DEF RoleSet, Added1
  <2>3. Owned(o, t) # Nobodys /\ Owned(o, t).of = o /\ Owned(o, t).path = t
    <3>1. o \in Nat
      BY <1>2
    <3>2. QED
      BY ONLY <3>1, OwnedFacts, Zenon
  <2>4. QED
    BY <2>2, <2>3
<1>9. /\ \A g \in Frames \ {n} : role1[g] = role[g]
      /\ role1[n] = Owned(o, t) /\ role1[n].of = o /\ role1[n].path = t /\ role1[n] # Nobodys
  BY <1>1, <1>8
<1>10. \A j \in Idx : r1.mem[n][j] = 0
  BY <1>1
<1>11. \A g \in Frames \ {n}, j \in Idx : r1.mem[g][j] = IF g = f /\ j = i THEN n ELSE r.mem[g][j]
  BY <1>1
<1>12. r1.mem[f][i] = n /\ n # 0 /\ n # JUNK
  BY <1>1, <1>3, <1>11, Slots
<1> HIDE DEF role1
\* Nobody had this place: its parent's entry would point there.
<1>13. \A g \in Frames : role[g] # Owned(o, t)
  <2>1. SUFFICES ASSUME NEW g \in Frames, role[g] = Owned(o, t) PROVE FALSE
    OBVIOUS
  <2>2. r.mem[f][i] = g
    BY <1>1, <2>1 DEF PointedTo
  <2>3. QED
    BY <2>2, Slots
<1>14. RolesOK(role1, n)
  <2>1. SUFFICES ASSUME NEW g \in Frames, role1[g] # Nobodys
                 PROVE  role1[g].of \in Owners /\ PathOf(role1[g].of, role1[g].path) /\ g <= n
    BY DEF RolesOK
  <2>2. CASE g = n
    <3>1. role1[g].of = o /\ role1[g].path = t
      BY <1>9, <2>2
    <3>2. QED
      BY ONLY <1>1, <1>2, <1>6, <2>2, <3>1
  <2>3. CASE g # n
    <3>1. role1[g] = role[g] /\ role[g].of \in Owners /\ PathOf(role[g].of, role[g].path) /\ g <= r.used
      BY <1>1, <1>9, <2>1, <2>3 DEF RolesOK
    <3>2. g <= n
      BY <1>1, <3>1, Slots
    <3>3. QED
      BY <3>1, <3>2
  <2>4. QED
    BY <2>2, <2>3
<1>15. OneEach(role1)
  BY <1>1, <1>9, <1>13 DEF OneEach
<1>16. Down(r1.mem, role1)
  <2>1. SUFFICES ASSUME NEW g \in Frames, NEW j \in Idx, role1[g] # Nobodys,
                        Len(role1[g].path) + 1 < LEVELS, EntryOf(role1[g].of, role1[g].path, j)
                 PROVE  /\ LeadsTo(r1.mem[g][j], role1, role1[g].of, Append(role1[g].path, j))
                        /\ role1[g].of = 0 => r1.mem[g][j] # JUNK
    BY DEF Down
  <2>2. CASE g = n
    BY <1>10, <2>2, Slots DEF LeadsTo, JUNK
  <2>3. CASE g = f /\ j = i
    BY <1>1, <1>3, <1>9, <1>12, <2>3 DEF LeadsTo
  <2>4. CASE g # n /\ ~(g = f /\ j = i)
    <3>1. r1.mem[g][j] = r.mem[g][j] /\ role1[g] = role[g]
      BY <1>9, <1>11, <2>4
    <3>2. /\ LeadsTo(r.mem[g][j], role, role[g].of, Append(role[g].path, j))
          /\ role[g].of = 0 => r.mem[g][j] # JUNK
      BY <1>1, <2>1, <3>1 DEF Down
    <3>3. ASSUME r.mem[g][j] \in Frames, role[r.mem[g][j]] = Owned(role[g].of, Append(role[g].path, j))
          PROVE  role1[r.mem[g][j]] = Owned(role[g].of, Append(role[g].path, j))
      <4>1. role[g].of \in Nat
        BY <1>1, <2>1, <3>1, RoleFacts
      <4>2. r.mem[g][j] # n
        BY <1>7, <3>3, <4>1, OwnedFacts
      <4>3. QED
        BY <1>9, <3>3, <4>2
    <3>4. QED
      BY <3>1, <3>2, <3>3 DEF LeadsTo
  <2>5. QED
    BY <2>2, <2>3, <2>4
<1>17. PointedTo(r1.mem, role1)
  <2>1. SUFFICES ASSUME NEW g \in Frames, NEW h \in Frames, NEW j \in Idx, role1[g] # Nobodys,
                        role1[h] = Owned(role1[g].of, Append(role1[g].path, j))
                 PROVE  r1.mem[g][j] = h
    BY DEF PointedTo
  <2>2. /\ role1[g].of \in Nat /\ role1[g].path \in Seq(Idx) /\ Len(role1[g].path) \in Nat
        /\ role1[g] = Owned(role1[g].of, role1[g].path)
    BY <1>8, <1>14, <2>1, RoleFacts
  <2>3. role1[h] # Nobodys /\ role1[h].path = Append(role1[g].path, j) /\ role1[h].of = role1[g].of
    <3>1. PICK p, u : p = role1[g].of /\ u = Append(role1[g].path, j)
      OBVIOUS
    <3>2. role1[h] = Owned(p, u) /\ p \in Nat
      BY <2>1, <2>2, <3>1
    <3>3. Owned(p, u).of = p /\ Owned(p, u).path = u /\ Owned(p, u) # Nobodys
      BY ONLY <3>2, OwnedFacts
    <3>4. QED
      BY <3>1, <3>2, <3>3
  <2>4. CASE h = n
    <3>1. role1[g].of = o /\ Append(role1[g].path, j) = t
      BY <1>9, <2>3, <2>4
    <3>2. role1[g].path = role[f].path /\ j = i
      <4>1. PICK x, y : x = role1[g].path /\ y = role[f].path
        OBVIOUS
      <4>2. x \in Seq(Idx) /\ y \in Seq(Idx) /\ i \in Idx /\ j \in Idx /\ Append(x, j) = Append(y, i)
        BY <1>2, <2>2, <3>1, <4>1
      <4>3. x = y /\ j = i
        BY ONLY <4>2, AppendSame
      <4>4. QED
        BY <4>1, <4>3
    <3>3. role1[g] = role[f] /\ role1[f] = role[f]
      BY <1>2, <1>3, <1>9, <2>2, <3>1, <3>2
    <3>4. g = f
      BY <1>15, <2>1, <3>3 DEF OneEach
    <3>5. QED
      BY <1>12, <2>4, <3>2, <3>4
  <2>5. CASE h # n /\ g = n
    <3>1. role[h] = Owned(o, Append(t, j)) /\ role[h] # Nobodys
      BY <1>9, <2>1, <2>3, <2>5
    <3>2. Under(t, role[h].path)
      <4>1. role[h].path = Append(t, j)
        BY <3>1 DEF Owned
      <4>2. QED
        BY <1>4, <4>1, AppendFacts DEF Under
    <3>3. role[h].of = o
      BY <3>1 DEF Owned
    <3>4. \E g1 \in Frames : role[g1] = Owned(role[h].of, t)
      BY <1>1, <1>4, <3>1, <3>2 DEF Above
    <3>5. QED
      BY <1>13, <3>3, <3>4
  <2>6. CASE h # n /\ g # n
    <3>1. role1[g] = role[g] /\ role1[h] = role[h]
      BY <1>9, <2>6
    <3>2. r.mem[g][j] = h
      BY <1>1, <2>1, <3>1 DEF PointedTo
    <3>3. ~(g = f /\ j = i)
      BY <3>2, Slots
    <3>4. QED
      BY <1>11, <2>6, <3>2, <3>3
  <2>7. QED
    BY <2>4, <2>5, <2>6
<1>18. Above(role1)
  <2>1. SUFFICES ASSUME NEW g \in Frames, NEW u \in Seq(Idx), role1[g] # Nobodys, Under(u, role1[g].path)
                 PROVE  \E h \in Frames : role1[h] = Owned(role1[g].of, u)
    BY DEF Above
  <2>2. ASSUME NEW h \in Frames, role[h] # Nobodys
        PROVE  role1[h] = role[h]
    BY <1>7, <1>9, <2>2
  <2>3. ASSUME NEW g1 \in Frames, role[g1] # Nobodys, Under(u, role[g1].path)
        PROVE  \E h \in Frames : role1[h] = Owned(role[g1].of, u)
    <3>1. PICK h \in Frames : role[h] = Owned(role[g1].of, u)
      BY <1>1, <2>3 DEF Above
    <3>2. role[g1].of \in Nat
      BY <1>1, <2>3, RoleFacts
    <3>3. role[h] # Nobodys
      BY <3>1, <3>2, OwnedFacts
    <3>4. QED
      BY <2>2, <3>1, <3>3
  <2>4. CASE g = n
    <3>1. u = t \/ Under(u, role[f].path)
      BY <1>2, <1>9, <2>1, <2>4, UnderAppend
    <3>2. CASE u = t
      BY <1>1, <1>9, <2>4, <3>2
    <3>3. CASE Under(u, role[f].path)
      BY <1>9, <2>3, <2>4, <3>3
    <3>4. QED
      BY <3>1, <3>2, <3>3
  <2>5. CASE g # n
    BY <1>9, <2>1, <2>3, <2>5
  <2>6. QED
    BY <2>4, <2>5
<1>19. TopLevel(r1.mem, role1)
  <2>1. /\ role[1] = Owned(0, <<>>) /\ 1 \in Frames /\ role[1] # Nobodys /\ n # 1
        /\ \A j \in User : r.mem[1][j] = 0
        /\ \A g \in Frames : role[g] # Nobodys /\ role[g].path = <<>> =>
              r.mem[g][SELF] = g /\ r.mem[g][KERNEL] = r.mem[1][KERNEL]
    <3>1. 1 \in Frames
      BY <1>1, Slots DEF Frames
    <3>2. role[1] = Owned(0, <<>>)
      BY <1>1 DEF TopLevel
    <3>3. role[1] # Nobodys
      BY <3>2, OwnedFacts
    <3>4. QED
      BY <1>1, <1>7, <3>1, <3>2, <3>3 DEF TopLevel
  <2>2. /\ role1[1] = role[1]
        /\ \A g \in Frames : role1[g] # Nobodys /\ role1[g].path = <<>> =>
              g # n /\ role[g] # Nobodys /\ role[g].path = <<>>
    BY <1>4, <1>9, <2>1
  <2>3. /\ role[f].path = <<>> /\ i # KERNEL => i \notin {SELF, KERNEL}
        /\ role[f].path = <<>> => i # SELF
    BY Slots DEF EntryOf
  <2>4. \A j \in User : r1.mem[1][j] = 0
    <3>1. SUFFICES ASSUME f = 1 PROVE i \notin User
      BY <1>11, <2>1, Slots
    <3>2. i \in Top(0)
      BY <2>1, <3>1, OwnedFacts DEF EntryOf
    <3>3. QED
      BY <3>2, Slots DEF Top
  <2>5. ASSUME NEW g \in Frames, g # n, role[g] # Nobodys, role[g].path = <<>>
        PROVE  r1.mem[g][SELF] = g /\ r1.mem[g][KERNEL] = r1.mem[1][KERNEL]
    <3>1. r1.mem[g][SELF] = g
      BY <1>11, <2>1, <2>3, <2>5, Slots
    <3>2. CASE role[f] = Owned(0, <<>>)
      BY <2>5, <3>1, <3>2
    <3>3. CASE role[f] # Owned(0, <<>>)
      <4>1. f # 1
        BY <2>1, <3>3
      <4>2. role[f].path = <<>> => i # KERNEL
        <5>1. SUFFICES ASSUME role[f].path = <<>> PROVE i # KERNEL
          OBVIOUS
        <5>2. o # 0
          BY <1>2, <3>3, <5>1
        <5>3. i \in User
          BY <5>1, <5>2 DEF EntryOf, Top
        <5>4. QED
          BY <5>3, Slots
      <4>3. r1.mem[1][KERNEL] = r.mem[1][KERNEL]
        BY <1>11, <2>1, <4>1, Slots
      <4>4. r1.mem[g][KERNEL] = r.mem[g][KERNEL]
        BY <1>11, <2>5, <4>2, Slots
      <4>5. QED
        BY <2>1, <2>5, <3>1, <4>3, <4>4
    <3>4. QED
      BY <3>2, <3>3
  <2>6. QED
    BY <2>1, <2>2, <2>4, <2>5 DEF TopLevel
<1>20. Fresh(r1.mem, n)
  <2>1. SUFFICES ASSUME NEW g \in Frames, g > n PROVE r1.mem[g] = Found(g)
    BY DEF Fresh
  <2>2. g # n /\ g # f /\ g > r.used
    BY <1>1, <1>2, <2>1, Slots
  <2>3. r.mem[g] = Found(g)
    BY <1>1, <2>2 DEF Fresh
  <2>4. \A j \in Idx : r1.mem[g][j] = r.mem[g][j]
    BY <1>11, <2>2
  <2>5. r1.mem[g] \in [Idx -> Int] /\ r.mem[g] \in [Idx -> Int]
    BY <1>1 DEF Rams
  <2>6. QED
    BY <2>3, <2>4, <2>5
<1>21. Exact(r.mem, role, M) => Exact(r1.mem, role1, M)
  <2>1. SUFFICES ASSUME Exact(r.mem, role, M),
                        NEW g \in Frames, NEW j \in Idx, role1[g] # Nobodys,
                        EntryOf(role1[g].of, role1[g].path, j)
                 PROVE  LET p == role1[g].of
                            u == Append(role1[g].path, j)
                        IN  IF Len(u) = LEVELS THEN r1.mem[g][j] = M[p][u]
                            ELSE /\ r1.mem[g][j] # JUNK
                                 /\ r1.mem[g][j] = 0 => \A v \in PagesOf(p) : Under(u, v) => M[p][v] = 0
    BY DEF Exact
  <2>2. /\ r.mem[f][i] = 0 /\ Len(t) # LEVELS
        /\ \A v \in PagesOf(o) : Under(t, v) => M[o][v] = 0
    <3>1. Len(t) # LEVELS
      BY <1>2, <1>4, Slots
    <3>2. QED
      BY <2>1, <3>1 DEF Exact
  <2>3. CASE g = f /\ j = i
    <3>1. role1[g] = role[f] /\ r1.mem[g][j] = n /\ n # 0 /\ n # JUNK
      BY <1>3, <1>9, <1>12, <2>3
    <3>2. QED
      BY <2>2, <2>3, <3>1
  <2>4. CASE g # n /\ ~(g = f /\ j = i)
    <3>1. r1.mem[g][j] = r.mem[g][j] /\ role1[g] = role[g]
      BY <1>9, <1>11, <2>4
    <3>2. QED
      BY <2>1, <3>1 DEF Exact
  <2>5. CASE g = n
    <3>1. PICK u : u = Append(t, j)
      OBVIOUS
    <3>2. u \in Seq(Idx) /\ Len(u) = Len(t) + 1 /\ \A m \in 1..Len(t) : u[m] = t[m]
      BY <1>4, <3>1, AppendFacts
    <3>3. ASSUME NEW v \in PagesOf(o), Under(u, v) PROVE Under(t, v)
      <4>1. Len(u) <= Len(v) /\ \A m \in 1..Len(u) : v[m] = u[m]
        BY <3>3 DEF Under
      <4>2. Len(v) \in Nat
        BY Slots DEF PagesOf, VKernel, VUser
      <4>3. Len(t) <= Len(v) /\ \A m \in 1..Len(t) : v[m] = t[m]
        BY <1>2, <1>4, <3>2, <4>1, <4>2
      <4>4. QED
        BY <4>3 DEF Under
    <3>4. r1.mem[g][j] = 0
      BY <1>10, <2>5
    <3>5. \A v \in PagesOf(o) : Under(u, v) => M[o][v] = 0
      BY <2>2, <3>3
    <3>6. ASSUME Len(u) = LEVELS PROVE M[o][u] = 0
      <4>1. u \in PagesOf(o)
        <5>1. u \in [1..LEVELS -> Idx] /\ u[1] = t[1]
          <6>1. u \in [1..LEVELS -> Idx]
            BY <3>2, <3>6, LenProperties
          <6>2. 1 \in 1..Len(t)
            BY <1>2, <1>4
          <6>3. QED
            BY <3>2, <6>1, <6>2
        <5>2. QED
          BY <1>5, <5>1 DEF PagesOf, VKernel, VUser, Top
      <4>2. Under(u, u)
        BY <3>2, <3>6, Slots DEF Under
      <4>3. QED
        BY <3>5, <4>1, <4>2
    <3>7. role1[g].of = o /\ Append(role1[g].path, j) = u
      BY <1>9, <2>5, <3>1
    <3>8. IF Len(u) = LEVELS THEN r1.mem[g][j] = M[o][u]
          ELSE /\ r1.mem[g][j] # JUNK
               /\ r1.mem[g][j] = 0 => \A v \in PagesOf(o) : Under(u, v) => M[o][v] = 0
      BY <3>4, <3>5, <3>6 DEF JUNK
    <3>9. QED
      BY ONLY <3>7, <3>8
  <2>6. QED
    BY <2>3, <2>4, <2>5
<1>22. QED
  <2>1. Forest(r1.mem, r1.used, role1)
    BY <1>14, <1>15, <1>16, <1>17, <1>18, <1>19, <1>20 DEF Forest
  <2>2. r1.used <= MaxFrames
    BY <1>1, Slots
  <2>3. QED
    BY <1>1, <1>8, <1>21, <2>1, <2>2 DEF Good, role1

(* The forest does not depend on frames that are nobody's table, on level 1    *)
(* tables, or on slot 509.                                                   *)
LEMMA ForestKept ==
    ASSUME NEW r, NEW role, NEW M, Good(r, role, M),
           NEW r1 \in Rams, r.used <= r1.used, r1.used <= MaxFrames,
           \A g \in Frames, j \in Idx :
               /\ role[g] # Nobodys /\ Len(role[g].path) + 1 < LEVELS
               /\ ~(role[g].path = <<>> /\ j = CROSS)
               => r1.mem[g][j] = r.mem[g][j],
           \A g \in Frames : g > r1.used => r1.mem[g] = r.mem[g]
    PROVE  Forest(r1.mem, r1.used, role)
<1>1. /\ r \in Rams /\ role \in RoleSet /\ r.used \in Nat /\ r1.used \in Nat
      /\ RolesOK(role, r.used) /\ OneEach(role) /\ Down(r.mem, role) /\ PointedTo(r.mem, role)
      /\ Above(role) /\ TopLevel(r.mem, role) /\ Fresh(r.mem, r.used)
  BY DEF Good, Forest, Rams
<1>2. RolesOK(role, r1.used)
  <2>1. SUFFICES ASSUME NEW f \in Frames, role[f] # Nobodys PROVE f <= r1.used
    BY <1>1 DEF RolesOK
  <2>2. f <= r.used
    BY <1>1, <2>1 DEF RolesOK
  <2>3. QED
    BY <1>1, <2>2, Slots
<1>3. Down(r1.mem, role)
  <2>1. SUFFICES ASSUME NEW f \in Frames, NEW i \in Idx, role[f] # Nobodys,
                        Len(role[f].path) + 1 < LEVELS, EntryOf(role[f].of, role[f].path, i)
                 PROVE  r1.mem[f][i] = r.mem[f][i]
    BY <1>1 DEF Down
  <2>2. ~(role[f].path = <<>> /\ i = CROSS)
    BY <2>1, Slots DEF EntryOf
  <2>3. QED
    BY <2>1, <2>2
<1>4. PointedTo(r1.mem, role)
  <2>1. SUFFICES ASSUME NEW f \in Frames, NEW g \in Frames, NEW i \in Idx, role[f] # Nobodys,
                        role[g] = Owned(role[f].of, Append(role[f].path, i))
                 PROVE  r1.mem[f][i] = r.mem[f][i]
    BY <1>1 DEF PointedTo
  <2>2. /\ role[f].of \in Nat /\ role[f].path \in Seq(Idx) /\ Len(role[f].path) \in Nat
        /\ Len(role[f].path) < LEVELS
    BY <1>1, <2>1, RoleFacts
  <2>3. PICK t : t = Append(role[f].path, i)
    OBVIOUS
  <2>4. Owned(role[f].of, t) # Nobodys
    BY ONLY <2>2, OwnedFacts, Zenon
  <2>5. role[g] # Nobodys /\ role[g].path = t /\ role[g].of = role[f].of
    BY <2>1, <2>3, <2>4 DEF Owned
  <2>6. t \in Seq(Idx) /\ Len(t) = Len(role[f].path) + 1 /\ t # <<>> /\ t[Len(role[f].path) + 1] = i
    BY <2>2, <2>3, AppendFacts
  <2>7. Len(t) < LEVELS /\ t[1] \in Top(role[f].of)
    BY <1>1, <2>5, <2>6, RoleFacts
  <2>8. ASSUME role[f].path = <<>> PROVE i # CROSS
    <3>1. Len(role[f].path) = 0
      BY <2>8
    <3>2. i = t[1]
      BY <2>6, <3>1
    <3>3. QED
      BY <2>7, <3>2, Slots
  <2>9. QED
    BY <2>1, <2>6, <2>7, <2>8
<1>5. TopLevel(r1.mem, role)
  <2>1. role[1] = Owned(0, <<>>) /\ \A i \in User : r.mem[1][i] = 0
    BY <1>1 DEF TopLevel
  <2>2. role[1].path = <<>> /\ role[1] # Nobodys
    BY <2>1, OwnedFacts
  <2>3. 1 \in Frames
    BY Slots
  <2>4. Len(<<>>) + 1 < LEVELS
    BY Slots
  <2>5. ASSUME NEW g \in Frames, role[g] # Nobodys, role[g].path = <<>>, NEW j \in Idx, j # CROSS
        PROVE  r1.mem[g][j] = r.mem[g][j]
    BY <2>4, <2>5
  <2>6. QED
    BY <1>1, <2>1, <2>2, <2>3, <2>5, Slots DEF TopLevel
<1>6. Fresh(r1.mem, r1.used)
  <2>1. SUFFICES ASSUME NEW f \in Frames, f > r1.used PROVE r1.mem[f] = Found(f)
    BY DEF Fresh
  <2>2. f > r.used
    BY <1>1, <2>1, Slots
  <2>3. QED
    BY <1>1, <2>1, <2>2 DEF Fresh
<1>7. QED
  BY <1>1, <1>2, <1>3, <1>4, <1>5, <1>6 DEF Forest

(* Nor does what is mapped. *)
LEMMA GoodKept ==
    ASSUME NEW r, NEW role, NEW M, Good(r, role, M),
           NEW r1 \in Rams, r.used <= r1.used, r1.used <= MaxFrames,
           ~r1.tainted => ~r.tainted,
           \A g \in Frames, j \in Idx :
               role[g] # Nobodys /\ ~(role[g].path = <<>> /\ j = CROSS) => r1.mem[g][j] = r.mem[g][j],
           \A g \in Frames : g > r1.used => r1.mem[g] = r.mem[g]
    PROVE  Good(r1, role, M)
<1>1. Forest(r1.mem, r1.used, role)
  BY ForestKept
<1>2. ASSUME Exact(r.mem, role, M) PROVE Exact(r1.mem, role, M)
  <2>1. SUFFICES ASSUME NEW f \in Frames, NEW i \in Idx, role[f] # Nobodys,
                        EntryOf(role[f].of, role[f].path, i)
                 PROVE  r1.mem[f][i] = r.mem[f][i]
    BY <1>2 DEF Exact
  <2>2. ~(role[f].path = <<>> /\ i = CROSS)
    BY <2>1, Slots DEF EntryOf
  <2>3. QED
    BY <2>1, <2>2
<1>3. QED
  BY <1>1, <1>2 DEF Good

(* The top level's frame counts as a path too: the tables above a page's last. *)
LEMMA UnderUpto ==
    ASSUME NEW v \in VPages, NEW n \in 0..LEVELS, NEW t \in Seq(Idx), Len(t) <= n, Under(t, v)
    PROVE  Under(t, Upto(v, n))
<1>1. Len(t) \in Nat /\ \A m \in 1..Len(t) : v[m] = t[m]
  BY LenProperties DEF Under
<1>2. \A m \in 1..Len(t) : m \in 1..n
  BY <1>1, Slots
<1>3. QED
  BY <1>1, <1>2, UptoFacts DEF Under

(* The page at v is mapped to the frame given, in the table at[v].           *)
LEMMA PageMapped ==
    ASSUME NEW r, NEW role, NEW M, Good(r, role, M),
           NEW o \in Owners, NEW v \in PagesOf(o), NEW frame \in Nat,
           NEW at \in Frames, role[at] = Owned(o, Upto(v, LEVELS - 1)),
           NEW r1 \in Rams, r1.used = r.used, ~r1.tainted => ~r.tainted,
           \A g \in Frames : g # at => r1.mem[g] = r.mem[g],
           ~r1.tainted => \A j \in Idx :
               r1.mem[at][j] = IF j = v[LEVELS] THEN frame ELSE r.mem[at][j]
    PROVE  Good(r1, role, [M EXCEPT ![o][v] = frame])
<1> DEFINE M1 == [M EXCEPT ![o][v] = frame]
<1>1. /\ r \in Rams /\ role \in RoleSet /\ r.used \in Nat /\ r.used <= MaxFrames /\ IsMap(M)
      /\ RolesOK(role, r.used) /\ OneEach(role) /\ PointedTo(r.mem, role) /\ Above(role)
  BY DEF Good, Forest, Rams
<1>2. o \in Nat /\ v \in VPages /\ PagesOf(o) \subseteq VPages
  BY Slots DEF Owners, PagesOf, VUser, VKernel, VPages
<1>3. /\ LEVELS - 1 \in 0..LEVELS /\ LEVELS \in 0..LEVELS /\ LEVELS \in 1..LEVELS /\ v[LEVELS] \in Idx
      /\ (LEVELS - 1) + 1 = LEVELS
  BY <1>2, Slots DEF VPages
<1>4. role[at] # Nobodys /\ role[at].of = o /\ role[at].path = Upto(v, LEVELS - 1)
  BY <1>2, OwnedFacts
<1>5. /\ Len(role[at].path) = LEVELS - 1 /\ role[at].path \in Seq(Idx) /\ at <= r.used
      /\ Append(role[at].path, v[LEVELS]) = v
  <2>1. /\ Len(Upto(v, LEVELS - 1)) = LEVELS - 1 /\ Upto(v, LEVELS - 1) \in Seq(Idx)
        /\ Append(Upto(v, LEVELS - 1), v[LEVELS]) = Upto(v, LEVELS)
    BY <1>2, <1>3, UptoFacts, Slots
  <2>2. Upto(v, LEVELS) = v
    BY <1>2, <1>3, UptoFacts
  <2>3. QED
    BY <1>1, <1>4, <2>1, <2>2, RoleFacts
<1>6. Forest(r1.mem, r1.used, role)
  <2>1. \A g \in Frames : g > r1.used => r1.mem[g] = r.mem[g]
    <3>1. \A g \in Frames : g > r1.used => g # at
      BY <1>1, <1>5, Slots
    <3>2. QED
      BY <3>1
  <2>2. \A g \in Frames, j \in Idx :
            /\ role[g] # Nobodys /\ Len(role[g].path) + 1 < LEVELS
            /\ ~(role[g].path = <<>> /\ j = CROSS)
            => r1.mem[g][j] = r.mem[g][j]
    <3>1. ~(Len(role[at].path) + 1 < LEVELS)
      BY <1>5, Slots
    <3>2. QED
      BY <3>1
  <2>3. r.used <= r1.used /\ r1.used <= MaxFrames
    BY <1>1
  <2>4. QED
    BY <2>1, <2>2, <2>3, ForestKept
<1>7. IsMap(M1) /\ \A p \in Owners : \A w \in PagesOf(p) : M1[p][w] = IF p = o /\ w = v THEN frame ELSE M[p][w]
  <2>1. M[o] \in [PagesOf(o) -> Nat]
    BY <1>1 DEF IsMap
  <2>2. PICK m : m = [M[o] EXCEPT ![v] = frame]
    OBVIOUS
  <2>3. m \in [PagesOf(o) -> Nat] /\ \A w \in PagesOf(o) : m[w] = IF w = v THEN frame ELSE M[o][w]
    BY <2>1, <2>2
  <2>4. DOMAIN M1 = Owners /\ \A p \in Owners : M1[p] = IF p = o THEN m ELSE M[p]
    BY <1>1, <2>2 DEF IsMap
  <2>5. QED
    BY <1>1, <2>3, <2>4 DEF IsMap
<1> HIDE DEF M1
<1>8. ASSUME ~r1.tainted PROVE Exact(r1.mem, role, M1)
  <2>1. Exact(r.mem, role, M)
    BY <1>8 DEF Good
  <2>2. SUFFICES ASSUME NEW f \in Frames, NEW i \in Idx, role[f] # Nobodys,
                        EntryOf(role[f].of, role[f].path, i)
        PROVE  LET q == role[f].of
                   t == Append(role[f].path, i)
               IN  IF Len(t) = LEVELS THEN r1.mem[f][i] = M1[q][t]
                   ELSE /\ r1.mem[f][i] # JUNK
                        /\ r1.mem[f][i] = 0 => \A w \in PagesOf(q) : Under(t, w) => M1[q][w] = 0
    BY DEF Exact
  <2>3. PICK q, t : q = role[f].of /\ t = Append(role[f].path, i)
    OBVIOUS
  <2>4. /\ q \in Owners /\ q \in Nat /\ role[f] = Owned(q, role[f].path)
        /\ role[f].path \in Seq(Idx) /\ Len(role[f].path) \in Nat /\ Len(role[f].path) < LEVELS
        /\ role[f].path # <<>> => role[f].path[1] \in Top(q)
    BY <1>1, <2>2, <2>3, RoleFacts
  <2>5. /\ t \in Seq(Idx) /\ Len(t) = Len(role[f].path) + 1
        /\ \A m \in 1..Len(role[f].path) : t[m] = role[f].path[m]
        /\ t[Len(role[f].path) + 1] = i
    BY <2>3, <2>4, AppendFacts
  <2>6. IF Len(t) = LEVELS THEN r.mem[f][i] = M[q][t]
        ELSE /\ r.mem[f][i] # JUNK
             /\ r.mem[f][i] = 0 => \A w \in PagesOf(q) : Under(t, w) => M[q][w] = 0
    BY <2>1, <2>2, <2>3 DEF Exact
  <2>7. CASE Len(t) = LEVELS
    <3>1. t \in PagesOf(q)
      <4>1. t \in [1..LEVELS -> Idx]
        BY <2>5, <2>7, LenProperties
      <4>2. t[1] \in Top(q)
        <5>1. CASE role[f].path = <<>>
          <6>1. Len(role[f].path) = 0
            BY <5>1
          <6>2. QED
            BY <2>2, <2>3, <2>5, <5>1, <6>1 DEF EntryOf
        <5>2. CASE role[f].path # <<>>
          <6>1. 1 \in 1..Len(role[f].path)
            BY <2>4, <5>2, EmptySeq
          <6>2. QED
            BY <2>4, <2>5, <5>2, <6>1
        <5>3. QED
          BY <5>1, <5>2
      <4>3. QED
        BY <4>1, <4>2 DEF PagesOf, VKernel, VUser, Top
    <3>2. M1[q][t] = IF q = o /\ t = v THEN frame ELSE M[q][t]
      BY <1>7, <2>4, <3>1
    <3>3. q = o /\ t = v <=> f = at /\ i = v[LEVELS]
      <4>1. ASSUME q = o, t = v PROVE f = at /\ i = v[LEVELS]
        <5>1. Append(role[f].path, i) = Append(role[at].path, v[LEVELS])
          BY <1>5, <2>3, <4>1
        <5>2. role[f].path = role[at].path /\ i = v[LEVELS]
          <6>1. /\ role[f].path \in Seq(Idx) /\ role[at].path \in Seq(Idx)
                /\ i \in Idx /\ v[LEVELS] \in Idx
            BY <1>3, <1>5, <2>4
          <6>2. QED
            <7>1. PICK a, b, j : a = role[f].path /\ b = role[at].path /\ j = v[LEVELS]
              OBVIOUS
            <7>2. a \in Seq(Idx) /\ b \in Seq(Idx) /\ i \in Idx /\ j \in Idx
                  /\ Append(a, i) = Append(b, j)
              BY <6>1, <5>1, <7>1
            <7>3. a = b /\ i = j
              BY ONLY <7>2, AppendSame
            <7>4. QED
              BY <7>1, <7>3
        <5>3. role[f] = role[at]
          BY <1>4, <2>4, <4>1, <5>2
        <5>4. QED
          BY <1>1, <2>2, <5>2, <5>3 DEF OneEach
      <4>2. ASSUME f = at, i = v[LEVELS] PROVE q = o /\ t = v
        BY <1>4, <1>5, <2>3, <4>2
      <4>3. QED
        BY <4>1, <4>2
    <3>4. r1.mem[f][i] = IF f = at /\ i = v[LEVELS] THEN frame ELSE r.mem[f][i]
      BY <1>8
    <3>5. QED
      BY <2>3, <2>6, <2>7, <3>2, <3>3, <3>4
  <2>8. CASE Len(t) # LEVELS
    <3>1. f # at
      BY <1>5, <2>5, <2>8, Slots
    <3>2. r1.mem[f][i] = r.mem[f][i]
      BY <3>1
    <3>3. ASSUME r.mem[f][i] = 0, NEW w \in PagesOf(q), Under(t, w) PROVE M1[q][w] = 0
      <4>1. M[q][w] = 0
        BY <2>6, <2>8, <3>3
      <4>2. ~(q = o /\ w = v)
        <5>1. SUFFICES ASSUME q = o, w = v PROVE FALSE
          OBVIOUS
        <5>2. Len(t) <= LEVELS - 1
          BY <2>4, <2>5, <2>8, Slots
        <5>3. Under(t, role[at].path)
          BY <1>2, <1>3, <1>4, <2>5, <3>3, <5>1, <5>2, UnderUpto
        <5>4. PICK g \in Frames : role[g] = Owned(role[at].of, t)
          BY <1>1, <1>4, <2>5, <5>3 DEF Above
        <5>5. role[g] = Owned(role[f].of, Append(role[f].path, i))
          BY <1>4, <2>3, <5>1, <5>4
        <5>6. r.mem[f][i] = g
          BY <1>1, <2>2, <5>5 DEF PointedTo
        <5>7. QED
          BY <3>3, <5>6, Slots
      <4>3. QED
        BY <1>7, <2>4, <3>3, <4>1, <4>2
    <3>4. QED
      BY <2>3, <2>6, <2>8, <3>2, <3>3
  <2>9. QED
    BY <2>7, <2>8
<1>9. QED
  BY <1>1, <1>6, <1>7, <1>8 DEF Good, M1
-----------------------------------------------------------------------------
(* The recursive functions of the model are there, and what they are: the    *)
(* least turn that is missing could be added to the ones before it.          *)

(* The places of the walk of the MMU. *)
Trail(mem, root, v, n, g) ==
    g = [k \in 0..n |-> IF k = 0 THEN root ELSE (IF g[k - 1] \in Frames THEN mem[g[k - 1]][v[k]] ELSE g[k - 1])]

(* A trail begins at the root and goes on by one entry for each index.      *)
LEMMA TrailFacts ==
    ASSUME NEW mem, NEW root, NEW v, NEW n \in Nat, NEW g, Trail(mem, root, v, n, g)
    PROVE  g[0] = root /\ \A k \in 1..n : g[k] = (IF g[k - 1] \in Frames THEN mem[g[k - 1]][v[k]] ELSE g[k - 1])
<1>1. \A k \in 0..n : g[k] = IF k = 0 THEN root ELSE (IF g[k - 1] \in Frames THEN mem[g[k - 1]][v[k]] ELSE g[k - 1])
  BY Zenon DEF Trail
<1>2. 0 \in 0..n /\ \A k \in 1..n : k \in 0..n /\ k # 0
  OBVIOUS
<1>3. QED
  BY ONLY <1>1, <1>2, Zenon

(* Every walk has a trail, however long the path.                           *)
LEMMA TrailExists ==
    ASSUME NEW mem, NEW root, NEW v, NEW n \in Nat
    PROVE  \E g : Trail(mem, root, v, n, g)
<1>1. PICK Bad : Bad = {k \in Nat : ~\E g : Trail(mem, root, v, k, g)}
  OBVIOUS
<1>2. SUFFICES ASSUME Bad # {} PROVE FALSE
  BY <1>1
<1>3. PICK m \in Bad : \A k \in Bad : m <= k
  BY <1>1, <1>2, Least
<1>4. m \in Nat /\ ~\E g : Trail(mem, root, v, m, g)
  BY <1>1, <1>3
<1>5. CASE m = 0
  <2>1. PICK g : g = [k \in 0..0 |-> root]
    OBVIOUS
  <2>2. \A k \in 0..0 : k = 0
    OBVIOUS
  <2>3. Trail(mem, root, v, 0, g)
    BY ONLY <2>1, <2>2, Zenon DEF Trail
  <2>4. QED
    BY <1>4, <1>5, <2>3
<1>6. CASE m # 0
  <2>1. m - 1 \in Nat /\ m - 1 \notin Bad
    BY <1>3, <1>4, <1>6
  <2>2. PICK h : Trail(mem, root, v, m - 1, h)
    BY <1>1, <2>1
  <2>3. h[0] = root /\ \A k \in 1..(m - 1) : h[k] = (IF h[k - 1] \in Frames THEN mem[h[k - 1]][v[k]] ELSE h[k - 1])
    <3>1. PICK l : l = m - 1
      OBVIOUS
    <3>2. l \in Nat /\ Trail(mem, root, v, l, h)
      BY <2>1, <2>2, <3>1
    <3>3. h[0] = root /\ \A k \in 1..l : h[k] = (IF h[k - 1] \in Frames THEN mem[h[k - 1]][v[k]] ELSE h[k - 1])
      BY ONLY <3>2, TrailFacts
    <3>4. QED
      BY <3>1, <3>3
  <2>4. PICK last : last = (IF h[m - 1] \in Frames THEN mem[h[m - 1]][v[m]] ELSE h[m - 1])
    OBVIOUS
  <2>5. PICK g : g = [k \in 0..m |-> IF k < m THEN h[k] ELSE last]
    OBVIOUS
  <2>6. ASSUME NEW k \in 0..m
        PROVE  g[k] = IF k = 0 THEN root ELSE (IF g[k - 1] \in Frames THEN mem[g[k - 1]][v[k]] ELSE g[k - 1])
    <3>1. CASE k = 0
      BY <1>4, <1>6, <2>3, <2>5, <3>1
    <3>2. CASE k # 0
      <4>1. k - 1 \in 0..m /\ k - 1 < m /\ (k = m \/ (k \in 1..(m - 1) /\ k < m))
        BY <1>4, <3>2
      <4>2. g[k - 1] = h[k - 1]
        BY ONLY <2>5, <4>1, Zenon
      <4>3. CASE k = m
        <5>1. g[k] = last
          BY <1>4, <2>5, <4>3
        <5>2. QED
          BY ONLY <2>4, <3>2, <4>2, <4>3, <5>1, Zenon
      <4>4. CASE k # m
        <5>1. g[k] = h[k]
          BY ONLY <2>5, <4>1, <4>4, Zenon
        <5>2. QED
          BY ONLY <2>3, <3>2, <4>1, <4>2, <4>4, <5>1, Zenon
      <4>5. QED
        BY <4>3, <4>4
    <3>3. QED
      BY <3>1, <3>2
  <2>7. g = [k \in 0..m |-> g[k]]
    BY ONLY <2>5, Zenon
  <2>8. Trail(mem, root, v, m, g)
    BY ONLY <2>6, <2>7, Zenon DEF Trail
  <2>9. QED
    BY ONLY <1>4, <2>8, Zenon
<1>7. QED
  BY <1>5, <1>6

(* The turns of map_page. *)
Turns(r, root, v, n, g) ==
    g = [k \in 0..n |-> IF k = 0 THEN [r |-> r, at |-> root, fresh |-> FALSE] ELSE map_step(g[k - 1], v[k])]

(* The first turn of map_page's loop begins at the root, each goes on from the last. *)
LEMMA TurnsFacts ==
    ASSUME NEW r, NEW root, NEW v, NEW n \in Nat, NEW g, Turns(r, root, v, n, g)
    PROVE  g[0] = [r |-> r, at |-> root, fresh |-> FALSE] /\ \A k \in 1..n : g[k] = map_step(g[k - 1], v[k])
<1>1. \A k \in 0..n : g[k] = IF k = 0 THEN [r |-> r, at |-> root, fresh |-> FALSE] ELSE map_step(g[k - 1], v[k])
  BY Zenon DEF Turns
<1>2. 0 \in 0..n /\ \A k \in 1..n : k \in 0..n /\ k # 0
  OBVIOUS
<1>3. QED
  BY ONLY <1>1, <1>2, Zenon

(* map_page's loop has a state after every turn.                            *)
LEMMA TurnsExist ==
    ASSUME NEW r, NEW root, NEW v, NEW n \in Nat
    PROVE  \E g : Turns(r, root, v, n, g)
<1>1. PICK Bad : Bad = {k \in Nat : ~\E g : Turns(r, root, v, k, g)}
  OBVIOUS
<1>2. SUFFICES ASSUME Bad # {} PROVE FALSE
  BY <1>1
<1>3. PICK m \in Bad : \A k \in Bad : m <= k
  BY <1>1, <1>2, Least
<1>4. m \in Nat /\ ~\E g : Turns(r, root, v, m, g)
  BY <1>1, <1>3
<1>5. CASE m = 0
  <2>1. PICK g : g = [k \in 0..0 |-> [r |-> r, at |-> root, fresh |-> FALSE]]
    OBVIOUS
  <2>2. \A k \in 0..0 : k = 0
    OBVIOUS
  <2>3. Turns(r, root, v, 0, g)
    BY ONLY <2>1, <2>2, Zenon DEF Turns
  <2>4. QED
    BY <1>4, <1>5, <2>3
<1>6. CASE m # 0
  <2>1. m - 1 \in Nat /\ m - 1 \notin Bad
    BY <1>3, <1>4, <1>6
  <2>2. PICK h : Turns(r, root, v, m - 1, h)
    BY <1>1, <2>1
  <2>3. h[0] = [r |-> r, at |-> root, fresh |-> FALSE] /\ \A k \in 1..(m - 1) : h[k] = map_step(h[k - 1], v[k])
    <3>1. PICK l : l = m - 1
      OBVIOUS
    <3>2. l \in Nat /\ Turns(r, root, v, l, h)
      BY <2>1, <2>2, <3>1
    <3>3. h[0] = [r |-> r, at |-> root, fresh |-> FALSE] /\ \A k \in 1..l : h[k] = map_step(h[k - 1], v[k])
      BY ONLY <3>2, TurnsFacts
    <3>4. QED
      BY <3>1, <3>3
  <2>4. PICK last : last = map_step(h[m - 1], v[m])
    OBVIOUS
  <2>5. PICK g : g = [k \in 0..m |-> IF k < m THEN h[k] ELSE last]
    OBVIOUS
  <2>6. ASSUME NEW k \in 0..m
        PROVE  g[k] = IF k = 0 THEN [r |-> r, at |-> root, fresh |-> FALSE] ELSE map_step(g[k - 1], v[k])
    <3>1. CASE k = 0
      BY <1>4, <1>6, <2>3, <2>5, <3>1
    <3>2. CASE k # 0
      <4>1. k - 1 \in 0..m /\ k - 1 < m /\ (k = m \/ (k \in 1..(m - 1) /\ k < m))
        BY <1>4, <3>2
      <4>2. g[k - 1] = h[k - 1]
        BY ONLY <2>5, <4>1, Zenon
      <4>3. CASE k = m
        <5>1. g[k] = last
          BY <1>4, <2>5, <4>3
        <5>2. QED
          BY ONLY <2>4, <3>2, <4>2, <4>3, <5>1, Zenon
      <4>4. CASE k # m
        <5>1. g[k] = h[k]
          BY ONLY <2>5, <4>1, <4>4, Zenon
        <5>2. QED
          BY ONLY <2>3, <3>2, <4>1, <4>2, <4>4, <5>1, Zenon
      <4>5. QED
        BY <4>3, <4>4
    <3>3. QED
      BY <3>1, <3>2
  <2>7. g = [k \in 0..m |-> g[k]]
    BY ONLY <2>5, Zenon
  <2>8. Turns(r, root, v, m, g)
    BY ONLY <2>6, <2>7, Zenon DEF Turns
  <2>9. QED
    BY ONLY <1>4, <2>8, Zenon
<1>7. QED
  BY <1>5, <1>6

(* The turns of k_map_v. *)
KTurns(r, root, v, n, g) ==
    g = [k \in 0..n |-> IF k = 0 THEN [r |-> r, at |-> root] ELSE k_map_step(g[k - 1], v[k])]

(* The same of k_map_v's loop.                                              *)
LEMMA KTurnsFacts ==
    ASSUME NEW r, NEW root, NEW v, NEW n \in Nat, NEW g, KTurns(r, root, v, n, g)
    PROVE  g[0] = [r |-> r, at |-> root] /\ \A k \in 1..n : g[k] = k_map_step(g[k - 1], v[k])
<1>1. \A k \in 0..n : g[k] = IF k = 0 THEN [r |-> r, at |-> root] ELSE k_map_step(g[k - 1], v[k])
  BY Zenon DEF KTurns
<1>2. 0 \in 0..n /\ \A k \in 1..n : k \in 0..n /\ k # 0
  OBVIOUS
<1>3. QED
  BY ONLY <1>1, <1>2, Zenon

(* k_map_v's loop has a state after every turn.                             *)
LEMMA KTurnsExist ==
    ASSUME NEW r, NEW root, NEW v, NEW n \in Nat
    PROVE  \E g : KTurns(r, root, v, n, g)
<1>1. PICK Bad : Bad = {k \in Nat : ~\E g : KTurns(r, root, v, k, g)}
  OBVIOUS
<1>2. SUFFICES ASSUME Bad # {} PROVE FALSE
  BY <1>1
<1>3. PICK m \in Bad : \A k \in Bad : m <= k
  BY <1>1, <1>2, Least
<1>4. m \in Nat /\ ~\E g : KTurns(r, root, v, m, g)
  BY <1>1, <1>3
<1>5. CASE m = 0
  <2>1. PICK g : g = [k \in 0..0 |-> [r |-> r, at |-> root]]
    OBVIOUS
  <2>2. \A k \in 0..0 : k = 0
    OBVIOUS
  <2>3. KTurns(r, root, v, 0, g)
    BY ONLY <2>1, <2>2, Zenon DEF KTurns
  <2>4. QED
    BY <1>4, <1>5, <2>3
<1>6. CASE m # 0
  <2>1. m - 1 \in Nat /\ m - 1 \notin Bad
    BY <1>3, <1>4, <1>6
  <2>2. PICK h : KTurns(r, root, v, m - 1, h)
    BY <1>1, <2>1
  <2>3. h[0] = [r |-> r, at |-> root] /\ \A k \in 1..(m - 1) : h[k] = k_map_step(h[k - 1], v[k])
    <3>1. PICK l : l = m - 1
      OBVIOUS
    <3>2. l \in Nat /\ KTurns(r, root, v, l, h)
      BY <2>1, <2>2, <3>1
    <3>3. h[0] = [r |-> r, at |-> root] /\ \A k \in 1..l : h[k] = k_map_step(h[k - 1], v[k])
      BY ONLY <3>2, KTurnsFacts
    <3>4. QED
      BY <3>1, <3>3
  <2>4. PICK last : last = k_map_step(h[m - 1], v[m])
    OBVIOUS
  <2>5. PICK g : g = [k \in 0..m |-> IF k < m THEN h[k] ELSE last]
    OBVIOUS
  <2>6. ASSUME NEW k \in 0..m
        PROVE  g[k] = IF k = 0 THEN [r |-> r, at |-> root] ELSE k_map_step(g[k - 1], v[k])
    <3>1. CASE k = 0
      BY <1>4, <1>6, <2>3, <2>5, <3>1
    <3>2. CASE k # 0
      <4>1. k - 1 \in 0..m /\ k - 1 < m /\ (k = m \/ (k \in 1..(m - 1) /\ k < m))
        BY <1>4, <3>2
      <4>2. g[k - 1] = h[k - 1]
        BY ONLY <2>5, <4>1, Zenon
      <4>3. CASE k = m
        <5>1. g[k] = last
          BY <1>4, <2>5, <4>3
        <5>2. QED
          BY ONLY <2>4, <3>2, <4>2, <4>3, <5>1, Zenon
      <4>4. CASE k # m
        <5>1. g[k] = h[k]
          BY ONLY <2>5, <4>1, <4>4, Zenon
        <5>2. QED
          BY ONLY <2>3, <3>2, <4>1, <4>2, <4>4, <5>1, Zenon
      <4>5. QED
        BY <4>3, <4>4
    <3>3. QED
      BY <3>1, <3>2
  <2>7. g = [k \in 0..m |-> g[k]]
    BY ONLY <2>5, Zenon
  <2>8. KTurns(r, root, v, m, g)
    BY ONLY <2>6, <2>7, Zenon DEF KTurns
  <2>9. QED
    BY ONLY <1>4, <2>8, Zenon
<1>7. QED
  BY <1>5, <1>6
-----------------------------------------------------------------------------
(* The walk only depends on the indices it has gone through. *)
LEMMA TrailUnique ==
    ASSUME NEW mem, NEW root, NEW v, NEW u, NEW n \in Nat, NEW m \in Nat, NEW k \in Nat,
           k <= n, k <= m, \A l \in 1..k : v[l] = u[l],
           NEW f, NEW g, Trail(mem, root, v, n, f), Trail(mem, root, u, m, g)
    PROVE  f[k] = g[k]
<1>1. /\ f[0] = root /\ g[0] = root
      /\ \A l \in 1..n : f[l] = (IF f[l - 1] \in Frames THEN mem[f[l - 1]][v[l]] ELSE f[l - 1])
      /\ \A l \in 1..m : g[l] = (IF g[l - 1] \in Frames THEN mem[g[l - 1]][u[l]] ELSE g[l - 1])
  <2>1. n \in Nat /\ Trail(mem, root, v, n, f)
    OBVIOUS
  <2>a. m \in Nat /\ Trail(mem, root, u, m, g)
    OBVIOUS
  <2>2. f[0] = root /\ \A l \in 1..n :
            f[l] = (IF f[l - 1] \in Frames THEN mem[f[l - 1]][v[l]] ELSE f[l - 1])
    BY ONLY <2>1, TrailFacts
  <2>3. g[0] = root /\ \A l \in 1..m :
            g[l] = (IF g[l - 1] \in Frames THEN mem[g[l - 1]][u[l]] ELSE g[l - 1])
    BY ONLY <2>a, TrailFacts
  <2>4. QED
    BY <2>2, <2>3
<1>2. PICK Bad : Bad = {l \in 0..k : f[l] # g[l]}
  OBVIOUS
<1>3. SUFFICES ASSUME Bad # {} PROVE FALSE
  BY <1>2
<1>4. PICK b \in Bad : \A l \in Bad : b <= l
  <2>1. Bad \in SUBSET Nat
    BY <1>2
  <2>2. QED
    BY <1>3, <2>1, Least
<1>5. b \in 0..k /\ f[b] # g[b]
  BY <1>2
<1>6. b \in 1..k /\ b \in 1..n /\ b \in 1..m
  BY <1>1, <1>5
<1>7. b - 1 \in 0..k /\ b - 1 \notin Bad
  BY <1>4, <1>6
<1>8. f[b - 1] = g[b - 1]
  BY <1>2, <1>7
<1>9. f[b] = g[b]
  BY <1>1, <1>6, <1>8
<1>10. QED
  BY <1>5, <1>9

(* What Walk finds is the end of any trail along the path.                  *)
LEMMA WalkIs ==
    ASSUME NEW mem, NEW root, NEW v \in Seq(Idx), NEW g, Trail(mem, root, v, Len(v), g)
    PROVE  Walk(mem, root, v) = g[Len(v)]
<1> DEFINE at == CHOOSE a : a = [n \in 0..Len(v) |->
                    IF n = 0 THEN root
                    ELSE IF a[n - 1] \in Frames THEN mem[a[n - 1]][v[n]] ELSE a[n - 1]]
<1>1. Len(v) \in Nat
  BY LenProperties
<1>2. Trail(mem, root, v, Len(v), at)
  BY DEF Trail
<1>3. Walk(mem, root, v) = at[Len(v)]
  BY DEF Walk
<1> HIDE DEF at
<1>4. at[Len(v)] = g[Len(v)]
  BY <1>1, <1>2, TrailUnique
<1>5. QED
  BY <1>3, <1>4

(* The MMU goes from entry to entry. *)
LEMMA WalkEmpty ==
    ASSUME NEW mem, NEW root
    PROVE  Walk(mem, root, <<>>) = root
<1>1. <<>> \in Seq(Idx) /\ Len(<<>>) = 0
  OBVIOUS
<1>2. PICK g : Trail(mem, root, <<>>, 0, g)
  BY TrailExists
<1>3. Walk(mem, root, <<>>) = g[0]
  BY <1>1, <1>2, WalkIs
<1>4. g[0] = root
  <2>1. PICK v, n : v = <<>> /\ n = 0
    OBVIOUS
  <2>2. n \in Nat /\ Trail(mem, root, v, n, g)
    BY <1>2, <2>1
  <2>3. 0 \in 0..n
    BY <2>1
  <2>4. QED
    BY ONLY <2>2, <2>3, Zenon DEF Trail
<1>5. QED
  BY <1>3, <1>4

(* One index more: one entry of the table found so far.                     *)
LEMMA WalkStep ==
    ASSUME NEW mem, NEW root, NEW t \in Seq(Idx), NEW i \in Idx
    PROVE  Walk(mem, root, Append(t, i)) =
              IF Walk(mem, root, t) \in Frames THEN mem[Walk(mem, root, t)][i]
              ELSE Walk(mem, root, t)
<1>1. PICK u : u = Append(t, i)
  OBVIOUS
<1>2. PICK n : n = Len(t)
  OBVIOUS
<1>3. /\ u \in Seq(Idx) /\ n \in Nat /\ n + 1 \in Nat /\ Len(u) = n + 1 /\ u[n + 1] = i
      /\ \A m \in 1..n : u[m] = t[m]
  BY <1>1, <1>2, AppendFacts
<1>4. PICK g : Trail(mem, root, u, n + 1, g)
  BY <1>3, TrailExists
<1>5. PICK h : Trail(mem, root, t, n, h)
  BY <1>3, TrailExists
<1>6. Walk(mem, root, u) = g[n + 1] /\ Walk(mem, root, t) = h[n]
  <2>1. t \in Seq(Idx) /\ u \in Seq(Idx) /\ Trail(mem, root, u, Len(u), g) /\ Trail(mem, root, t, Len(t), h)
    BY <1>2, <1>3, <1>4, <1>5
  <2>2. Walk(mem, root, u) = g[Len(u)]
    BY ONLY <2>1, WalkIs
  <2>3. Walk(mem, root, t) = h[Len(t)]
    BY ONLY <2>1, WalkIs
  <2>4. QED
    BY <1>2, <1>3, <2>2, <2>3
<1>7. g[n] = h[n]
  <2>1. PICK m : m = n + 1
    OBVIOUS
  <2>2. /\ m \in Nat /\ n \in Nat /\ n <= m /\ n <= n /\ \A l \in 1..n : u[l] = t[l]
        /\ Trail(mem, root, u, m, g) /\ Trail(mem, root, t, n, h)
    BY <1>3, <1>4, <1>5, <2>1
  <2>3. QED
    BY ONLY <2>2, TrailUnique
<1>8. g[n + 1] = (IF g[n] \in Frames THEN mem[g[n]][i] ELSE g[n])
  <2>1. \A l \in 1..(n + 1) : g[l] = (IF g[l - 1] \in Frames THEN mem[g[l - 1]][u[l]] ELSE g[l - 1])
    <3>1. PICK m : m = n + 1
      OBVIOUS
    <3>2. m \in Nat /\ Trail(mem, root, u, m, g)
      BY <1>3, <1>4, <3>1
    <3>3. \A l \in 1..m : g[l] = (IF g[l - 1] \in Frames THEN mem[g[l - 1]][u[l]] ELSE g[l - 1])
      BY ONLY <3>2, TrailFacts
    <3>4. QED
      BY <3>1, <3>3
  <2>2. n + 1 \in 1..(n + 1) /\ (n + 1) - 1 = n
    BY <1>3
  <2>3. QED
    BY <1>3, <2>1, <2>2
<1>9. QED
  BY <1>1, <1>6, <1>7, <1>8

(* The entries the MMU finds along a virtual page, one index after the other. *)
LEMMA WalkUpto ==
    ASSUME NEW mem, NEW root, NEW v \in VPages
    PROVE  \E e : /\ e[0] = root
                  /\ \A n \in 0..LEVELS : e[n] = Walk(mem, root, Upto(v, n))
                  /\ e[LEVELS] = Walk(mem, root, v)
                  /\ \A n \in 0..(LEVELS - 1) :
                        e[n + 1] = IF e[n] \in Frames THEN mem[e[n]][v[n + 1]] ELSE e[n]
<1>1. PICK e : e = [n \in 0..LEVELS |-> Walk(mem, root, Upto(v, n))]
  OBVIOUS
<1>2. \A n \in 0..LEVELS : e[n] = Walk(mem, root, Upto(v, n))
  BY <1>1
<1>3. 0 \in 0..LEVELS /\ LEVELS \in 0..LEVELS
  BY Slots
<1>4. Upto(v, 0) = <<>> /\ Upto(v, LEVELS) = v
  BY <1>3, UptoFacts
<1>5. e[0] = root /\ e[LEVELS] = Walk(mem, root, v)
  BY <1>2, <1>3, <1>4, WalkEmpty
<1>6. ASSUME NEW n \in 0..(LEVELS - 1)
      PROVE  e[n + 1] = IF e[n] \in Frames THEN mem[e[n]][v[n + 1]] ELSE e[n]
  <2>1. n \in 0..LEVELS /\ n < LEVELS /\ n + 1 \in 0..LEVELS /\ v[n + 1] \in Idx
    BY Slots DEF VPages
  <2>2. PICK t, i : t = Upto(v, n) /\ i = v[n + 1]
    OBVIOUS
  <2>3. t \in Seq(Idx) /\ i \in Idx /\ Append(t, i) = Upto(v, n + 1)
    BY <2>1, <2>2, UptoFacts
  <2>4. Walk(mem, root, Append(t, i)) =
            IF Walk(mem, root, t) \in Frames THEN mem[Walk(mem, root, t)][i] ELSE Walk(mem, root, t)
    BY ONLY <2>3, WalkStep
  <2>5. e[n] = Walk(mem, root, t) /\ e[n + 1] = Walk(mem, root, Append(t, i))
    BY <1>2, <2>1, <2>2, <2>3
  <2>6. QED
    BY ONLY <2>2, <2>4, <2>5
<1>7. QED
  BY <1>2, <1>5, <1>6
-----------------------------------------------------------------------------
(* The entries of a table at a given place. *)
LEMMA DownAt ==
    ASSUME NEW mem, NEW role, Down(mem, role), NEW f \in Frames, NEW i \in Idx,
           NEW o \in Nat, NEW t, role[f] = Owned(o, t), Len(t) + 1 < LEVELS, EntryOf(o, t, i)
    PROVE  LeadsTo(mem[f][i], role, o, Append(t, i)) /\ (o = 0 => mem[f][i] # JUNK)
<1>1. role[f] # Nobodys /\ role[f].of = o /\ role[f].path = t
  BY OwnedFacts
<1>2. /\ role[f] # Nobodys /\ Len(role[f].path) + 1 < LEVELS
      /\ EntryOf(role[f].of, role[f].path, i)
      => /\ LeadsTo(mem[f][i], role, role[f].of, Append(role[f].path, i))
         /\ role[f].of = 0 => mem[f][i] # JUNK
  BY Zenon DEF Down
<1>3. QED
  BY <1>1, <1>2

(* What an entry of a table holds when the forest is exact.                 *)
LEMMA ExactAt ==
    ASSUME NEW mem, NEW role, NEW M, Exact(mem, role, M), NEW f \in Frames, NEW i \in Idx,
           NEW o \in Nat, NEW t, role[f] = Owned(o, t), EntryOf(o, t, i)
    PROVE  IF Len(Append(t, i)) = LEVELS THEN mem[f][i] = M[o][Append(t, i)]
           ELSE /\ mem[f][i] # JUNK
                /\ mem[f][i] = 0 =>
                      \A w \in PagesOf(o) : Under(Append(t, i), w) => M[o][w] = 0
<1>1. role[f] # Nobodys /\ role[f].of = o /\ role[f].path = t
  BY OwnedFacts
<1>2. role[f] # Nobodys /\ EntryOf(role[f].of, role[f].path, i) =>
         IF Len(Append(role[f].path, i)) = LEVELS
         THEN mem[f][i] = M[role[f].of][Append(role[f].path, i)]
         ELSE /\ mem[f][i] # JUNK
              /\ mem[f][i] = 0 =>
                    \A w \in PagesOf(role[f].of) :
                        Under(Append(role[f].path, i), w) => M[role[f].of][w] = 0
  BY Zenon DEF Exact
<1>3. QED
  BY <1>1, <1>2

(* What an entry on the way to virtual page v holds. *)
LEMMA EntryFacts ==
    ASSUME NEW r, NEW role, NEW M, Good(r, role, M), NEW o \in Owners, NEW v \in PagesOf(o),
           NEW n \in 0..(LEVELS - 1), NEW f \in Frames, role[f] = Owned(o, Upto(v, n))
    PROVE  /\ role[f] # Nobodys /\ role[f].of = o /\ role[f].path = Upto(v, n)
           /\ v[n + 1] \in Idx /\ EntryOf(o, Upto(v, n), v[n + 1])
           /\ n + 1 < LEVELS => /\ LeadsTo(r.mem[f][v[n + 1]], role, o, Upto(v, n + 1))
                                /\ o = 0 => r.mem[f][v[n + 1]] # JUNK
           /\ ~r.tainted => IF n + 1 = LEVELS THEN r.mem[f][v[n + 1]] = M[o][v]
                            ELSE /\ r.mem[f][v[n + 1]] # JUNK
                                 /\ r.mem[f][v[n + 1]] = 0 => M[o][v] = 0
<1>1. /\ Down(r.mem, role)
      /\ ~r.tainted => Exact(r.mem, role, M)
  BY DEF Good, Forest
<1>2. o \in Nat /\ v \in VPages /\ v[1] \in Top(o)
  BY Slots DEF Owners, PagesOf, VUser, VKernel, VPages, Top
<1>3. /\ role[f] # Nobodys /\ role[f].of = o /\ role[f].path = Upto(v, n)
  BY <1>2, OwnedFacts
<1>4. n \in 0..LEVELS /\ n < LEVELS /\ n + 1 \in 0..LEVELS /\ v[n + 1] \in Idx
  BY <1>2, Slots DEF VPages
<1>5. /\ Upto(v, n) \in Seq(Idx) /\ Len(Upto(v, n)) = n /\ Upto(v, n + 1) = Append(Upto(v, n), v[n + 1])
      /\ Upto(v, n + 1) \in Seq(Idx) /\ Len(Upto(v, n + 1)) = n + 1
      /\ \A m \in 1..(n + 1) : Upto(v, n + 1)[m] = v[m]
  BY <1>2, <1>4, UptoFacts
<1>6. EntryOf(o, Upto(v, n), v[n + 1])
  <2>1. Upto(v, n) = <<>> => n = 0
    BY <1>5
  <2>2. QED
    BY <1>2, <1>4, <2>1 DEF EntryOf
<1>7. Under(Upto(v, n + 1), v)
  <2>1. Len(v) = LEVELS
    BY <1>2, Slots, LenProperties DEF VPages
  <2>2. QED
    BY <1>4, <1>5, <2>1 DEF Under
<1>8. n + 1 < LEVELS => /\ LeadsTo(r.mem[f][v[n + 1]], role, o, Upto(v, n + 1))
                        /\ o = 0 => r.mem[f][v[n + 1]] # JUNK
  <2>1. SUFFICES ASSUME n + 1 < LEVELS
                 PROVE  /\ LeadsTo(r.mem[f][v[n + 1]], role, o, Upto(v, n + 1))
                        /\ o = 0 => r.mem[f][v[n + 1]] # JUNK
    OBVIOUS
  <2>2. PICK mem, t, i : mem = r.mem /\ t = Upto(v, n) /\ i = v[n + 1]
    OBVIOUS
  <2>3. /\ Down(mem, role) /\ f \in Frames /\ i \in Idx /\ o \in Nat /\ role[f] = Owned(o, t)
        /\ Len(t) + 1 < LEVELS /\ EntryOf(o, t, i)
    <3>1. Down(mem, role)
      BY ONLY <1>1, <2>2, Zenon
    <3>2. EntryOf(o, t, i) /\ i \in Idx /\ role[f] = Owned(o, t)
      BY ONLY <1>4, <1>6, <2>2, role[f] = Owned(o, Upto(v, n)), Zenon
    <3>3. Len(t) + 1 < LEVELS
      BY <1>5, <2>1, <2>2
    <3>4. QED
      BY <1>2, <3>1, <3>2, <3>3
  <2>4. LeadsTo(mem[f][i], role, o, Append(t, i)) /\ (o = 0 => mem[f][i] # JUNK)
    BY ONLY <2>3, DownAt
  <2>5. QED
    BY <1>5, <2>2, <2>4
<1>9. ASSUME ~r.tainted
      PROVE  IF n + 1 = LEVELS THEN r.mem[f][v[n + 1]] = M[o][v]
             ELSE r.mem[f][v[n + 1]] # JUNK /\ (r.mem[f][v[n + 1]] = 0 => M[o][v] = 0)
  <2>1. PICK t, i : t = Upto(v, n + 1) /\ i = v[n + 1]
    OBVIOUS
  <2>2. IF Len(t) = LEVELS THEN r.mem[f][i] = M[o][t]
        ELSE r.mem[f][i] # JUNK /\ (r.mem[f][i] = 0 => \A w \in PagesOf(o) : Under(t, w) => M[o][w] = 0)
    <3>1. PICK mem, u : mem = r.mem /\ u = Upto(v, n)
      OBVIOUS
    <3>2. /\ Exact(mem, role, M) /\ f \in Frames /\ i \in Idx /\ o \in Nat /\ role[f] = Owned(o, u)
          /\ EntryOf(o, u, i) /\ t = Append(u, i)
      <4>1. Exact(mem, role, M)
        BY ONLY <1>1, <1>9, <3>1, Zenon
      <4>2. EntryOf(o, u, i) /\ i \in Idx /\ role[f] = Owned(o, u) /\ t = Append(u, i)
        BY ONLY <1>4, <1>5, <1>6, <2>1, <3>1, role[f] = Owned(o, Upto(v, n)), Zenon
      <4>3. QED
        BY <1>2, <4>1, <4>2
    <3>3. IF Len(Append(u, i)) = LEVELS THEN mem[f][i] = M[o][Append(u, i)]
          ELSE /\ mem[f][i] # JUNK
               /\ mem[f][i] = 0 =>
                     \A w \in PagesOf(o) : Under(Append(u, i), w) => M[o][w] = 0
      BY ONLY <3>2, ExactAt
    <3>4. QED
      BY ONLY <3>1, <3>2, <3>3
  <2>3. n + 1 = LEVELS => t = v
    BY <1>2, <1>4, <2>1, UptoFacts
  <2>4. Len(t) = n + 1 /\ Under(t, v)
    BY <1>5, <1>7, <2>1
  <2>5. QED
    BY <2>1, <2>2, <2>3, <2>4
<1>10. QED
  BY <1>3, <1>4, <1>6, <1>8, <1>9

(* The kernel's pages are found from every top level as from its own. *)
LEMMA RootFacts ==
    ASSUME NEW r, NEW role, NEW M, Good(r, role, M), NEW o \in Owners, NEW v \in PagesOf(o),
           NEW root \in Frames, role[root] # Nobodys, role[root].path = <<>>,
           o = 0 \/ role[root].of = o
    PROVE  \E top \in Frames : role[top] = Owned(o, Upto(v, 0)) /\ r.mem[root][v[1]] = r.mem[top][v[1]]
<1>1. role \in RoleSet /\ RolesOK(role, r.used) /\ TopLevel(r.mem, role)
  BY DEF Good, Forest
<1>2. v \in VPages /\ v[1] \in Top(o)
  BY DEF PagesOf, VUser, VKernel, VPages, Top
<1>3. Upto(v, 0) = <<>>
  BY <1>2, Slots, UptoFacts
<1>4. CASE o = 0
  <2>1. role[1] = Owned(0, <<>>) /\ r.mem[root][KERNEL] = r.mem[1][KERNEL]
    BY <1>1 DEF TopLevel
  <2>2. v[1] = KERNEL
    BY <1>2, <1>4 DEF Top
  <2>3. QED
    BY <1>3, <1>4, <2>1, <2>2, Slots
<1>5. CASE role[root].of = o
  BY <1>1, <1>3, <1>5, RoleFacts
<1>6. QED
  BY <1>4, <1>5

(* A walk goes through the tables of the owner, to what is mapped.            *)
LEMMA WalkFinds ==
    ASSUME NEW r, NEW role, NEW M, Good(r, role, M), NEW o \in Owners, NEW v \in PagesOf(o),
           NEW root \in Frames, role[root] # Nobodys, role[root].path = <<>>,
           o = 0 \/ role[root].of = o
    PROVE  /\ \A n \in 1..(LEVELS - 1) :
                 LET e == Walk(r.mem, root, Upto(v, n))
                 IN  /\ LeadsTo(e, role, o, Upto(v, n))
                     /\ o = 0 => e # JUNK
                     /\ ~r.tainted => e # JUNK /\ (e = 0 => M[o][v] = 0)
           /\ ~r.tainted => Walk(r.mem, root, v) = M[o][v]
<1>0. v \in VPages
  BY DEF PagesOf, VUser, VKernel, VPages
<1>1. PICK e : /\ e[0] = root
               /\ \A n \in 0..LEVELS : e[n] = Walk(r.mem, root, Upto(v, n))
               /\ e[LEVELS] = Walk(r.mem, root, v)
               /\ \A n \in 0..(LEVELS - 1) :
                     e[n + 1] = IF e[n] \in Frames THEN r.mem[e[n]][v[n + 1]] ELSE e[n]
  BY ONLY <1>0, WalkUpto
<1> DEFINE Fine(n) == /\ LeadsTo(e[n], role, o, Upto(v, n))
                      /\ o = 0 => e[n] # JUNK
                      /\ ~r.tainted => e[n] # JUNK /\ (e[n] = 0 => M[o][v] = 0)
<1>2. PICK top \in Frames : role[top] = Owned(o, Upto(v, 0)) /\ r.mem[root][v[1]] = r.mem[top][v[1]]
  BY RootFacts
<1>4. e[1] = r.mem[top][v[1]]
  <2>1. 0 \in 0..(LEVELS - 1) /\ 0 + 1 = 1
    BY Slots
  <2>2. e[1] = r.mem[root][v[1]]
    BY <1>1, <2>1
  <2>3. QED
    BY <1>2, <2>2
<1>5. 0 \notin Frames /\ JUNK \notin Frames /\ LEVELS \in Nat /\ LEVELS > 1
  BY Slots
<1>6. Fine(1)
  <2>1. 0 \in 0..(LEVELS - 1) /\ 0 + 1 = 1 /\ 1 < LEVELS /\ 1 # LEVELS
    BY <1>5
  <2>2. /\ LeadsTo(r.mem[top][v[0 + 1]], role, o, Upto(v, 0 + 1))
        /\ o = 0 => r.mem[top][v[0 + 1]] # JUNK
        /\ ~r.tainted => r.mem[top][v[0 + 1]] # JUNK /\ (r.mem[top][v[0 + 1]] = 0 => M[o][v] = 0)
    BY <1>2, <2>1, EntryFacts
  <2>3. QED
    BY <1>4, <2>1, <2>2
<1>7. ASSUME NEW n \in 1..(LEVELS - 1), Fine(n)
      PROVE  /\ n + 1 < LEVELS => Fine(n + 1)
             /\ n + 1 = LEVELS /\ ~r.tainted => e[n + 1] = M[o][v]
  <2>1. n \in 0..(LEVELS - 1) /\ n \in Nat
    BY <1>5
  <2>2. CASE e[n] \in Frames
    <3>1. role[e[n]] = Owned(o, Upto(v, n))
      BY <1>5, <1>7, <2>2 DEF LeadsTo
    <3>2. e[n + 1] = r.mem[e[n]][v[n + 1]]
      BY <1>1, <2>1, <2>2
    <3>3. PICK f \in Frames : f = e[n]
      BY <2>2
    <3>4. /\ n + 1 < LEVELS => /\ LeadsTo(r.mem[f][v[n + 1]], role, o, Upto(v, n + 1))
                               /\ o = 0 => r.mem[f][v[n + 1]] # JUNK
          /\ ~r.tainted => IF n + 1 = LEVELS THEN r.mem[f][v[n + 1]] = M[o][v]
                           ELSE /\ r.mem[f][v[n + 1]] # JUNK
                                /\ r.mem[f][v[n + 1]] = 0 => M[o][v] = 0
      BY <2>1, <3>1, <3>3, EntryFacts
    <3>5. n + 1 < LEVELS => n + 1 # LEVELS
      BY <1>5, <2>1
    <3>6. QED
      BY <3>2, <3>3, <3>4, <3>5
  <2>3. CASE e[n] \notin Frames
    <3>1. e[n + 1] = e[n] /\ e[n] \in {0, JUNK}
      BY <1>1, <1>7, <2>1, <2>3 DEF LeadsTo
    <3>2. ~r.tainted => e[n] = 0 /\ M[o][v] = 0
      BY <1>7, <3>1
    <3>3. QED
      BY <1>7, <3>1, <3>2 DEF LeadsTo
  <2>4. QED
    BY <2>2, <2>3
<1>8. \A n \in 1..(LEVELS - 1) : Fine(n)
  <2>1. PICK Bad : Bad = {n \in 1..(LEVELS - 1) : ~Fine(n)}
    OBVIOUS
  <2>2. SUFFICES ASSUME Bad # {} PROVE FALSE
    BY <2>1
  <2>3. PICK b \in Bad : \A k \in Bad : b <= k
    <3>1. Bad \in SUBSET Nat
      BY <2>1
    <3>2. QED
      BY <2>2, <3>1, Least
  <2>4. b \in 1..(LEVELS - 1) /\ ~Fine(b)
    BY <2>1
  <2>5. b # 1
    BY <1>6, <2>4
  <2>6. PICK c : c = b - 1
    OBVIOUS
  <2>7. c \in 1..(LEVELS - 1) /\ c + 1 = b /\ c + 1 < LEVELS /\ c \notin Bad
    BY <1>5, <2>3, <2>4, <2>5, <2>6
  <2>8. Fine(c)
    BY <2>1, <2>7
  <2>9. Fine(b)
    BY <1>7, <2>7, <2>8
  <2>10. QED
    BY <2>4, <2>9
<1>9. ~r.tainted => Walk(r.mem, root, v) = M[o][v]
  <2>1. PICK n : n = LEVELS - 1
    OBVIOUS
  <2>2. n \in 1..(LEVELS - 1) /\ n + 1 = LEVELS
    BY <1>5, <2>1
  <2>3. QED
    BY <1>1, <1>7, <1>8, <2>2
<1>10. QED
  <2>1. \A n \in 1..(LEVELS - 1) : e[n] = Walk(r.mem, root, Upto(v, n))
    BY <1>1, <1>5
  <2>2. QED
    BY <1>8, <1>9, <2>1
-----------------------------------------------------------------------------
(* Tables may be added for owner o, none is taken away. *)
Grown(role, role2, o, used) ==
    \A f \in Frames :
        /\ role[f] # Nobodys => role2[f] = role[f]
        /\ role[f] = Nobodys /\ role2[f] # Nobodys =>
              f > used /\ role2[f].of = o /\ role2[f].path # <<>>

(* The kernel's first table is there; no other top level is. *)
HasKernel(role) == \E g \in Frames : role[g] = Owned(0, Append(<<>>, KERNEL))
OnlyKernel(role) == \A g \in Frames : role[g] # Nobodys /\ role[g].path = <<>> => g = 1

(* Where map_page is after its turn n: the table it made is still to be cleared. *)
Zeroed(w) == IF w.fresh THEN ZeroOut(w.r, w.at) ELSE w.r
Turned(w, n, r, root, role, M, o, v, role2) ==
    /\ w.r \in Rams /\ w.fresh \in BOOLEAN /\ w.at \in Frames
    /\ Good(Zeroed(w), role2, M) /\ role2[w.at] = Owned(o, Upto(v, n))
    /\ Grown(role, role2, o, r.used)
    /\ r.used <= w.r.used /\ w.r.used <= r.used + n
    /\ w.r.kvirt = r.kvirt /\ w.r.kmapped = r.kmapped /\ w.r.tainted = r.tainted
    /\ w.fresh => w.r.mem[w.at] = Found(w.at)
    /\ ~w.fresh => w.r = r /\ role2 = role /\ w.at = Walk(r.mem, root, Upto(v, n))

(* A cleared frame that becomes the table at the entry i of f, which was 0. *)
LEMMA NewBelow ==
    ASSUME NEW r, NEW role, NEW M, Good(r, role, M), r.used < MaxFrames,
           NEW o \in Owners, NEW v \in PagesOf(o), NEW n \in 0..(LEVELS - 1), n + 1 < LEVELS,
           NEW f \in Frames, role[f] = Owned(o, Upto(v, n)), r.mem[f][v[n + 1]] = 0,
           o = 0 /\ n = 0 => OnlyKernel(role)
    PROVE  LET i == v[n + 1]
               r1 == NewTable(r, f, i)
               role1 == Added1(r, role, f, i)
           IN  /\ r1 \in Rams /\ r.used + 1 \in Frames
               /\ Good(ZeroOut(r1, r.used + 1), role1, M)
               /\ role1[r.used + 1] = Owned(o, Upto(v, n + 1))
               /\ Grown(role, role1, o, r.used)
               /\ r1.mem[r.used + 1] = Found(r.used + 1)
<1>0. PICK i : i = v[n + 1]
  OBVIOUS
<1> DEFINE r1 == NewTable(r, f, i)
           role1 == Added1(r, role, f, i)
           r2 == ZeroOut(r1, r.used + 1)
<1>1. /\ r \in Rams /\ r.used \in Nat /\ r.used + 1 \in Frames /\ role \in RoleSet
      /\ RolesOK(role, r.used) /\ Fresh(r.mem, r.used)
  <2>1. r \in Rams /\ role \in RoleSet /\ Forest(r.mem, r.used, role)
    BY DEF Good
  <2>2. r.used \in Nat
    BY <2>1 DEF Rams
  <2>3. QED
    BY <2>1, <2>2, Slots DEF Frames, Forest
<1>2. /\ role[f] # Nobodys /\ role[f].of = o /\ role[f].path = Upto(v, n)
      /\ i \in Idx /\ EntryOf(o, Upto(v, n), i)
  BY <1>0, EntryFacts
<1>3. /\ Upto(v, n) \in Seq(Idx) /\ Len(Upto(v, n)) = n /\ Append(Upto(v, n), i) = Upto(v, n + 1)
      /\ Append(Upto(v, n), i) # <<>>
  <2>1. v \in VPages /\ n \in 0..LEVELS /\ n < LEVELS
    BY Slots DEF PagesOf, VUser, VKernel, VPages
  <2>2. Upto(v, n) \in Seq(Idx) /\ Len(Upto(v, n)) = n /\ Append(Upto(v, n), i) = Upto(v, n + 1)
    BY <1>0, <2>1, UptoFacts
  <2>3. QED
    BY <1>2, <2>2, AppendFacts
<1>4. /\ r1 \in Rams /\ r1.used = r.used + 1 /\ r1.tainted = r.tainted
      /\ \A g \in Frames, j \in Idx :
            r1.mem[g][j] = IF g = f /\ j = i THEN r.used + 1 ELSE r.mem[g][j]
  <2>1. r \in Rams /\ f \in Frames /\ i \in Idx
    BY <1>1, <1>2
  <2>2. QED
    BY ONLY <2>1, NewTableFacts
<1>5. /\ r2 \in Rams /\ r2.used = r.used + 1 /\ r2.tainted = r.tainted
      /\ \A g \in Frames, j \in Idx : r2.mem[g][j] = IF g = r.used + 1 THEN 0 ELSE r1.mem[g][j]
  BY <1>1, <1>4, ZeroOutFacts
<1>6. \A g \in Frames, j \in Idx :
         r2.mem[g][j] = IF g = r.used + 1 THEN 0
                        ELSE IF g = f /\ j = i THEN r.used + 1 ELSE r.mem[g][j]
  BY <1>4, <1>5
<1>7. role[f] = Owned(0, <<>>) =>
          \A g \in Frames : role[g] # Nobodys /\ role[g].path = <<>> => g = 1
  <2>1. SUFFICES ASSUME role[f] = Owned(0, <<>>) PROVE OnlyKernel(role)
    BY DEF OnlyKernel
  <2>2. o = 0 /\ Upto(v, n) = <<>>
    BY <1>2, <2>1, OwnedFacts
  <2>3. n = 0
    BY <1>3, <2>2
  <2>4. QED
    BY <2>2, <2>3
<1> HIDE DEF r1, r2
<1>8. Good(r2, role1, M)
  <2>1. Len(role[f].path) + 1 < LEVELS /\ EntryOf(role[f].of, role[f].path, i) /\ r.mem[f][i] = 0
    BY <1>0, <1>2, <1>3
  <2>2. i \in Idx
    BY <1>2
  <2>3. QED
    <3>1. /\ Good(r, role, M) /\ r.used < MaxFrames /\ f \in Frames /\ role[f] # Nobodys
          /\ r2 \in Rams /\ r2.used = r.used + 1 /\ r2.tainted = r.tainted
      BY <1>2, <1>5
    <3>2. QED
      BY ONLY <1>6, <1>7, <2>1, <2>2, <3>1, TableAdded
<1>9. /\ role1[r.used + 1] = Owned(o, Upto(v, n + 1))
      /\ \A g \in Frames : g # r.used + 1 => role1[g] = role[g]
  BY <1>1, <1>2, <1>3 DEF Added1, RoleSet
<1>10. role[r.used + 1] = Nobodys
  BY <1>1 DEF RolesOK
<1>11. Grown(role, role1, o, r.used)
  <2>1. role1[r.used + 1].of = o /\ role1[r.used + 1].path # <<>>
    BY <1>3, <1>9 DEF Owned
  <2>2. r.used + 1 > r.used
    BY <1>1
  <2>3. QED
    BY <1>9, <1>10, <2>1, <2>2 DEF Grown
<1>12. r1.mem[r.used + 1] = Found(r.used + 1)
  <2>1. f <= r.used
    BY <1>1, <1>2 DEF RolesOK
  <2>2. f # r.used + 1 /\ r.used + 1 > r.used
    BY <1>1, <2>1, Slots
  <2>3. r.mem[r.used + 1] = Found(r.used + 1)
    BY <1>1, <2>2 DEF Fresh
  <2>4. \A j \in Idx : r1.mem[r.used + 1][j] = r.mem[r.used + 1][j]
    BY <1>1, <1>4, <2>2
  <2>5. r1.mem[r.used + 1] \in [Idx -> Int] /\ r.mem[r.used + 1] \in [Idx -> Int]
    BY <1>1, <1>4 DEF Rams
  <2>6. QED
    BY <2>3, <2>4, <2>5
<1>13. QED
  BY <1>0, <1>1, <1>4, <1>8, <1>9, <1>11, <1>12 DEF r1, r2

(* Growth after growth is growth.                                           *)
LEMMA GrownTwice ==
    ASSUME NEW role, NEW role1, NEW role2, NEW o, NEW used \in Nat, NEW used1 \in Nat, used <= used1,
           Grown(role, role1, o, used), Grown(role1, role2, o, used1)
    PROVE  Grown(role, role2, o, used)
<1>1. SUFFICES ASSUME NEW f \in Frames
               PROVE  /\ role[f] # Nobodys => role2[f] = role[f]
                      /\ role[f] = Nobodys /\ role2[f] # Nobodys =>
                            f > used /\ role2[f].of = o /\ role2[f].path # <<>>
  BY DEF Grown
<1>2. /\ role[f] # Nobodys => role1[f] = role[f]
      /\ role[f] = Nobodys /\ role1[f] # Nobodys =>
            f > used /\ role1[f].of = o /\ role1[f].path # <<>>
      /\ role1[f] # Nobodys => role2[f] = role1[f]
      /\ role1[f] = Nobodys /\ role2[f] # Nobodys =>
            f > used1 /\ role2[f].of = o /\ role2[f].path # <<>>
  BY DEF Grown
<1>3. f > used1 => f > used
  BY Slots
<1>4. QED
  BY <1>2, <1>3

(* When tables are added the kernel's own ones are still there.             *)
LEMMA GrownKernel ==
    ASSUME NEW role, NEW role2, NEW o, NEW used, Grown(role, role2, o, used)
    PROVE  /\ OnlyKernel(role) => OnlyKernel(role2)
           /\ HasKernel(role) => HasKernel(role2)
<1>1. ASSUME OnlyKernel(role) PROVE OnlyKernel(role2)
  BY <1>1 DEF OnlyKernel, Grown
<1>2. ASSUME HasKernel(role) PROVE HasKernel(role2)
  <2>1. PICK g \in Frames : role[g] = Owned(0, Append(<<>>, KERNEL))
    BY <1>2 DEF HasKernel
  <2>2. role[g] # Nobodys
    BY <2>1, OwnedFacts
  <2>3. role2[g] = role[g]
    BY <2>2 DEF Grown
  <2>4. QED
    BY <2>1, <2>3 DEF HasKernel
<1>3. QED
  BY <1>1, <1>2

(* One turn of map_page's loop. *)
LEMMA TurnNext ==
    ASSUME NEW r, NEW role, NEW M, Good(r, role, M), r.used + (LEVELS - 1) <= MaxFrames,
           NEW o \in Owners, NEW v \in PagesOf(o), NEW root,
           NEW n \in 0..(LEVELS - 1), n + 1 < LEVELS,
           Walk(r.mem, root, Upto(v, n + 1)) # JUNK,
           o = 0 /\ n = 0 => OnlyKernel(role),
           NEW w, NEW role1, Turned(w, n, r, root, role, M, o, v, role1)
    PROVE  \E role2 : Turned(map_step(w, v[n + 1]), n + 1, r, root, role, M, o, v, role2)
<1>0. PICK i, c, at : i = v[n + 1] /\ c = Zeroed(w) /\ at = w.at
  OBVIOUS
<1>1. /\ w.r \in Rams /\ w.fresh \in BOOLEAN /\ at \in Frames /\ at = w.at
      /\ Good(c, role1, M) /\ role1[at] = Owned(o, Upto(v, n))
      /\ Grown(role, role1, o, r.used)
      /\ r.used <= w.r.used /\ w.r.used <= r.used + n
      /\ w.r.kvirt = r.kvirt /\ w.r.kmapped = r.kmapped /\ w.r.tainted = r.tainted
      /\ w.fresh => w.r.mem[at] = Found(at)
      /\ ~w.fresh => w.r = r /\ role1 = role /\ at = Walk(r.mem, root, Upto(v, n))
  BY <1>0 DEF Turned
<1>2. /\ c \in Rams /\ c.used = w.r.used /\ c.kvirt = r.kvirt /\ c.kmapped = r.kmapped
      /\ c.tainted = r.tainted /\ c.used \in Nat /\ r.used \in Nat
      /\ w.fresh => c.mem[at][i] = 0
      /\ ~w.fresh => c = r
  <2>1. v \in VPages /\ i \in Idx
    <3>1. v \in VPages /\ n + 1 \in 1..LEVELS
      BY Slots DEF PagesOf, VUser, VKernel, VPages
    <3>2. QED
      BY <1>0, <3>1 DEF VPages
  <2>2. c.used \in Nat /\ r.used \in Nat /\ c \in Rams
    BY <1>1 DEF Good, Rams
  <2>3. CASE w.fresh
    <3>1. c = ZeroOut(w.r, at)
      BY <1>0, <2>3 DEF Zeroed
    <3>2. /\ c.used = w.r.used /\ c.kvirt = w.r.kvirt /\ c.kmapped = w.r.kmapped
          /\ c.tainted = w.r.tainted /\ c.mem[at][i] = 0
      BY <1>1, <2>1, <3>1, ZeroOutFacts
    <3>3. QED
      BY <1>1, <2>2, <2>3, <3>2
  <2>4. CASE ~w.fresh
    <3>1. c = w.r
      BY <1>0, <2>4 DEF Zeroed
    <3>2. QED
      BY <1>1, <2>2, <2>4, <3>1
  <2>5. QED
    BY <2>3, <2>4
<1>3. map_step(w, i) =
         IF c.mem[at][i] = 0 THEN [r |-> NewTable(c, at, i), at |-> c.used + 1, fresh |-> TRUE]
         ELSE [r |-> c, at |-> c.mem[at][i], fresh |-> FALSE]
  BY <1>0 DEF map_step, Zeroed
<1>4. CASE c.mem[at][i] = 0
  <2>1. PICK x, r1, t : /\ r1 = NewTable(c, at, i) /\ t = c.used + 1
                        /\ x = [r |-> r1, at |-> t, fresh |-> TRUE]
    OBVIOUS
  <2>2. map_step(w, i) = x /\ x.r = r1 /\ x.at = t /\ x.fresh = TRUE
    BY <1>3, <1>4, <2>1
  <2>3. c.used < MaxFrames
    BY <1>1, <1>2, Slots
  <2>4. o = 0 /\ n = 0 => OnlyKernel(role1)
    BY <1>1, GrownKernel
  <2>5. PICK role2 : role2 = Added1(c, role1, at, i)
    OBVIOUS
  <2>6. /\ r1 \in Rams /\ t \in Frames /\ Good(ZeroOut(r1, t), role2, M)
        /\ role2[t] = Owned(o, Upto(v, n + 1)) /\ Grown(role1, role2, o, c.used)
        /\ r1.mem[t] = Found(t)
    BY <1>0, <1>1, <1>4, <2>1, <2>3, <2>4, <2>5, NewBelow
  <2>7. /\ r1.used = c.used + 1 /\ r1.kvirt = c.kvirt /\ r1.kmapped = c.kmapped
        /\ r1.tainted = c.tainted
    BY <2>1 DEF NewTable
  <2>8. Grown(role, role2, o, r.used)
    BY <1>1, <1>2, <2>6, GrownTwice
  <2>9. Zeroed(x) = ZeroOut(r1, t)
    BY <2>2 DEF Zeroed
  <2>10. r.used <= r1.used /\ r1.used <= r.used + (n + 1)
    BY <1>1, <1>2, <2>7
  <2>11. Turned(x, n + 1, r, root, role, M, o, v, role2)
    BY <1>2, <2>2, <2>6, <2>7, <2>8, <2>9, <2>10 DEF Turned
  <2>12. QED
    BY <1>0, <2>2, <2>11
<1>5. CASE c.mem[at][i] # 0
  <2>1. /\ ~w.fresh /\ c = r /\ role1 = role /\ at = Walk(r.mem, root, Upto(v, n))
        /\ role[at] = Owned(o, Upto(v, n))
    BY <1>1, <1>2, <1>5
  <2>2. PICK e : e = r.mem[at][i]
    OBVIOUS
  <2>3. LeadsTo(e, role, o, Upto(v, n + 1))
    BY <1>0, <1>1, <2>1, <2>2, EntryFacts
  <2>4. e = Walk(r.mem, root, Upto(v, n + 1))
    <3>1. v \in VPages
      BY DEF PagesOf, VUser, VKernel, VPages
    <3>2. PICK g : /\ g[0] = root
                   /\ \A m \in 0..LEVELS : g[m] = Walk(r.mem, root, Upto(v, m))
                   /\ g[LEVELS] = Walk(r.mem, root, v)
                   /\ \A m \in 0..(LEVELS - 1) :
                         g[m + 1] = IF g[m] \in Frames THEN r.mem[g[m]][v[m + 1]] ELSE g[m]
      BY ONLY <3>1, WalkUpto
    <3>3. n \in 0..LEVELS /\ n + 1 \in 0..LEVELS
      BY Slots
    <3>4. g[n] = at /\ g[n + 1] = Walk(r.mem, root, Upto(v, n + 1))
      BY <2>1, <3>2, <3>3
    <3>5. g[n + 1] = r.mem[at][v[n + 1]]
      BY <1>1, <3>2, <3>4
    <3>6. QED
      BY <1>0, <2>2, <3>4, <3>5
  <2>5. e \in Frames /\ role[e] = Owned(o, Upto(v, n + 1))
    BY <1>5, <2>1, <2>2, <2>3, <2>4 DEF LeadsTo
  <2>6. PICK x : x = [r |-> r, at |-> e, fresh |-> FALSE]
    OBVIOUS
  <2>7. map_step(w, i) = x /\ x.r = r /\ x.at = e /\ x.fresh = FALSE
    BY <1>3, <1>5, <2>1, <2>2, <2>6
  <2>8. Zeroed(x) = r
    BY <2>7 DEF Zeroed
  <2>9. r.used <= r.used /\ r.used <= r.used + (n + 1)
    BY <1>2
  <2>10. Turned(x, n + 1, r, root, role, M, o, v, role)
    BY <1>1, <1>2, <2>1, <2>4, <2>5, <2>7, <2>8, <2>9 DEF Turned
  <2>11. QED
    BY <1>0, <2>7, <2>10
<1>6. QED
  BY <1>4, <1>5

(* All turns, from the first table on that is the owner's. *)
LEMMA MapTurns ==
    ASSUME NEW r, NEW role, NEW M, Good(r, role, M), r.used + (LEVELS - 1) <= MaxFrames,
           NEW o \in Owners, NEW v \in PagesOf(o), NEW root,
           \A n \in 1..(LEVELS - 1) : Walk(r.mem, root, Upto(v, n)) # JUNK,
           NEW n0 \in {0, 1}, o = 0 /\ n0 = 0 => OnlyKernel(role),
           NEW g, Turns(r, root, v, LEVELS - 1, g), Turned(g[n0], n0, r, root, role, M, o, v, role)
    PROVE  \E role2 : Turned(g[LEVELS - 1], LEVELS - 1, r, root, role, M, o, v, role2)
<1>1. LEVELS \in Nat /\ LEVELS > 1 /\ LEVELS - 1 \in Nat
  BY Slots
<1>2. \A k \in 1..(LEVELS - 1) : g[k] = map_step(g[k - 1], v[k])
  <2>1. PICK l : l = LEVELS - 1
    OBVIOUS
  <2>2. l \in Nat /\ Turns(r, root, v, l, g)
    BY <1>1, <2>1
  <2>3. \A k \in 1..l : g[k] = map_step(g[k - 1], v[k])
    <3>1. \A k \in 0..l : g[k] = IF k = 0 THEN [r |-> r, at |-> root, fresh |-> FALSE]
                                 ELSE map_step(g[k - 1], v[k])
      BY ONLY <2>2, Zenon DEF Turns
    <3>2. \A k \in 1..l : k \in 0..l /\ k # 0
      BY ONLY <2>2
    <3>3. QED
      BY ONLY <3>1, <3>2, Zenon
  <2>4. QED
    BY <2>1, <2>3
<1>3. PICK Bad : Bad = {n \in n0..(LEVELS - 1) :
                            ~\E role2 : Turned(g[n], n, r, root, role, M, o, v, role2)}
  OBVIOUS
<1>4. SUFFICES ASSUME Bad # {} PROVE FALSE
  <2>1. LEVELS - 1 \in n0..(LEVELS - 1)
    BY <1>1
  <2>2. QED
    BY <1>3, <2>1
<1>5. PICK b \in Bad : \A k \in Bad : b <= k
  <2>1. Bad \in SUBSET Nat
    BY <1>3
  <2>2. QED
    BY <1>4, <2>1, Least
<1>6. b \in n0..(LEVELS - 1) /\ ~\E role2 : Turned(g[b], b, r, root, role, M, o, v, role2)
  BY <1>3
<1>7. b # n0
  BY <1>6
<1>8. PICK n : n = b - 1
  OBVIOUS
<1>9. n \in n0..(LEVELS - 1) /\ n \in 0..(LEVELS - 1) /\ n + 1 = b /\ n + 1 < LEVELS /\ b \in 1..(LEVELS - 1)
  <2>1. b \in Nat /\ b > n0 /\ b <= LEVELS - 1 /\ n0 \in Nat
    BY <1>1, <1>6, <1>7
  <2>2. QED
    BY <1>1, <1>8, <2>1
<1>10. n \notin Bad
  BY <1>1, <1>5, <1>6, <1>9
<1>11. PICK role1 : Turned(g[n], n, r, root, role, M, o, v, role1)
  BY <1>3, <1>9, <1>10
<1>12. g[b] = map_step(g[n], v[n + 1])
  <2>1. g[b] = map_step(g[b - 1], v[b])
    BY <1>2, <1>9
  <2>2. QED
    BY <1>8, <1>9, <2>1
<1>13. \E role2 : Turned(map_step(g[n], v[n + 1]), n + 1, r, root, role, M, o, v, role2)
  <2>1. Walk(r.mem, root, Upto(v, n + 1)) # JUNK
    BY <1>9
  <2>2. o = 0 /\ n = 0 => OnlyKernel(role)
    BY <1>9
  <2>3. PICK w : w = g[n]
    OBVIOUS
  <2>4. Turned(w, n, r, root, role, M, o, v, role1)
    BY <1>11, <2>3
  <2>5. n \in 0..(LEVELS - 1) /\ n + 1 < LEVELS
    BY <1>9
  <2>6. \E role2 : Turned(map_step(w, v[n + 1]), n + 1, r, root, role, M, o, v, role2)
    BY <2>1, <2>2, <2>4, <2>5, TurnNext
  <2>7. QED
    BY <2>3, <2>6
<1>14. QED
  BY <1>6, <1>9, <1>12, <1>13

(* Where the loop may be taken to begin: at the owner's top level, or, for    *)
(* the kernel's pages, at the table that all top levels share.                *)
LEMMA MapBegins ==
    ASSUME NEW r, NEW role, NEW M, Good(r, role, M),
           NEW o \in Owners, NEW v \in PagesOf(o), NEW root \in Frames,
           role[root] # Nobodys, role[root].path = <<>>,
           o # 0 => role[root].of = o,
           o = 0 => HasKernel(role) \/ (OnlyKernel(role) /\ root = 1),
           NEW g, Turns(r, root, v, LEVELS - 1, g)
    PROVE  \E n0 \in {0, 1} : /\ o = 0 /\ n0 = 0 => OnlyKernel(role)
                              /\ Turned(g[n0], n0, r, root, role, M, o, v, role)
<1>1. /\ r \in Rams /\ r.used \in Nat /\ role \in RoleSet /\ RolesOK(role, r.used)
      /\ TopLevel(r.mem, role) /\ PointedTo(r.mem, role)
  BY DEF Good, Forest, Rams
<1>2. v \in VPages /\ LEVELS \in Nat /\ LEVELS > 1
  BY Slots DEF PagesOf, VUser, VKernel, VPages
<1>3. PICK w0 : w0 = [r |-> r, at |-> root, fresh |-> FALSE]
  OBVIOUS
<1>4. g[0] = w0 /\ g[1] = map_step(w0, v[1])
  <2>1. \A k \in 0..(LEVELS - 1) :
            g[k] = IF k = 0 THEN [r |-> r, at |-> root, fresh |-> FALSE] ELSE map_step(g[k - 1], v[k])
    BY Zenon DEF Turns
  <2>2. 0 \in 0..(LEVELS - 1) /\ 1 \in 0..(LEVELS - 1) /\ 1 - 1 = 0
    BY <1>2
  <2>3. g[0] = w0
    BY <1>3, <2>1, <2>2
  <2>4. g[1] = map_step(g[0], v[1])
    <3>1. g[1] = map_step(g[1 - 1], v[1])
      BY <2>1, <2>2
    <3>2. QED
      BY <3>1
  <2>5. QED
    BY <2>3, <2>4
<1>5. PICK e : /\ e[0] = root
               /\ \A n \in 0..LEVELS : e[n] = Walk(r.mem, root, Upto(v, n))
               /\ e[LEVELS] = Walk(r.mem, root, v)
               /\ \A n \in 0..(LEVELS - 1) :
                     e[n + 1] = IF e[n] \in Frames THEN r.mem[e[n]][v[n + 1]] ELSE e[n]
  <2>1. PICK mem : mem = r.mem
    OBVIOUS
  <2>2. \E e : /\ e[0] = root
               /\ \A n \in 0..LEVELS : e[n] = Walk(mem, root, Upto(v, n))
               /\ e[LEVELS] = Walk(mem, root, v)
               /\ \A n \in 0..(LEVELS - 1) :
                     e[n + 1] = IF e[n] \in Frames THEN mem[e[n]][v[n + 1]] ELSE e[n]
    BY ONLY <1>2, WalkUpto
  <2>3. QED
    BY <2>1, <2>2
<1>6. Grown(role, role, o, r.used)
  BY DEF Grown
<1>7. Upto(v, 0) = <<>>
  BY <1>2, UptoFacts
<1>8. ASSUME role[root] = Owned(o, <<>>), o = 0 => OnlyKernel(role)
      PROVE  \E n0 \in {0, 1} : /\ o = 0 /\ n0 = 0 => OnlyKernel(role)
                                /\ Turned(g[n0], n0, r, root, role, M, o, v, role)
  <2>1. w0.r = r /\ w0.at = root /\ w0.fresh = FALSE
    BY <1>3
  <2>2. Zeroed(w0) = r
    BY <2>1 DEF Zeroed
  <2>3. root = Walk(r.mem, root, Upto(v, 0))
    <3>1. 0 \in 0..LEVELS
      BY <1>2
    <3>2. QED
      BY <1>5, <3>1
  <2>4. r.used <= r.used /\ r.used <= r.used + 0
    BY <1>1
  <2>5. Turned(w0, 0, r, root, role, M, o, v, role)
    BY <1>1, <1>6, <1>7, <1>8, <2>1, <2>2, <2>3, <2>4 DEF Turned
  <2>6. QED
    BY <1>4, <1>8, <2>5
<1>9. CASE o # 0
  <2>1. role[root] = Owned(o, <<>>)
    BY <1>1, <1>9, RoleFacts
  <2>2. o = 0 => OnlyKernel(role)
    BY <1>9
  <2>3. QED
    BY <1>8, <2>1, <2>2
<1>10. CASE o = 0 /\ OnlyKernel(role) /\ root = 1
  <2>1. role[root] = Owned(0, <<>>)
    BY <1>1, <1>10 DEF TopLevel
  <2>2. QED
    BY <1>8, <1>10, <2>1
<1>11. CASE o = 0 /\ HasKernel(role)
  <2>1. PICK k \in Frames : role[k] = Owned(0, Append(<<>>, KERNEL))
    BY <1>11 DEF HasKernel
  <2>2. role[1] = Owned(0, <<>>) /\ 1 \in Frames /\ KERNEL \in Idx
    BY <1>1, Slots DEF TopLevel
  <2>3. role[1] # Nobodys /\ role[1].of = 0 /\ role[1].path = <<>>
    <3>1. /\ Owned(0, <<>>).of = 0 /\ Owned(0, <<>>).path = <<>>
          /\ Owned(0, <<>>) # Nobodys
      BY OwnedFacts
    <3>2. QED
      BY <2>2, <3>1
  <2>4. r.mem[1][KERNEL] = k
    <3>1. role[k] = Owned(role[1].of, Append(role[1].path, KERNEL))
      BY <2>1, <2>3
    <3>2. QED
      BY <1>1, <2>2, <2>3, <3>1 DEF PointedTo
  <2>5. r.mem[root][KERNEL] = k
    BY <1>1, <2>4 DEF TopLevel
  <2>6. v[1] = KERNEL
    BY <1>11 DEF PagesOf, VKernel
  <2>7. Upto(v, 1) = Append(<<>>, KERNEL)
    <3>1. 0 \in 0..LEVELS /\ 0 < LEVELS /\ 0 + 1 = 1
      BY <1>2
    <3>2. Append(Upto(v, 0), v[0 + 1]) = Upto(v, 0 + 1)
      BY <1>2, <3>1, UptoFacts
    <3>3. QED
      BY <1>7, <2>6, <3>1, <3>2
  <2>8. PICK w1 : w1 = [r |-> r, at |-> k, fresh |-> FALSE]
    OBVIOUS
  <2>9. w1.r = r /\ w1.at = k /\ w1.fresh = FALSE
    BY <2>8
  <2>10. g[1] = w1
    <3>1. w0.r = r /\ w0.at = root /\ w0.fresh = FALSE /\ r.mem[root][v[1]] = k /\ k # 0
      BY <1>3, <2>5, <2>6, Slots
    <3>2. map_step(w0, v[1]) = [r |-> r, at |-> k, fresh |-> FALSE]
      BY <3>1 DEF map_step
    <3>3. QED
      BY <1>4, <2>8, <3>2
  <2>11. Zeroed(w1) = r
    BY <2>9 DEF Zeroed
  <2>12. k = Walk(r.mem, root, Upto(v, 1))
    <3>1. 0 \in 0..(LEVELS - 1) /\ 1 \in 0..LEVELS /\ 0 + 1 = 1
      BY <1>2
    <3>2. e[1] = r.mem[root][v[1]]
      <4>1. e[0 + 1] = IF e[0] \in Frames THEN r.mem[e[0]][v[0 + 1]] ELSE e[0]
        BY <1>5, <3>1
      <4>2. QED
        BY <1>5, <3>1, <4>1
    <3>3. QED
      BY <1>5, <2>5, <2>6, <3>1, <3>2
  <2>13. r.used <= r.used /\ r.used <= r.used + 1
    BY <1>1
  <2>14. role[k] = Owned(o, Upto(v, 1))
    BY <1>11, <2>1, <2>7
  <2>15. Turned(w1, 1, r, root, role, M, o, v, role)
    BY <1>1, <1>6, <2>9, <2>11, <2>12, <2>13, <2>14 DEF Turned
  <2>16. QED
    BY <2>10, <2>15
<1>12. QED
  BY <1>9, <1>10, <1>11

(* What map_page leaves behind: the page is mapped in the last table, which   *)
(* nobody cleared.                                                           *)
LEMMA MapEnds ==
    ASSUME NEW r, NEW root, NEW role, NEW M, NEW o \in Owners, NEW v \in PagesOf(o), NEW frame \in Nat,
           NEW w, NEW role2, Turned(w, LEVELS - 1, r, root, role, M, o, v, role2),
           NEW r2, r2 = [w.r EXCEPT !.mem[w.at][v[LEVELS]] = frame,
                                    !.tainted = @ \/ (w.fresh /\ w.at \in dirty)]
    PROVE  Good(r2, role2, [M EXCEPT ![o][v] = frame])
<1>0. PICK c, at, i : c = Zeroed(w) /\ at = w.at /\ i = v[LEVELS]
  OBVIOUS
<1>1. /\ w.r \in Rams /\ w.fresh \in BOOLEAN /\ at \in Frames /\ Good(c, role2, M)
      /\ role2[at] = Owned(o, Upto(v, LEVELS - 1))
      /\ w.fresh => w.r.mem[at] = Found(at)
  BY <1>0 DEF Turned
<1>2. i \in Idx
  <2>1. v \in VPages /\ LEVELS \in 1..LEVELS
    BY Slots DEF PagesOf, VUser, VKernel, VPages
  <2>2. QED
    BY <1>0, <2>1 DEF VPages
<1>3. /\ w.r.mem \in [Frames -> [Idx -> Int]] /\ frame \in Int /\ w.r.tainted \in BOOLEAN
      /\ DOMAIN w.r = {"mem", "used", "kvirt", "kmapped", "tainted"}
  BY <1>1 DEF Rams
<1>4. PICK mem2 : mem2 = [w.r.mem EXCEPT ![at][i] = frame]
  OBVIOUS
<1>5. /\ mem2 \in [Frames -> [Idx -> Int]]
      /\ \A g \in Frames : g # at => mem2[g] = w.r.mem[g]
      /\ \A j \in Idx : mem2[at][j] = IF j = i THEN frame ELSE w.r.mem[at][j]
  BY <1>1, <1>2, <1>3, <1>4
<1>6. /\ r2.mem = mem2 /\ r2.used = w.r.used
      /\ r2.tainted = (w.r.tainted \/ (w.fresh /\ at \in dirty))
  BY <1>0, <1>1, <1>4 DEF Rams
<1>7. r2 \in Rams
  <2>1. r2 = [w.r EXCEPT !.mem = mem2, !.tainted = (w.r.tainted \/ (w.fresh /\ at \in dirty))]
    BY <1>0, <1>3, <1>4
  <2>2. (w.r.tainted \/ (w.fresh /\ at \in dirty)) \in BOOLEAN
    OBVIOUS
  <2>3. QED
    BY <1>1, <1>5, <2>1, <2>2 DEF Rams
<1>8. /\ c \in Rams /\ c.used = w.r.used /\ c.tainted = w.r.tainted
      /\ w.fresh => \A g \in Frames, j \in Idx : c.mem[g][j] = IF g = at THEN 0 ELSE w.r.mem[g][j]
      /\ ~w.fresh => c = w.r
  <2>1. CASE w.fresh
    <3>1. PICK x : x = w.r
      OBVIOUS
    <3>a. c = ZeroOut(w.r, at)
      BY <1>0, <2>1 DEF Zeroed
    <3>b. c = ZeroOut(x, at)
      BY ONLY <3>1, <3>a
    <3>2. c = ZeroOut(x, at) /\ x \in Rams /\ at \in Frames
      BY <1>1, <3>1, <3>b
    <3>c. x \in Rams /\ at \in Frames
      BY <3>2
    <3>3. /\ ZeroOut(x, at) \in Rams /\ ZeroOut(x, at).used = x.used
          /\ ZeroOut(x, at).tainted = x.tainted
          /\ \A g \in Frames, j \in Idx :
                ZeroOut(x, at).mem[g][j] = IF g = at THEN 0 ELSE x.mem[g][j]
      BY ONLY <3>c, ZeroOutFacts
    <3>4. QED
      BY <2>1, <3>1, <3>2, <3>3
  <2>2. CASE ~w.fresh
    <3>1. c = w.r
      BY <1>0, <2>2 DEF Zeroed
    <3>2. QED
      BY <1>1, <2>2, <3>1
  <2>3. QED
    BY <2>1, <2>2
<1>9. \A g \in Frames : g # at => r2.mem[g] = c.mem[g]
  <2>1. CASE ~w.fresh
    BY <1>5, <1>6, <1>8, <2>1
  <2>2. CASE w.fresh
    <3>1. SUFFICES ASSUME NEW g \in Frames, g # at PROVE r2.mem[g] = c.mem[g]
      OBVIOUS
    <3>2. \A j \in Idx : c.mem[g][j] = w.r.mem[g][j]
      BY <1>8, <2>2, <3>1
    <3>3. c.mem[g] \in [Idx -> Int] /\ w.r.mem[g] \in [Idx -> Int]
      BY <1>3, <1>8 DEF Rams
    <3>4. c.mem[g] = w.r.mem[g]
      BY <3>2, <3>3
    <3>5. QED
      BY <1>5, <1>6, <3>1, <3>4
  <2>3. QED
    BY <1>1, <2>1, <2>2
<1>10. ASSUME ~r2.tainted, NEW j \in Idx
       PROVE  r2.mem[at][j] = IF j = i THEN frame ELSE c.mem[at][j]
  <2>1. c.mem[at][j] = w.r.mem[at][j]
    <3>1. CASE w.fresh
      <4>1. at \notin dirty
        BY <1>6, <1>10, <3>1
      <4>2. w.r.mem[at][j] = 0
        BY <1>1, <3>1, <4>1 DEF Found
      <4>3. QED
        BY <1>1, <1>8, <3>1, <4>2
    <3>2. CASE ~w.fresh
      BY <1>8, <3>2
    <3>3. QED
      BY <1>1, <3>1, <3>2
  <2>2. QED
    BY <1>5, <1>6, <2>1
<1>11. /\ r2.used = c.used
       /\ ~r2.tainted => ~c.tainted
  BY <1>6, <1>8
<1>12. /\ Good(c, role2, M) /\ at \in Frames /\ role2[at] = Owned(o, Upto(v, LEVELS - 1))
       /\ r2 \in Rams /\ o \in Owners /\ v \in PagesOf(o) /\ frame \in Nat
       /\ ~r2.tainted => \A j \in Idx :
               r2.mem[at][j] = IF j = v[LEVELS] THEN frame ELSE c.mem[at][j]
  BY <1>0, <1>1, <1>7, <1>10
<1>13. QED
  BY ONLY <1>9, <1>11, <1>12, PageMapped

(* map_page maps the page and disturbs nothing else.                         *)
ClearWay(mem, root, v) == \A n \in 1..(LEVELS - 1) : Walk(mem, root, Upto(v, n)) # JUNK
MappedTo(M, o, v, frame) == [M EXCEPT ![o][v] = frame]

(* map_page: afterwards v is mapped to frame for o, and nothing else changed. *)
LEMMA MapPage ==
    ASSUME NEW r, NEW role, NEW M, Good(r, role, M), r.used + (LEVELS - 1) <= MaxFrames,
           NEW o \in Owners, NEW v \in PagesOf(o), NEW root \in Frames,
           role[root] # Nobodys, role[root].path = <<>>,
           o # 0 => role[root].of = o,
           o = 0 => HasKernel(role),
           ClearWay(r.mem, root, v),
           NEW frame \in Nat, NEW r2, r2 = map_page(r, root, v, frame)
    PROVE  \E role2 : /\ Good(r2, role2, MappedTo(M, o, v, frame)) /\ Grown(role, role2, o, r.used)
                      /\ r.used <= r2.used /\ r2.used <= r.used + (LEVELS - 1)
                      /\ r2.kvirt = r.kvirt /\ r2.kmapped = r.kmapped
<1> DEFINE turn == CHOOSE t : t = [n \in 0..(LEVELS - 1) |->
                      IF n = 0 THEN [r |-> r, at |-> root, fresh |-> FALSE]
                      ELSE map_step(t[n - 1], v[n])]
           w == turn[LEVELS - 1]
           x2 == [w.r EXCEPT !.mem[w.at][v[LEVELS]] = frame,
                             !.tainted = @ \/ (w.fresh /\ w.at \in dirty)]
<1>1. r2 = x2
  BY DEF map_page
<1>2. Turns(r, root, v, LEVELS - 1, turn)
  <2>1. LEVELS - 1 \in Nat
    BY Slots
  <2>2. \E t : Turns(r, root, v, LEVELS - 1, t)
    BY <2>1, TurnsExist
  <2>3. QED
    BY <2>2, Zenon DEF Turns
<1> HIDE DEF turn
<1>3. PICK n0 \in {0, 1} : /\ o = 0 /\ n0 = 0 => OnlyKernel(role)
                           /\ Turned(turn[n0], n0, r, root, role, M, o, v, role)
  BY <1>2, MapBegins
<1>4. PICK role2 : Turned(w, LEVELS - 1, r, root, role, M, o, v, role2)
  BY <1>2, <1>3, MapTurns DEF ClearWay
<1>5. /\ Grown(role, role2, o, r.used) /\ w.r \in Rams
      /\ r.used <= w.r.used /\ w.r.used <= r.used + (LEVELS - 1)
      /\ w.r.kvirt = r.kvirt /\ w.r.kmapped = r.kmapped
  BY <1>4 DEF Turned
<1>6. r2.used = w.r.used /\ r2.kvirt = w.r.kvirt /\ r2.kmapped = w.r.kmapped
  BY <1>1, <1>5 DEF Rams
<1>7. PICK x, y : x = w /\ y = r2
  OBVIOUS
<1>8. Good(r2, role2, MappedTo(M, o, v, frame))
  <2>1. /\ Turned(x, LEVELS - 1, r, root, role, M, o, v, role2)
        /\ y = [x.r EXCEPT !.mem[x.at][v[LEVELS]] = frame,
                           !.tainted = @ \/ (x.fresh /\ x.at \in dirty)]
    BY <1>1, <1>4, <1>7
  <2>2. Good(y, role2, [M EXCEPT ![o][v] = frame])
    <3>1. o \in Owners /\ v \in PagesOf(o) /\ frame \in Nat
      OBVIOUS
    <3>2. QED
      BY ONLY <2>1, <3>1, MapEnds, Zenon
  <2>3. QED
    BY <1>7, <2>2 DEF MappedTo
<1>9. QED
  BY <1>5, <1>6, <1>8

(* k_map_v clears what map_page would clear a turn later. *)
LEMMA KTurnsAreTurns ==
    ASSUME NEW r, NEW root, NEW v, NEW n \in Nat, NEW g, NEW k,
           Turns(r, root, v, n, g), KTurns(r, root, v, n, k), NEW m \in 0..n
    PROVE  k[m].r = Zeroed(g[m]) /\ k[m].at = g[m].at
<1> DEFINE Same(l) == k[l].r = Zeroed(g[l]) /\ k[l].at = g[l].at
<1>1. /\ \A l \in 0..n : g[l] = IF l = 0 THEN [r |-> r, at |-> root, fresh |-> FALSE]
                               ELSE map_step(g[l - 1], v[l])
      /\ \A l \in 0..n : k[l] = IF l = 0 THEN [r |-> r, at |-> root] ELSE k_map_step(k[l - 1], v[l])
  BY Zenon DEF Turns, KTurns
<1>2. PICK Bad : Bad = {l \in 0..n : ~Same(l)}
  OBVIOUS
<1>3. SUFFICES ASSUME Bad # {} PROVE FALSE
  BY <1>2
<1>4. PICK b \in Bad : \A l \in Bad : b <= l
  <2>1. Bad \in SUBSET Nat
    BY <1>2
  <2>2. QED
    BY <1>3, <2>1, Least
<1>5. b \in 0..n /\ ~Same(b)
  BY <1>2
<1>6. CASE b = 0
  <2>1. 0 \in 0..n
    OBVIOUS
  <2>2. g[0] = [r |-> r, at |-> root, fresh |-> FALSE] /\ k[0] = [r |-> r, at |-> root]
    BY <1>1, <2>1
  <2>3. Same(0)
    BY <2>2 DEF Zeroed
  <2>4. QED
    BY <1>5, <1>6, <2>3
<1>7. CASE b # 0
  <2>1. PICK a, i : a = b - 1 /\ i = v[b]
    OBVIOUS
  <2>2. a \in 0..n /\ a \notin Bad
    BY <1>4, <1>5, <1>7, <2>1
  <2>3. k[a].r = Zeroed(g[a]) /\ k[a].at = g[a].at
    BY <1>2, <2>2
  <2>4. PICK w, x : w = g[a] /\ x = k[a]
    OBVIOUS
  <2>5. g[b] = map_step(w, i) /\ k[b] = k_map_step(x, i)
    BY <1>1, <1>5, <1>7, <2>1, <2>4
  <2>6. PICK c, at : c = Zeroed(w) /\ at = w.at
    OBVIOUS
  <2>7. x.r = c /\ x.at = at
    BY <2>3, <2>4, <2>6
  <2>8. /\ c.mem[at][i] = 0 => map_step(w, i) = [r |-> NewTable(c, at, i), at |-> c.used + 1, fresh |-> TRUE]
        /\ c.mem[at][i] # 0 => map_step(w, i) = [r |-> c, at |-> c.mem[at][i], fresh |-> FALSE]
    BY <2>6 DEF map_step, Zeroed
  <2>9. /\ c.mem[at][i] = 0 =>
              k_map_step(x, i) = [r |-> ZeroOut(NewTable(c, at, i), c.used + 1), at |-> c.used + 1]
        /\ c.mem[at][i] # 0 => k_map_step(x, i) = [r |-> c, at |-> c.mem[at][i]]
    BY <2>7 DEF k_map_step
  <2>10. CASE c.mem[at][i] = 0
    <3>1. PICK t, u : t = NewTable(c, at, i) /\ u = c.used + 1
      OBVIOUS
    <3>2. g[b] = [r |-> t, at |-> u, fresh |-> TRUE]
      BY <2>5, <2>8, <2>10, <3>1
    <3>3. k[b] = [r |-> ZeroOut(t, u), at |-> u]
      BY <2>5, <2>9, <2>10, <3>1
    <3>4. g[b].r = t /\ g[b].at = u /\ g[b].fresh = TRUE /\ k[b].r = ZeroOut(t, u) /\ k[b].at = u
      BY <3>2, <3>3
    <3>5. Same(b)
      BY <3>4 DEF Zeroed
    <3>6. QED
      BY <1>5, <3>5
  <2>11. CASE c.mem[at][i] # 0
    <3>1. g[b] = [r |-> c, at |-> c.mem[at][i], fresh |-> FALSE] /\ k[b] = [r |-> c, at |-> c.mem[at][i]]
      BY <2>5, <2>8, <2>9, <2>11
    <3>2. Same(b)
      BY <3>1 DEF Zeroed
    <3>3. QED
      BY <1>5, <3>2
  <2>12. QED
    BY <2>10, <2>11
<1>8. QED
  BY <1>6, <1>7

(* k_map_v at boot, when only the kernel has tables.                         *)
LEMMA KMapPage ==
    ASSUME NEW r, NEW role, NEW M, Good(r, role, M), r.used + (LEVELS - 1) <= MaxFrames,
           HasKernel(role) \/ OnlyKernel(role), r.kvirt \in 0..(MaxFrames - 1), NEW frame \in Nat
    PROVE  LET v == KernelPages[r.kvirt]
               r2 == k_map_v(r, 1, frame)
           IN  \E role2 : /\ Good(r2, role2, [M EXCEPT ![0][v] = frame])
                          /\ Grown(role, role2, 0, r.used) /\ HasKernel(role2)
                          /\ r.used <= r2.used /\ r2.used <= r.used + (LEVELS - 1)
                          /\ r2.kvirt = r.kvirt + 1 /\ r2.kmapped = Append(r.kmapped, frame)
                          /\ r2.tainted = r.tainted
<1>0. PICK v : v = KernelPages[r.kvirt]
  OBVIOUS
<1> DEFINE turn == CHOOSE t : t = [n \in 0..(LEVELS - 1) |->
                      IF n = 0 THEN [r |-> r, at |-> 1] ELSE k_map_step(t[n - 1], v[n])]
           w == turn[LEVELS - 1]
           r2 == [w.r EXCEPT !.mem[w.at][v[LEVELS]] = frame,
                             !.kvirt = @ + 1, !.kmapped = Append(@, frame)]
<1>1. k_map_v(r, 1, frame) = r2
  BY <1>0 DEF k_map_v
<1>2. LEVELS - 1 \in Nat /\ LEVELS > 1 /\ 0 \in Owners /\ v \in PagesOf(0) /\ LEVELS - 1 \in 0..(LEVELS - 1)
  <2>1. KernelPages \in [0..(MaxFrames - 1) -> VKernel]
    BY KernelAssumption
  <2>2. v \in VKernel
    BY <1>0, <2>1
  <2>3. QED
    BY <2>2, Slots DEF PagesOf, Owners
<1>3. KTurns(r, 1, v, LEVELS - 1, turn)
  <2>1. \E t : KTurns(r, 1, v, LEVELS - 1, t)
    BY <1>2, KTurnsExist
  <2>2. QED
    BY <2>1, Zenon DEF KTurns
<1> HIDE DEF turn
<1>4. PICK g : Turns(r, 1, v, LEVELS - 1, g)
  BY <1>2, TurnsExist
<1>5. /\ r \in Rams /\ role \in RoleSet /\ TopLevel(r.mem, role) /\ RolesOK(role, r.used)
  BY DEF Good, Forest
<1>6. 1 \in Frames /\ role[1] # Nobodys /\ role[1].path = <<>> /\ role[1].of = 0
  BY <1>5, Slots, OwnedFacts DEF TopLevel
<1>7. PICK n0 \in {0, 1} : /\ 0 = 0 /\ n0 = 0 => OnlyKernel(role)
                           /\ Turned(g[n0], n0, r, 1, role, M, 0, v, role)
  <2>1. PICK o, root : o = 0 /\ root = 1
    OBVIOUS
  <2>2. /\ o \in Owners /\ v \in PagesOf(o) /\ root \in Frames
        /\ role[root] # Nobodys /\ role[root].path = <<>>
        /\ o # 0 => role[root].of = o
        /\ o = 0 => HasKernel(role) \/ (OnlyKernel(role) /\ root = 1)
        /\ Turns(r, root, v, LEVELS - 1, g) /\ Good(r, role, M)
    BY <1>2, <1>4, <1>6, <2>1
  <2>3. \E n \in {0, 1} : /\ o = 0 /\ n = 0 => OnlyKernel(role)
                          /\ Turned(g[n], n, r, root, role, M, o, v, role)
    BY ONLY <2>2, MapBegins, Zenon
  <2>4. QED
    BY <2>1, <2>3
<1>8. \A n \in 1..(LEVELS - 1) : Walk(r.mem, 1, Upto(v, n)) # JUNK
  <2>1. PICK o, root : o = 0 /\ root = 1
    OBVIOUS
  <2>2. /\ o \in Owners /\ v \in PagesOf(o) /\ root \in Frames /\ Good(r, role, M)
        /\ role[root] # Nobodys /\ role[root].path = <<>> /\ (o = 0 \/ role[root].of = o)
    BY <1>2, <1>6, <2>1
  <2>3. /\ \A n \in 1..(LEVELS - 1) :
              LET e == Walk(r.mem, root, Upto(v, n))
              IN  /\ LeadsTo(e, role, o, Upto(v, n))
                  /\ o = 0 => e # JUNK
                  /\ ~r.tainted => e # JUNK /\ (e = 0 => M[o][v] = 0)
        /\ ~r.tainted => Walk(r.mem, root, v) = M[o][v]
    BY ONLY <2>2, WalkFinds
  <2>4. QED
    BY <2>1, <2>3
<1>9. PICK role2 : Turned(g[LEVELS - 1], LEVELS - 1, r, 1, role, M, 0, v, role2)
  <2>1. PICK o, root : o = 0 /\ root = 1
    OBVIOUS
  <2>2. /\ Good(r, role, M) /\ r.used + (LEVELS - 1) <= MaxFrames /\ o \in Owners /\ v \in PagesOf(o)
        /\ \A n \in 1..(LEVELS - 1) : Walk(r.mem, root, Upto(v, n)) # JUNK
        /\ n0 \in {0, 1}
        /\ o = 0 /\ n0 = 0 => OnlyKernel(role)
        /\ Turns(r, root, v, LEVELS - 1, g) /\ Turned(g[n0], n0, r, root, role, M, o, v, role)
    BY <1>2, <1>4, <1>7, <1>8, <2>1
  <2>3. \E role2 : Turned(g[LEVELS - 1], LEVELS - 1, r, root, role, M, o, v, role2)
    BY ONLY <2>2, MapTurns, Zenon
  <2>4. QED
    BY <2>1, <2>3
<1>10. w.r = Zeroed(g[LEVELS - 1]) /\ w.at = g[LEVELS - 1].at
  BY <1>2, <1>3, <1>4, KTurnsAreTurns
<1>11. PICK c, at, i : c = w.r /\ at = w.at /\ i = v[LEVELS]
  OBVIOUS
<1>12. /\ Good(c, role2, M) /\ at \in Frames /\ role2[at] = Owned(0, Upto(v, LEVELS - 1))
       /\ Grown(role, role2, 0, r.used)
  BY <1>9, <1>10, <1>11 DEF Turned
<1>13. c.used = g[LEVELS - 1].r.used /\ c.kvirt = g[LEVELS - 1].r.kvirt
       /\ c.kmapped = g[LEVELS - 1].r.kmapped /\ c.tainted = g[LEVELS - 1].r.tainted
  <2>1. PICK x, y : x = g[LEVELS - 1] /\ y = x.r
    OBVIOUS
  <2>2. y \in Rams /\ x.fresh \in BOOLEAN /\ x.at \in Frames /\ c = Zeroed(x)
    BY <1>9, <1>10, <1>11, <2>1 DEF Turned
  <2>3. CASE x.fresh
    <3>1. PICK t : t = x.at
      OBVIOUS
    <3>2. c = ZeroOut(y, t)
      BY <2>1, <2>2, <2>3, <3>1 DEF Zeroed
    <3>3. y \in Rams /\ t \in Frames
      BY <2>2, <3>1
    <3>4. ZeroOut(y, t).used = y.used /\ ZeroOut(y, t).kvirt = y.kvirt
          /\ ZeroOut(y, t).kmapped = y.kmapped /\ ZeroOut(y, t).tainted = y.tainted
      BY ONLY <3>3, ZeroOutFacts
    <3>5. QED
      BY <2>1, <3>2, <3>4
  <2>4. CASE ~x.fresh
    BY <2>1, <2>2, <2>4 DEF Zeroed
  <2>5. QED
    BY <2>3, <2>4
<1>14. /\ r.used <= c.used /\ c.used <= r.used + (LEVELS - 1)
       /\ c.kvirt = r.kvirt /\ c.kmapped = r.kmapped /\ c.tainted = r.tainted
  BY <1>9, <1>13 DEF Turned
<1>15. c \in Rams /\ i \in Idx /\ frame \in Int
  <2>1. v \in VPages /\ LEVELS \in 1..LEVELS
    BY <1>2, Slots DEF PagesOf, VKernel, VPages
  <2>2. QED
    BY <1>11, <1>12, <2>1 DEF Good, VPages
<1>16. PICK mem2 : mem2 = [c.mem EXCEPT ![at][i] = frame]
  OBVIOUS
<1>17. /\ mem2 \in [Frames -> [Idx -> Int]]
       /\ \A f \in Frames : f # at => mem2[f] = c.mem[f]
       /\ \A j \in Idx : mem2[at][j] = IF j = i THEN frame ELSE c.mem[at][j]
  <2>1. c.mem \in [Frames -> [Idx -> Int]]
    BY <1>15 DEF Rams
  <2>2. QED
    BY <1>12, <1>15, <1>16, <2>1
<1>18. r2 = [c EXCEPT !.mem = mem2, !.kvirt = c.kvirt + 1, !.kmapped = Append(c.kmapped, frame)]
  <2>1. DOMAIN c = {"mem", "used", "kvirt", "kmapped", "tainted"}
    BY <1>15 DEF Rams
  <2>2. QED
    BY <1>11, <1>16, <2>1
<1> HIDE DEF r2
<1>19. /\ r2 \in Rams /\ r2.mem = mem2 /\ r2.used = c.used /\ r2.tainted = c.tainted
       /\ r2.kvirt = c.kvirt + 1 /\ r2.kmapped = Append(c.kmapped, frame)
  <2>1. Append(c.kmapped, frame) \in Seq(Int) /\ c.kvirt + 1 \in Nat
    <3>1. c.kmapped \in Seq(Int) /\ c.kvirt \in Nat
      BY <1>15 DEF Rams
    <3>2. QED
      BY <1>15, <3>1
  <2>2. QED
    BY <1>15, <1>17, <1>18, <2>1 DEF Rams
<1>20. Good(r2, role2, [M EXCEPT ![0][v] = frame])
  <2>1. PICK o : o = 0
    OBVIOUS
  <2>2. /\ Good(c, role2, M) /\ o \in Owners /\ v \in PagesOf(o) /\ frame \in Nat
        /\ at \in Frames /\ role2[at] = Owned(o, Upto(v, LEVELS - 1))
        /\ r2 \in Rams /\ r2.used = c.used
        /\ ~r2.tainted => ~c.tainted
        /\ \A f \in Frames : f # at => r2.mem[f] = c.mem[f]
        /\ ~r2.tainted => \A j \in Idx :
               r2.mem[at][j] = IF j = v[LEVELS] THEN frame ELSE c.mem[at][j]
    BY <1>2, <1>11, <1>12, <1>17, <1>19, <2>1
  <2>3. Good(r2, role2, [M EXCEPT ![o][v] = frame])
    BY ONLY <2>2, PageMapped
  <2>4. QED
    BY <2>1, <2>3
<1>21. HasKernel(role2)
  <2>1. PICK u : u = Append(<<>>, KERNEL)
    OBVIOUS
  <2>2. /\ role2 \in RoleSet /\ Above(role2)
    BY <1>12 DEF Good, Forest
  <2>3. v \in VPages /\ v[1] = KERNEL /\ KERNEL \in Idx
    BY <1>2, Slots DEF PagesOf, VKernel, VPages
  <2>4. u \in Seq(Idx) /\ Len(u) = 1 /\ u[1] = KERNEL
    BY <2>1, <2>3
  <2>5. Upto(v, LEVELS - 1) \in Seq(Idx) /\ Len(Upto(v, LEVELS - 1)) = LEVELS - 1
        /\ Upto(v, LEVELS - 1)[1] = KERNEL
    <3>1. LEVELS - 1 \in 0..LEVELS /\ 1 \in 1..(LEVELS - 1)
      BY Slots
    <3>2. QED
      BY <2>3, <3>1, UptoFacts
  <2>6. Under(u, Upto(v, LEVELS - 1))
    BY Slots, <2>4, <2>5 DEF Under
  <2>7. role2[at] # Nobodys /\ role2[at].of = 0 /\ role2[at].path = Upto(v, LEVELS - 1)
    BY <1>12, OwnedFacts
  <2>8. PICK f \in Frames : role2[f] = Owned(0, u)
    BY <1>12, <2>2, <2>4, <2>6, <2>7 DEF Above
  <2>9. QED
    BY <2>1, <2>8 DEF HasKernel
<1>22. QED
  BY <1>0, <1>1, <1>12, <1>14, <1>19, <1>20, <1>21
-----------------------------------------------------------------------------
(* A frame is handed out for something that is no table. *)
LEMMA Bumped ==
    ASSUME NEW r, NEW role, NEW M, Good(r, role, M), r.used < MaxFrames
    PROVE  LET r1 == [r EXCEPT !.used = r.used + 1]
           IN  /\ Good(r1, role, M) /\ r1.used = r.used + 1 /\ r1.mem = r.mem
               /\ r1.kvirt = r.kvirt /\ r1.kmapped = r.kmapped /\ r1.tainted = r.tainted
               /\ r.used + 1 \in Frames /\ role[r.used + 1] = Nobodys
<1> DEFINE r1 == [r EXCEPT !.used = r.used + 1]
<1>1. r \in Rams /\ r.used \in Nat /\ role \in RoleSet /\ RolesOK(role, r.used)
  BY DEF Good, Forest, Rams
<1>2. /\ r1 \in Rams /\ r1.used = r.used + 1 /\ r1.mem = r.mem
      /\ r1.kvirt = r.kvirt /\ r1.kmapped = r.kmapped /\ r1.tainted = r.tainted
  <2>1. PICK n : n = r.used + 1
    OBVIOUS
  <2>2. r1 = [r EXCEPT !.used = n] /\ n \in Nat
    BY <1>1, <2>1
  <2>3. QED
    BY <1>1, <2>1, <2>2 DEF Rams
<1>3. r.used + 1 \in Frames /\ r.used <= r.used + 1 /\ r.used + 1 <= MaxFrames
  BY <1>1, Slots DEF Frames
<1>4. role[r.used + 1] = Nobodys
  <2>1. SUFFICES ASSUME role[r.used + 1] # Nobodys PROVE FALSE
    OBVIOUS
  <2>2. r.used + 1 <= r.used
    BY <1>1, <1>3, <2>1 DEF RolesOK
  <2>3. QED
    BY <1>1, <2>2
<1> HIDE DEF r1
<1>5. Good(r1, role, M)
  <2>1. /\ Good(r, role, M) /\ r1 \in Rams /\ r.used <= r1.used /\ r1.used <= MaxFrames
        /\ ~r1.tainted => ~r.tainted
    BY <1>2, <1>3
  <2>2. /\ \A g \in Frames, j \in Idx :
              role[g] # Nobodys /\ ~(role[g].path = <<>> /\ j = CROSS) => r1.mem[g][j] = r.mem[g][j]
        /\ \A g \in Frames : g > r1.used => r1.mem[g] = r.mem[g]
    BY <1>2
  <2>3. QED
    BY ONLY <2>1, <2>2, GoodKept
<1>6. QED
  BY <1>2, <1>3, <1>4, <1>5 DEF r1

(* What the kernel mapped where, from its first page on. *)
KernelAt(r, M) ==
    /\ r.kvirt = Len(r.kmapped) /\ r.kvirt <= r.used /\ r.kmapped \in Seq(Nat)
    /\ \A k \in 1..r.kvirt : M[0][KernelPages[k - 1]] = r.kmapped[k]

(* The next page of the kernel's is another one than those it mapped. *)
LEMMA KernelMore ==
    ASSUME NEW r, NEW M, IsMap(M), r \in Rams, r.kvirt < MaxFrames,
           KernelAt(r, M), NEW frame \in Nat, NEW r2, r2.kvirt <= r2.used,
           r2.kvirt = r.kvirt + 1, r2.kmapped = Append(r.kmapped, frame)
    PROVE  KernelAt(r2, [M EXCEPT ![0][KernelPages[r.kvirt]] = frame])
<1>1. /\ r.kvirt \in Nat /\ r.kvirt = Len(r.kmapped)
      /\ r.kmapped \in Seq(Nat) /\ \A k \in 1..r.kvirt : M[0][KernelPages[k - 1]] = r.kmapped[k]
  BY DEF Rams, KernelAt
<1>2. r.kvirt \in 0..(MaxFrames - 1)
  BY <1>1, Slots
<1>3. KernelPages[r.kvirt] \in PagesOf(0)
  BY <1>2, KernelAssumption DEF PagesOf
<1>4. KernelAt(r2, [M EXCEPT ![0][KernelPages[r.kvirt]] = frame])
  <2>1. PICK n, s : n = r.kvirt /\ s = r.kmapped
    OBVIOUS
  <2>2. /\ Append(s, frame) \in Seq(Nat) /\ Len(Append(s, frame)) = n + 1
        /\ Append(s, frame)[n + 1] = frame
        /\ \A k \in 1..n : Append(s, frame)[k] = s[k]
    BY <1>1, <2>1
  <2>3. n + 1 <= r2.used
    BY <2>1
  <2>4. 0 \in Owners /\ M[0] \in [PagesOf(0) -> Nat] /\ DOMAIN M = Owners
    BY Slots DEF IsMap, Owners
  <2>5. ASSUME NEW k \in 1..(n + 1)
        PROVE  [M EXCEPT ![0][KernelPages[n]] = frame][0][KernelPages[k - 1]] = Append(s, frame)[k]
    <3>1. CASE k = n + 1
      <4>1. k - 1 = n
        BY <1>1, <2>1, <3>1
      <4>2. [M EXCEPT ![0][KernelPages[n]] = frame][0][KernelPages[n]] = frame
        BY <1>3, <2>1, <2>4
      <4>3. QED
        BY <2>2, <3>1, <4>1, <4>2
    <3>2. CASE k # n + 1
      <4>1. k \in 1..n /\ k - 1 \in 0..(MaxFrames - 1) /\ k - 1 # n /\ n \in 0..(MaxFrames - 1)
        BY <1>1, <1>2, <2>1, <3>2, Slots
      <4>2. KernelPages[k - 1] # KernelPages[n]
        BY <4>1, KernelAssumption
      <4>3. [M EXCEPT ![0][KernelPages[n]] = frame][0][KernelPages[k - 1]] = M[0][KernelPages[k - 1]]
        BY <2>4, <4>2
      <4>4. M[0][KernelPages[k - 1]] = s[k]
        BY <1>1, <2>1, <4>1
      <4>5. QED
        BY <2>2, <4>1, <4>3, <4>4
    <3>3. QED
      BY <3>1, <3>2
  <2>6. QED
    BY <2>1, <2>2, <2>3, <2>5 DEF KernelAt
<1>5. QED
  BY <1>4

(* A new page for the kernel, whoever runs: everybody's pages stay.          *)
LEMMA NewPageV ==
    ASSUME NEW r, NEW role, NEW M, Good(r, role, M), KernelAt(r, M), HasKernel(role),
           r.used + LEVELS <= MaxFrames, NEW root \in Frames, role[root] # Nobodys,
           role[root].path = <<>>
    PROVE  LET r2 == get_new_page_v(r, root)
           IN  \E role2, M2 :
                  /\ Good(r2, role2, M2) /\ KernelAt(r2, M2) /\ HasKernel(role2)
                  /\ Grown(role, role2, 0, r.used)
                  /\ \A o \in Owners : o # 0 => M2[o] = M[o]
                  /\ r.used < r2.used /\ r2.used <= r.used + LEVELS
                  /\ r.used + 1 \in Frames /\ role2[r.used + 1] = Nobodys
<1>1. /\ r \in Rams /\ r.used \in Nat /\ IsMap(M) /\ role \in RoleSet /\ r.used < MaxFrames
      /\ r.used + 1 + (LEVELS - 1) <= MaxFrames /\ 0 \in Owners
  <2>1. r \in Rams /\ r.used \in Nat /\ IsMap(M) /\ role \in RoleSet
    BY DEF Good, Rams
  <2>2. LEVELS \in Nat /\ LEVELS > 1 /\ MaxFrames \in Nat /\ r.used + LEVELS <= MaxFrames
    BY Slots
  <2>3. r.used < MaxFrames /\ r.used + 1 + (LEVELS - 1) <= MaxFrames
    BY ONLY <2>1, <2>2
  <2>4. 0 \in Owners
    BY Slots DEF Owners
  <2>5. QED
    BY <2>1, <2>3, <2>4
<1>2. PICK n, r1, v : n = r.used + 1 /\ r1 = [r EXCEPT !.used = n] /\ v = KernelPages[r.kvirt]
  OBVIOUS
<1>3. /\ Good(r1, role, M) /\ r1.used = n /\ r1.kvirt = r.kvirt /\ r1.kmapped = r.kmapped
      /\ n \in Frames /\ role[n] = Nobodys
  BY <1>1, <1>2, Bumped
<1>4. v \in PagesOf(0)
  <2>1. r.kvirt \in Nat /\ r.kvirt <= r.used
    BY <1>1 DEF KernelAt, Rams
  <2>2. r.kvirt \in 0..(MaxFrames - 1)
    BY <1>1, <2>1, Slots
  <2>3. QED
    BY <1>2, <2>2, KernelAssumption DEF PagesOf
<1>5. PICK r3 : r3 = map_page(r1, root, v, n)
  OBVIOUS
<1>6. PICK role2 : /\ Good(r3, role2, [M EXCEPT ![0][v] = n]) /\ Grown(role, role2, 0, r1.used)
                   /\ r1.used <= r3.used /\ r3.used <= r1.used + (LEVELS - 1)
                   /\ r3.kvirt = r1.kvirt /\ r3.kmapped = r1.kmapped
  <2>1. PICK o : o = 0
    OBVIOUS
  <2>2. /\ Good(r1, role, M) /\ r1.used + (LEVELS - 1) <= MaxFrames /\ o \in Owners /\ v \in PagesOf(o)
        /\ root \in Frames /\ role[root] # Nobodys /\ role[root].path = <<>>
        /\ o # 0 => role[root].of = o
        /\ o = 0 => HasKernel(role)
        /\ n \in Nat
    BY <1>1, <1>2, <1>3, <1>4, <2>1
  <2>3. /\ \A m \in 1..(LEVELS - 1) :
              LET e == Walk(r1.mem, root, Upto(v, m))
              IN  /\ LeadsTo(e, role, o, Upto(v, m))
                  /\ o = 0 => e # JUNK
                  /\ ~r1.tainted => e # JUNK /\ (e = 0 => M[o][v] = 0)
        /\ ~r1.tainted => Walk(r1.mem, root, v) = M[o][v]
    <3>1. o = 0 \/ role[root].of = o
      BY <2>1
    <3>2. QED
      BY ONLY <2>2, <3>1, WalkFinds
  <2>4. \A m \in 1..(LEVELS - 1) : Walk(r1.mem, root, Upto(v, m)) # JUNK
    BY <2>1, <2>3
  <2>5. ClearWay(r1.mem, root, v)
    BY <2>4 DEF ClearWay
  <2>6. \E rl2 : /\ Good(r3, rl2, MappedTo(M, o, v, n)) /\ Grown(role, rl2, o, r1.used)
                 /\ r1.used <= r3.used /\ r3.used <= r1.used + (LEVELS - 1)
                 /\ r3.kvirt = r1.kvirt /\ r3.kmapped = r1.kmapped
    BY ONLY <1>5, <2>2, <2>5, MapPage
  <2>7. QED
    BY <2>1, <2>6 DEF MappedTo
<1>7. PICK r2 : r2 = [r3 EXCEPT !.kvirt = @ + 1, !.kmapped = Append(@, n)]
  OBVIOUS
<1>8. get_new_page_v(r, root) = r2
  BY <1>2, <1>5, <1>7 DEF get_new_page_v
<1>9. /\ r2 \in Rams /\ r2.mem = r3.mem /\ r2.used = r3.used /\ r2.tainted = r3.tainted
      /\ r2.kvirt = r.kvirt + 1 /\ r2.kmapped = Append(r.kmapped, n) /\ r2.used \in Nat
  <2>1. r3 \in Rams /\ n \in Int
    BY <1>1, <1>2, <1>6 DEF Good
  <2>2. PICK k, s : k = r3.kvirt /\ s = r3.kmapped
    OBVIOUS
  <2>3. k \in Nat /\ s \in Seq(Int)
    BY <2>1, <2>2 DEF Rams
  <2>4. k + 1 \in Nat /\ Append(s, n) \in Seq(Int)
    BY <2>1, <2>3
  <2>5. r2 = [r3 EXCEPT !.kvirt = k + 1, !.kmapped = Append(s, n)]
    BY <1>7, <2>1, <2>2 DEF Rams
  <2>6. /\ r2 \in Rams /\ r2.mem = r3.mem /\ r2.used = r3.used /\ r2.tainted = r3.tainted
        /\ r2.kvirt = k + 1 /\ r2.kmapped = Append(s, n) /\ r2.used \in Nat
    BY <2>1, <2>4, <2>5 DEF Rams
  <2>7. QED
    BY <1>3, <1>6, <2>2, <2>6
<1>10. PICK M2 : M2 = [M EXCEPT ![0][v] = n]
  OBVIOUS
<1>11. Good(r2, role2, M2)
  <2>1. Good(r3, role2, M2)
    BY <1>6, <1>10
  <2>2. QED
    BY <1>9, <2>1 DEF Good
<1>12. r.used < r2.used /\ r2.used <= r.used + LEVELS
  <2>1. /\ r.used \in Nat /\ r2.used \in Nat /\ LEVELS \in Nat /\ n = r.used + 1
        /\ n <= r2.used /\ r2.used <= n + (LEVELS - 1)
    BY <1>1, <1>2, <1>3, <1>6, <1>9, Slots
  <2>2. QED
    BY ONLY <2>1
<1>13. KernelAt(r2, M2)
  <2>1. r.kvirt \in Nat /\ r.kvirt <= r.used
    BY <1>1 DEF KernelAt, Rams
  <2>b. /\ r.used \in Nat /\ r2.used \in Nat /\ MaxFrames \in Nat /\ r.used < MaxFrames
        /\ r2.kvirt = r.kvirt + 1 /\ r.used < r2.used
    BY <1>1, <1>9, <1>12, Slots
  <2>a. r2.kvirt <= r2.used /\ r.kvirt < MaxFrames
    BY ONLY <2>1, <2>b
  <2>2. KernelAt(r2, [M EXCEPT ![0][KernelPages[r.kvirt]] = n])
    BY <1>1, <1>3, <1>9, <2>a, Slots, KernelMore
  <2>3. QED
    BY <1>2, <1>10, <2>2
<1>14. Grown(role, role2, 0, r.used) /\ role2[n] = Nobodys
  <2>1. /\ Grown(role, role, 0, r.used) /\ r.used <= n /\ n \in Nat
    BY <1>1, <1>2 DEF Grown
  <2>2. Grown(role, role2, 0, n)
    BY <1>3, <1>6
  <2>3. role2[n] = Nobodys
    BY <1>2, <1>3, <2>1, <2>2 DEF Grown
  <2>4. QED
    BY <1>1, <2>1, <2>2, <2>3, GrownTwice
<1>15. HasKernel(role2)
  BY <1>14, GrownKernel
<1>16. \A o \in Owners : o # 0 => M2[o] = M[o]
  BY <1>1, <1>10 DEF IsMap
<1>17. QED
  BY <1>2, <1>3, <1>8, <1>11, <1>12, <1>13, <1>14, <1>15, <1>16

(* A new top level, not yet anybody's: a copy of the one that is active.      *)
LEMMA NewPageTable ==
    ASSUME NEW r, NEW role, NEW M, Good(r, role, M), KernelAt(r, M), HasKernel(role),
           r.used + LEVELS <= MaxFrames, NEW root \in Frames, role[root] # Nobodys,
           role[root].path = <<>>
    PROVE  LET r2 == get_new_page_table(r, root)
               n == r.used + 1
           IN  \E role2, M2 :
                  /\ Good(r2, role2, M2) /\ KernelAt(r2, M2) /\ HasKernel(role2)
                  /\ Grown(role, role2, 0, r.used)
                  /\ \A o \in Owners : o # 0 => M2[o] = M[o]
                  /\ r.used < r2.used /\ r2.used <= r.used + LEVELS
                  /\ n \in Frames /\ role2[n] = Nobodys
                  /\ r2.mem[n][SELF] = n
                  /\ \A i \in Idx : i # SELF => r2.mem[n][i] = r2.mem[root][i]
<1>1. PICK w, n : w = get_new_page_v(r, root) /\ n = r.used + 1
  OBVIOUS
<1>2. PICK role2, M2 : /\ Good(w, role2, M2) /\ KernelAt(w, M2) /\ HasKernel(role2)
                       /\ Grown(role, role2, 0, r.used)
                       /\ \A o \in Owners : o # 0 => M2[o] = M[o]
                       /\ r.used < w.used /\ w.used <= r.used + LEVELS
                       /\ n \in Frames /\ role2[n] = Nobodys
  BY <1>1, NewPageV
<1>3. /\ w \in Rams /\ w.used \in Nat /\ r.used \in Nat /\ w.used <= MaxFrames
      /\ w.mem \in [Frames -> [Idx -> Int]]
  BY <1>2 DEF Good, Rams
<1>4. root # n /\ n <= w.used /\ SELF \in Idx /\ n \in Int
  <2>1. role2[root] # Nobodys /\ role2[n] = Nobodys
    BY <1>2 DEF Grown
  <2>2. root # n
    BY <2>1
  <2>3. n <= w.used
    BY <1>1, <1>2, <1>3
  <2>4. n \in Int
    BY <1>2, Slots
  <2>5. SELF \in Idx
    BY Slots
  <2>6. QED
    BY <2>2, <2>3, <2>4, <2>5
<1>5. PICK row : row = [w.mem[root] EXCEPT ![SELF] = n]
  OBVIOUS
<1>6. /\ row \in [Idx -> Int] /\ row[SELF] = n
      /\ \A i \in Idx : i # SELF => row[i] = w.mem[root][i]
  BY <1>3, <1>4, <1>5
<1>7. PICK r2 : r2 = get_new_page_table(r, root)
  OBVIOUS
<1>8. r2 = [w EXCEPT !.mem = [w.mem EXCEPT ![n] = row]]
  <2>1. PICK c : c = copy_kernel_pml4(w, n, root)
    OBVIOUS
  <2>2. PICK m1 : m1 = [w.mem EXCEPT ![n] = w.mem[root]]
    OBVIOUS
  <2>3. c = [w EXCEPT !.mem = m1] /\ c.mem = m1 /\ m1[n] = w.mem[root]
    BY <1>2, <1>3, <2>1, <2>2 DEF copy_kernel_pml4, Rams
  <2>4. r2 = [c EXCEPT !.mem[n][SELF] = n]
    BY <1>1, <1>7, <2>1 DEF get_new_page_table
  <2>5. r2 = [c EXCEPT !.mem = [m1 EXCEPT ![n] = [m1[n] EXCEPT ![SELF] = n]]]
    BY <2>3, <2>4
  <2>6. [m1 EXCEPT ![n] = [m1[n] EXCEPT ![SELF] = n]] = [w.mem EXCEPT ![n] = row]
    BY <1>2, <1>3, <1>5, <2>2, <2>3
  <2>7. r2 = [c EXCEPT !.mem = [w.mem EXCEPT ![n] = row]]
    BY ONLY <2>5, <2>6
  <2>8. QED
    BY <1>3, <2>3, <2>7 DEF Rams
<1>9. PICK mem2 : mem2 = [w.mem EXCEPT ![n] = row]
  OBVIOUS
<1>10. /\ mem2 \in [Frames -> [Idx -> Int]] /\ mem2[n] = row
       /\ \A g \in Frames : g # n => mem2[g] = w.mem[g]
  BY <1>2, <1>3, <1>6, <1>9
<1>11. /\ r2 \in Rams /\ r2.mem = mem2 /\ r2.used = w.used /\ r2.kvirt = w.kvirt
       /\ r2.kmapped = w.kmapped /\ r2.tainted = w.tainted
  <2>1. r2 = [w EXCEPT !.mem = mem2]
    BY <1>8, <1>9
  <2>2. QED
    BY <1>3, <1>10, <2>1 DEF Rams
<1>12. Good(r2, role2, M2)
  <2>1. /\ Good(w, role2, M2) /\ r2 \in Rams /\ w.used <= r2.used /\ r2.used <= MaxFrames
        /\ ~r2.tainted => ~w.tainted
    BY <1>2, <1>3, <1>11
  <2>2. \A g \in Frames, j \in Idx :
           role2[g] # Nobodys /\ ~(role2[g].path = <<>> /\ j = CROSS) => r2.mem[g][j] = w.mem[g][j]
    BY <1>2, <1>10, <1>11
  <2>3. \A g \in Frames : g > r2.used => r2.mem[g] = w.mem[g]
    <3>1. \A g \in Frames : g > w.used => g # n
      BY <1>2, <1>3, <1>4, Slots
    <3>2. QED
      BY <1>10, <1>11, <3>1
  <2>4. QED
    BY ONLY <2>1, <2>2, <2>3, GoodKept
<1>13. KernelAt(r2, M2)
  BY <1>2, <1>11 DEF KernelAt
<1>14. r2.mem[n][SELF] = n /\ \A i \in Idx : i # SELF => r2.mem[n][i] = r2.mem[root][i]
  BY <1>4, <1>6, <1>10, <1>11
<1>15. QED
  BY <1>1, <1>2, <1>7, <1>11, <1>12, <1>13, <1>14

(* A frame becomes the top level of a process that has none, with no user     *)
(* entries.                                                                   *)
LEMMA NewRoot ==
    ASSUME NEW r, NEW role, NEW M, Good(r, role, M), NEW f \in Frames, role[f] = Nobodys,
           f <= r.used, NEW p \in Pids, \A g \in Frames : role[g].of # p,
           r.mem[f][SELF] = f, r.mem[f][KERNEL] = r.mem[1][KERNEL],
           \A i \in User : r.mem[f][i] = 0, \A v \in VUser : M[p][v] = 0
    PROVE  Good(r, [role EXCEPT ![f] = Owned(p, <<>>)], M)
<1> DEFINE role2 == [role EXCEPT ![f] = Owned(p, <<>>)]
<1>1. /\ r \in Rams /\ r.used \in Nat /\ role \in RoleSet /\ r.used <= MaxFrames /\ IsMap(M)
      /\ RolesOK(role, r.used) /\ OneEach(role) /\ Down(r.mem, role) /\ PointedTo(r.mem, role)
      /\ Above(role) /\ TopLevel(r.mem, role) /\ Fresh(r.mem, r.used)
      /\ ~r.tainted => Exact(r.mem, role, M)
  BY DEF Good, Forest, Rams
<1>2. /\ p \in Owners /\ p \in Nat /\ p # 0 /\ p \in Int /\ <<>> \in Seq(Idx) /\ Len(<<>>) = 0
      /\ 0 < LEVELS /\ 0 + 1 < LEVELS /\ Top(p) = User /\ PagesOf(p) = VUser
  BY Slots DEF Pids, Owners, Top, PagesOf
<1>3. /\ role2 \in RoleSet /\ role2[f] = Owned(p, <<>>)
      /\ \A g \in Frames : g # f => role2[g] = role[g]
      /\ \A g \in Frames : role[g] # Nobodys => g # f /\ role2[g] = role[g]
  BY <1>1, <1>2 DEF RoleSet, Owned
<1> HIDE DEF role2
<1>4. role2[f] # Nobodys /\ role2[f].of = p /\ role2[f].path = <<>>
  BY <1>2, <1>3, OwnedFacts
<1>5. RolesOK(role2, r.used)
  BY <1>1, <1>2, <1>3, <1>4 DEF RolesOK, PathOf
<1>6. OneEach(role2)
  <2>1. \A g \in Frames : g # f => role2[g] # role2[f]
    BY <1>3, <1>4
  <2>2. QED
    BY <1>1, <1>3, <2>1 DEF OneEach
<1>7. ASSUME NEW e, NEW o, NEW t, LeadsTo(e, role, o, t), o # p, o \in Nat
      PROVE  LeadsTo(e, role2, o, t)
  <2>1. Owned(o, t) # Nobodys
    BY <1>7, OwnedFacts
  <2>2. QED
    BY <1>3, <1>7, <2>1 DEF LeadsTo
<1>8. ASSUME NEW g \in Frames, role2[g] # Nobodys, g # f
      PROVE  role2[g] = role[g] /\ role[g] # Nobodys /\ role[g].of # p /\ role[g].of \in Nat
  BY <1>1, <1>3, <1>8, RoleFacts
<1>9. Down(r.mem, role2)
  <2>1. SUFFICES ASSUME NEW g \in Frames, NEW i \in Idx, role2[g] # Nobodys,
                        Len(role2[g].path) + 1 < LEVELS, EntryOf(role2[g].of, role2[g].path, i)
                 PROVE  /\ LeadsTo(r.mem[g][i], role2, role2[g].of, Append(role2[g].path, i))
                        /\ role2[g].of = 0 => r.mem[g][i] # JUNK
    BY DEF Down
  <2>2. CASE g = f
    <3>1. i \in User
      BY <1>2, <1>4, <2>1, <2>2 DEF EntryOf
    <3>2. r.mem[g][i] = 0
      BY <2>2, <3>1
    <3>3. QED
      BY <1>2, <1>4, <2>2, <3>2 DEF LeadsTo
  <2>3. CASE g # f
    <3>1. role2[g] = role[g] /\ role[g] # Nobodys /\ role[g].of # p /\ role[g].of \in Nat
      BY <1>8, <2>1, <2>3
    <3>2. /\ LeadsTo(r.mem[g][i], role, role[g].of, Append(role[g].path, i))
          /\ role[g].of = 0 => r.mem[g][i] # JUNK
      BY <1>1, <2>1, <3>1 DEF Down
    <3>3. QED
      BY <1>7, <3>1, <3>2
  <2>4. QED
    BY <2>2, <2>3
<1>10. PointedTo(r.mem, role2)
  <2>1. SUFFICES ASSUME NEW g \in Frames, NEW h \in Frames, NEW i \in Idx, role2[g] # Nobodys,
                        role2[h] = Owned(role2[g].of, Append(role2[g].path, i))
                 PROVE  r.mem[g][i] = h
    BY DEF PointedTo
  <2>2. role2[g].of \in Nat /\ role2[g].path \in Seq(Idx)
    BY <1>3, <1>5, <2>1, RoleFacts
  <2>3. PICK u : u = Append(role2[g].path, i)
    OBVIOUS
  <2>4. u # <<>>
    BY <2>2, <2>3, AppendFacts
  <2>5. role2[h] # Nobodys /\ role2[h].of = role2[g].of /\ role2[h].path = u
    <3>1. PICK o \in Nat : o = role2[g].of
      BY <2>2
    <3>2. Owned(o, u).of = o /\ Owned(o, u).path = u /\ Owned(o, u) # Nobodys
      BY ONLY OwnedFacts
    <3>3. QED
      BY <2>1, <2>3, <3>1, <3>2
  <2>6. h # f
    BY <1>4, <2>4, <2>5
  <2>7. role2[h] = role[h] /\ role[h].of # p
    BY <1>8, <2>5, <2>6
  <2>8. g # f
    BY <1>4, <2>5, <2>7
  <2>9. role2[g] = role[g] /\ role[g] # Nobodys
    BY <1>8, <2>1, <2>8
  <2>10. QED
    BY <1>1, <2>1, <2>7, <2>9 DEF PointedTo
<1>11. Above(role2)
  <2>1. SUFFICES ASSUME NEW g \in Frames, NEW u \in Seq(Idx), role2[g] # Nobodys,
                        Under(u, role2[g].path)
                 PROVE  \E h \in Frames : role2[h] = Owned(role2[g].of, u)
    BY DEF Above
  <2>2. CASE g = f
    <3>1. Len(u) \in Nat /\ Len(u) <= 0
      BY <1>2, <1>4, <2>1, <2>2, LenProperties DEF Under
    <3>2. u = <<>>
      BY <2>1, <3>1, SamePath
    <3>3. QED
      BY <1>3, <1>4, <2>2, <3>2
  <2>3. CASE g # f
    <3>1. role2[g] = role[g] /\ role[g] # Nobodys /\ role[g].of \in Nat
      BY <1>8, <2>1, <2>3
    <3>2. PICK h \in Frames : role[h] = Owned(role[g].of, u)
      BY <1>1, <2>1, <3>1 DEF Above
    <3>3. role[h] # Nobodys
      BY <3>1, <3>2, OwnedFacts
    <3>4. QED
      BY <1>3, <3>1, <3>2, <3>3
  <2>4. QED
    BY <2>2, <2>3
<1>12. TopLevel(r.mem, role2)
  <2>1. role2[1] = Owned(0, <<>>)
    BY <1>1, <1>3, Slots, OwnedFacts DEF TopLevel
  <2>2. ASSUME NEW g \in Frames, role2[g] # Nobodys, role2[g].path = <<>>
        PROVE  r.mem[g][SELF] = g /\ r.mem[g][KERNEL] = r.mem[1][KERNEL]
    <3>1. CASE g = f
      BY <3>1
    <3>2. CASE g # f
      BY <1>1, <1>8, <2>2, <3>2 DEF TopLevel
    <3>3. QED
      BY <3>1, <3>2
  <2>3. QED
    BY <1>1, <2>1, <2>2 DEF TopLevel
<1>13. ASSUME Exact(r.mem, role, M) PROVE Exact(r.mem, role2, M)
  <2>1. SUFFICES ASSUME NEW g \in Frames, NEW i \in Idx, role2[g] # Nobodys,
                        EntryOf(role2[g].of, role2[g].path, i)
                 PROVE  IF Len(Append(role2[g].path, i)) = LEVELS
                        THEN r.mem[g][i] = M[role2[g].of][Append(role2[g].path, i)]
                        ELSE /\ r.mem[g][i] # JUNK
                             /\ r.mem[g][i] = 0 =>
                                   \A v \in PagesOf(role2[g].of) :
                                      Under(Append(role2[g].path, i), v) => M[role2[g].of][v] = 0
    BY DEF Exact
  <2>2. CASE g = f
    <3>1. i \in User
      BY <1>2, <1>4, <2>1, <2>2 DEF EntryOf
    <3>2. r.mem[g][i] = 0
      BY <2>2, <3>1
    <3>3. Len(Append(<<>>, i)) = 1 /\ 1 # LEVELS /\ 0 # JUNK
      BY Slots DEF JUNK
    <3>4. role2[g].of = p /\ role2[g].path = <<>> /\ \A v \in PagesOf(p) : M[p][v] = 0
      BY <1>2, <1>4, <2>2
    <3>5. QED
      BY <3>2, <3>3, <3>4
  <2>3. CASE g # f
    <3>1. role2[g] = role[g] /\ role[g] # Nobodys
      BY <1>8, <2>1, <2>3
    <3>2. \A t : t = Append(role[g].path, i) =>
             IF Len(t) = LEVELS THEN r.mem[g][i] = M[role[g].of][t]
             ELSE /\ r.mem[g][i] # JUNK
                  /\ r.mem[g][i] = 0 => \A v \in PagesOf(role[g].of) : Under(t, v) => M[role[g].of][v] = 0
      BY <1>13, <2>1, <3>1 DEF Exact
    <3>3. QED
      BY <3>1, <3>2
  <2>4. QED
    BY <2>2, <2>3
<1>14. Good(r, role2, M)
  BY <1>1, <1>3, <1>5, <1>6, <1>9, <1>10, <1>11, <1>12, <1>13 DEF Good, Forest
<1>15. QED
  BY <1>14 DEF role2
-----------------------------------------------------------------------------
(* The kernel's own table, before anything is mapped in it. *)
LEMMA BootRoot ==
    ASSUME NEW r \in Rams, r.used = 1, r.kvirt = 0, r.kmapped = <<>>, ~r.tainted,
           r.mem[1][SELF] = 1, \A i \in Idx : i # SELF => r.mem[1][i] = 0,
           \A f \in Frames : f # 1 => r.mem[f] = Found(f)
    PROVE  \E role, M :
              /\ Good(r, role, M) /\ KernelAt(r, M) /\ OnlyKernel(role)
              /\ \A f \in Frames, p \in Pids : role[f].of # p
              /\ \A p \in Pids, v \in VUser : M[p][v] = 0
<1>1. PICK role, M : /\ role = [f \in Frames |-> IF f = 1 THEN Owned(0, <<>>) ELSE Nobodys]
                     /\ M = [o \in Owners |-> [v \in PagesOf(o) |-> 0]]
  OBVIOUS
<1>2. /\ role[1] = Owned(0, <<>>) /\ role[1].of = 0 /\ role[1].path = <<>> /\ role[1] # Nobodys
      /\ \A f \in Frames : f # 1 => role[f] = Nobodys
      /\ 1 \in Frames
  BY <1>1, Slots, OwnedFacts
<1>3. role \in RoleSet
  <2>1. Owned(0, <<>>) \in [of : Int, path : Seq(Idx)] /\ Nobodys \in [of : Int, path : Seq(Idx)]
    BY DEF Owned, Nobodys
  <2>2. QED
    BY <1>1, <2>1 DEF RoleSet
<1>4. IsMap(M)
  BY <1>1 DEF IsMap
<1>5. RolesOK(role, 1)
  <2>1. PathOf(0, <<>>) /\ 0 \in Owners
    BY Slots DEF PathOf, Owners
  <2>2. QED
    BY <1>2, <2>1 DEF RolesOK
<1>6. OneEach(role)
  BY <1>2 DEF OneEach
<1>7. ASSUME NEW i \in Idx, EntryOf(0, <<>>, i) PROVE r.mem[1][i] = 0
  BY <1>7, Slots DEF EntryOf, Top
<1>8. Down(r.mem, role)
  <2>1. SUFFICES ASSUME NEW f \in Frames, NEW i \in Idx, role[f] # Nobodys,
                        EntryOf(role[f].of, role[f].path, i)
                 PROVE  r.mem[f][i] = 0
    BY Slots DEF Down, LeadsTo, JUNK
  <2>2. f = 1
    BY <1>2, <2>1
  <2>3. QED
    BY <1>2, <1>7, <2>1, <2>2
<1>9. ASSUME NEW g \in Frames, NEW i \in Idx, NEW o \in Nat, role[g] = Owned(o, Append(<<>>, i))
      PROVE  FALSE
  <2>1. Append(<<>>, i) # <<>>
    BY Slots
  <2>2. PICK u : u = Append(<<>>, i)
    OBVIOUS
  <2>3. Owned(o, u).path = u /\ Owned(o, u) # Nobodys
    BY OwnedFacts
  <2>4. g = 1
    BY <1>2, <1>9, <2>2, <2>3
  <2>5. QED
    BY <1>2, <1>9, <2>1, <2>2, <2>3, <2>4
<1>10. PointedTo(r.mem, role)
  <2>1. SUFFICES ASSUME NEW f \in Frames, NEW g \in Frames, NEW i \in Idx, role[f] # Nobodys,
                        role[g] = Owned(role[f].of, Append(role[f].path, i))
                 PROVE  FALSE
    BY DEF PointedTo
  <2>2. f = 1
    BY <1>2, <2>1
  <2>3. role[g] = Owned(0, Append(<<>>, i))
    BY <1>2, <2>1, <2>2
  <2>4. QED
    BY <1>9, <2>3
<1>11. Above(role)
  <2>1. SUFFICES ASSUME NEW g \in Frames, NEW u \in Seq(Idx), role[g] # Nobodys,
                        Under(u, role[g].path)
                 PROVE  \E h \in Frames : role[h] = Owned(role[g].of, u)
    BY DEF Above
  <2>2. g = 1 /\ Len(u) \in Nat /\ Len(u) <= Len(<<>>) /\ Len(<<>>) = 0
    BY <1>2, <2>1, LenProperties DEF Under
  <2>3. u = <<>>
    BY <2>1, <2>2, SamePath
  <2>4. QED
    BY <1>2, <2>2, <2>3
<1>12. TopLevel(r.mem, role)
  <2>1. \A i \in User : i \in Idx /\ i # SELF
    BY Slots
  <2>2. QED
    BY <1>2, <2>1 DEF TopLevel
<1>13. Fresh(r.mem, 1)
  <2>1. \A f \in Frames : f > 1 => f # 1
    BY Slots
  <2>2. QED
    BY <2>1 DEF Fresh
<1>14. Exact(r.mem, role, M)
  <2>1. SUFFICES ASSUME NEW f \in Frames, NEW i \in Idx, role[f] # Nobodys,
                        EntryOf(role[f].of, role[f].path, i)
                 PROVE  IF Len(Append(role[f].path, i)) = LEVELS
                        THEN r.mem[f][i] = M[role[f].of][Append(role[f].path, i)]
                        ELSE /\ r.mem[f][i] # JUNK
                             /\ r.mem[f][i] = 0 =>
                                   \A v \in PagesOf(role[f].of) :
                                      Under(Append(role[f].path, i), v) => M[role[f].of][v] = 0
    BY DEF Exact
  <2>2. f = 1
    BY <1>2, <2>1
  <2>3. r.mem[f][i] = 0
    BY <1>2, <1>7, <2>1, <2>2
  <2>4. Len(Append(<<>>, i)) = 1 /\ 1 # LEVELS /\ 0 # JUNK
    BY Slots DEF JUNK
  <2>5. role[f].of = 0 /\ role[f].path = <<>> /\ \A v \in PagesOf(0) : M[0][v] = 0
    BY <1>1, <1>2, <2>2, Slots DEF Owners
  <2>6. QED
    BY <2>3, <2>4, <2>5
<1>15. Good(r, role, M)
  <2>1. 1 <= MaxFrames
    BY Slots, TableAssumption
  <2>2. QED
    BY <1>3, <1>4, <1>5, <1>6, <1>8, <1>10, <1>11, <1>12, <1>13, <1>14, <2>1 DEF Good, Forest
<1>16. KernelAt(r, M)
  <2>1. <<>> \in Seq(Nat) /\ Len(<<>>) = 0 /\ 0 <= 1 /\ \A k \in 1..0 : FALSE
    OBVIOUS
  <2>2. QED
    BY <2>1 DEF KernelAt
<1>17. OnlyKernel(role)
  BY <1>2 DEF OnlyKernel
<1>18. \A f \in Frames, p \in Pids : role[f].of # p
  <2>1. Nobodys.of = -1 /\ \A p \in Pids : p # -1 /\ p # 0
    BY Slots DEF Nobodys, Owned, Pids
  <2>2. QED
    BY <1>2, <2>1
<1>19. \A p \in Pids, v \in VUser : M[p][v] = 0
  <2>1. \A p \in Pids : p \in Owners /\ PagesOf(p) = VUser
    BY Slots DEF Pids, Owners, PagesOf
  <2>2. QED
    BY <1>1, <2>1
<1>20. QED
  BY <1>15, <1>16, <1>17, <1>18, <1>19

(* Owners whose tables stay away when tables are added for the kernel. *)
LEMMA GrownOwners ==
    ASSUME NEW role, NEW role2, NEW used, Grown(role, role2, 0, used), NEW p, p # 0,
           \A f \in Frames : role[f].of # p
    PROVE  \A f \in Frames : role2[f].of # p
<1>1. SUFFICES ASSUME NEW f \in Frames PROVE role2[f].of # p
  OBVIOUS
<1>2. CASE role[f] # Nobodys
  BY <1>2 DEF Grown
<1>3. CASE role[f] = Nobodys
  BY <1>3 DEF Grown
<1>4. QED
  BY <1>2, <1>3

(* setup_paging: the kernel and the display are mapped. *)
LEMMA PagingSet ==
    ASSUME NEW r, NEW role, NEW M, Good(r, role, M), KernelAt(r, M), OnlyKernel(role),
           r.used = 1, r.kvirt = 0, 2 * LEVELS <= MaxFrames,
           \A f \in Frames, p \in Pids : role[f].of # p,
           \A p \in Pids, v \in VUser : M[p][v] = 0,
           NEW paged, paged = k_map_v(k_map_v(r, 1, KernelImage), 1, Display)
    PROVE  \E role2, M2 :
              /\ Good(paged, role2, M2) /\ KernelAt(paged, M2) /\ HasKernel(role2)
              /\ \A f \in Frames, p \in Pids : role2[f].of # p
              /\ \A p \in Pids, v \in VUser : M2[p][v] = 0
<1>1. /\ LEVELS \in Nat /\ LEVELS > 1 /\ MaxFrames \in Nat /\ KernelImage \in Nat /\ Display \in Nat
      /\ 0 \in 0..(MaxFrames - 1) /\ 1 \in 0..(MaxFrames - 1)
  BY Slots DEF KernelImage, Display
<1>2. PICK r1, v0 : r1 = k_map_v(r, 1, KernelImage) /\ v0 = KernelPages[0]
  OBVIOUS
<1>3. PICK role1 : /\ Good(r1, role1, [M EXCEPT ![0][v0] = KernelImage])
                   /\ Grown(role, role1, 0, 1) /\ HasKernel(role1)
                   /\ 1 <= r1.used /\ r1.used <= 1 + (LEVELS - 1)
                   /\ r1.kvirt = 1 /\ r1.kmapped = Append(r.kmapped, KernelImage)
  <2>1. 1 + (LEVELS - 1) <= MaxFrames /\ 0 + 1 = 1
    BY <1>1
  <2>2. QED
    BY <1>1, <1>2, <2>1, KMapPage
<1>4. PICK M1 : M1 = [M EXCEPT ![0][v0] = KernelImage]
  OBVIOUS
<1>5. r1 \in Rams /\ r1.used \in Nat /\ IsMap(M1) /\ IsMap(M) /\ r \in Rams /\ Good(r1, role1, M1)
  BY <1>3, <1>4 DEF Good, Rams
<1>6. KernelAt(r1, M1)
  <2>1. r.kvirt < MaxFrames /\ r1.kvirt <= r1.used /\ r1.kvirt = r.kvirt + 1
    BY <1>1, <1>3, <1>5
  <2>2. KernelAt(r1, [M EXCEPT ![0][KernelPages[r.kvirt]] = KernelImage])
    BY <1>1, <1>3, <1>5, <2>1, KernelMore
  <2>3. QED
    BY <1>2, <1>4, <2>2
<1>7. PICK r2, v1 : r2 = k_map_v(r1, 1, Display) /\ v1 = KernelPages[1]
  OBVIOUS
<1>8. PICK role2 : /\ Good(r2, role2, [M1 EXCEPT ![0][v1] = Display])
                   /\ Grown(role1, role2, 0, r1.used) /\ HasKernel(role2)
                   /\ r1.used <= r2.used
                   /\ r2.kvirt = 2 /\ r2.kmapped = Append(r1.kmapped, Display)
  <2>1. /\ Good(r1, role1, M1) /\ r1.used + (LEVELS - 1) <= MaxFrames
        /\ HasKernel(role1) \/ OnlyKernel(role1)
        /\ r1.kvirt \in 0..(MaxFrames - 1) /\ Display \in Nat
    BY <1>1, <1>3, <1>5
  <2>2. \E rl :
           /\ Good(k_map_v(r1, 1, Display), rl, [M1 EXCEPT ![0][KernelPages[r1.kvirt]] = Display])
           /\ Grown(role1, rl, 0, r1.used) /\ HasKernel(rl)
           /\ r1.used <= k_map_v(r1, 1, Display).used
           /\ k_map_v(r1, 1, Display).kvirt = r1.kvirt + 1
           /\ k_map_v(r1, 1, Display).kmapped = Append(r1.kmapped, Display)
    BY ONLY <2>1, KMapPage
  <2>3. r1.kvirt + 1 = 2
    BY <1>3
  <2>4. QED
    BY <1>3, <1>7, <2>2, <2>3
<1>9. PICK M2 : M2 = [M1 EXCEPT ![0][v1] = Display]
  OBVIOUS
<1>10. r2 \in Rams /\ r2.used \in Nat /\ IsMap(M2) /\ Good(r2, role2, M2)
  BY <1>8, <1>9 DEF Good, Rams
<1>11. KernelAt(r2, M2)
  <2>1. 2 <= r1.used
    <3>1. PICK g \in Frames : role1[g] = Owned(0, Append(<<>>, KERNEL))
      BY <1>3 DEF HasKernel
    <3>2. TopLevel(r1.mem, role1) /\ RolesOK(role1, r1.used)
      BY <1>5 DEF Good, Forest
    <3>3. role1[1] = Owned(0, <<>>)
      BY <3>2 DEF TopLevel
    <3>4. PICK u : u = Append(<<>>, KERNEL)
      OBVIOUS
    <3>5. u # <<>> /\ Owned(0, u).path = u /\ Owned(0, <<>>).path = <<>> /\ Owned(0, u) # Nobodys
      BY <3>4, Slots, OwnedFacts
    <3>6. g # 1 /\ g <= r1.used
      BY <3>1, <3>2, <3>3, <3>4, <3>5 DEF RolesOK
    <3>7. g \in Nat /\ g >= 1
      BY DEF Frames
    <3>8. QED
      BY <1>5, <3>6, <3>7
  <2>2. r1.kvirt < MaxFrames /\ r2.kvirt <= r2.used /\ r2.kvirt = r1.kvirt + 1
    BY <1>1, <1>3, <1>5, <1>8, <1>10, <2>1
  <2>3. KernelAt(r2, [M1 EXCEPT ![0][KernelPages[r1.kvirt]] = Display])
    BY <1>1, <1>5, <1>6, <1>8, <2>2, KernelMore
  <2>4. QED
    BY <1>3, <1>7, <1>9, <2>3
<1>12. \A f \in Frames, p \in Pids : role2[f].of # p
  <2>1. SUFFICES ASSUME NEW p \in Pids PROVE \A f \in Frames : role2[f].of # p
    OBVIOUS
  <2>2. p # 0
    BY DEF Pids
  <2>3. \A f \in Frames : role1[f].of # p
    <3>1. PICK o, u : o = 0 /\ u = 1
      OBVIOUS
    <3>2. Grown(role, role1, 0, u) /\ p # 0 /\ \A f \in Frames : role[f].of # p
      BY <1>3, <2>2, <3>1
    <3>3. QED
      BY ONLY <3>2, GrownOwners
  <2>4. Grown(role1, role2, 0, r1.used) /\ p # 0 /\ \A f \in Frames : role1[f].of # p
    BY <1>8, <2>2, <2>3
  <2>5. QED
    BY ONLY <2>4, GrownOwners
<1>13. \A p \in Pids : M2[p] = M[p]
  <2>1. \A p \in Pids : p # 0 /\ p \in Owners
    BY Slots DEF Pids, Owners
  <2>2. QED
    BY <1>4, <1>5, <1>9, <2>1 DEF IsMap
<1>14. QED
  BY <1>2, <1>7, <1>8, <1>10, <1>11, <1>12, <1>13
-----------------------------------------------------------------------------
(* Where nothing is mapped there is no junk above.                            *)
LEMMA NoJunkAbove ==
    ASSUME NEW mem, NEW root, NEW v \in VPages, Walk(mem, root, v) = 0,
           NEW n \in 1..(LEVELS - 1)
    PROVE  Walk(mem, root, Upto(v, n)) # JUNK
<1>1. PICK e : /\ e[0] = root
               /\ \A m \in 0..LEVELS : e[m] = Walk(mem, root, Upto(v, m))
               /\ e[LEVELS] = Walk(mem, root, v)
               /\ \A m \in 0..(LEVELS - 1) :
                     e[m + 1] = IF e[m] \in Frames THEN mem[e[m]][v[m + 1]] ELSE e[m]
  BY WalkUpto
<1>2. /\ LEVELS \in Nat /\ n \in Nat /\ n \in 0..LEVELS /\ n <= LEVELS /\ 0 # JUNK
      /\ JUNK \notin Frames
  BY Slots DEF JUNK
<1>3. SUFFICES ASSUME e[n] = JUNK PROVE FALSE
  BY <1>1, <1>2
<1>4. PICK S : S = {k \in Nat : n <= k /\ k <= LEVELS /\ e[k] # JUNK}
  OBVIOUS
<1>5. LEVELS \in S
  BY <1>1, <1>2, <1>4
<1>6. PICK b \in S : \A k \in S : b <= k
  BY <1>4, <1>5, Least
<1>7. b \in Nat /\ n <= b /\ b <= LEVELS /\ e[b] # JUNK /\ b # n
  BY <1>3, <1>4
<1>8. PICK a : a = b - 1
  OBVIOUS
<1>9. a \in Nat /\ n <= a /\ a <= LEVELS /\ a + 1 = b /\ a \in 0..(LEVELS - 1) /\ ~(b <= a)
  BY <1>2, <1>7, <1>8
<1>10. e[a] = JUNK
  BY <1>4, <1>6, <1>9
<1>11. e[b] = JUNK
  BY <1>1, <1>2, <1>9, <1>10
<1>12. QED
  BY <1>7, <1>11

(* add_physical_page_in: a page nothing was mapped at gets a frame. *)
LEMMA UserPage ==
    ASSUME NEW r, NEW role, NEW M, Good(r, role, M), KernelAt(r, M), HasKernel(role),
           r.used + LEVELS <= MaxFrames, NEW p \in Pids, NEW root \in Frames,
           role[root] = Owned(p, <<>>), NEW v \in VUser, Walk(r.mem, root, v) = 0
    PROVE  LET n == r.used + 1
               r2 == map_page([r EXCEPT !.used = n], root, v, n)
               M2 == [M EXCEPT ![p][v] = n]
           IN  \E role2 : /\ Good(r2, role2, M2) /\ KernelAt(r2, M2) /\ HasKernel(role2)
                          /\ Grown(role, role2, p, r.used)
<1>1. /\ r \in Rams /\ r.used \in Nat /\ IsMap(M) /\ role \in RoleSet /\ r.used < MaxFrames
      /\ r.used + 1 + (LEVELS - 1) <= MaxFrames
      /\ p \in Owners /\ p # 0 /\ p \in Nat /\ v \in PagesOf(p) /\ v \in VPages /\ 0 \in Owners
  <2>1. r \in Rams /\ r.used \in Nat /\ IsMap(M) /\ role \in RoleSet
    BY DEF Good, Rams
  <2>2. r.used < MaxFrames /\ r.used + 1 + (LEVELS - 1) <= MaxFrames
    BY <2>1, Slots
  <2>3. p \in Owners /\ p # 0 /\ p \in Nat /\ 0 \in Owners
    BY Slots DEF Pids, Owners
  <2>4. v \in PagesOf(p) /\ v \in VPages
    BY <2>3 DEF PagesOf, VUser, VPages
  <2>5. QED
    BY <2>1, <2>2, <2>3, <2>4
<1>2. PICK n, r1 : n = r.used + 1 /\ r1 = [r EXCEPT !.used = n]
  OBVIOUS
<1>3. /\ Good(r1, role, M) /\ r1.used = n /\ r1.kvirt = r.kvirt /\ r1.kmapped = r.kmapped
      /\ n \in Frames /\ n \in Nat /\ r1.mem = r.mem
  BY <1>1, <1>2, Bumped
<1>4. role[root] # Nobodys /\ role[root].path = <<>> /\ role[root].of = p
  BY <1>1, OwnedFacts
<1>5. PICK r2, M2 : r2 = map_page(r1, root, v, n) /\ M2 = [M EXCEPT ![p][v] = n]
  OBVIOUS
<1>6. PICK role2 : /\ Good(r2, role2, M2) /\ Grown(role, role2, p, r1.used)
                   /\ r1.used <= r2.used /\ r2.kvirt = r1.kvirt /\ r2.kmapped = r1.kmapped
  <2>1. /\ Good(r1, role, M) /\ r1.used + (LEVELS - 1) <= MaxFrames /\ p \in Owners /\ v \in PagesOf(p)
        /\ root \in Frames /\ role[root] # Nobodys /\ role[root].path = <<>>
        /\ p # 0 => role[root].of = p
        /\ p = 0 => HasKernel(role)
        /\ n \in Nat
    BY <1>1, <1>2, <1>3, <1>4
  <2>2. ClearWay(r1.mem, root, v)
    BY <1>1, <1>3, NoJunkAbove DEF ClearWay
  <2>3. \E rl2 : /\ Good(r2, rl2, MappedTo(M, p, v, n)) /\ Grown(role, rl2, p, r1.used)
                 /\ r1.used <= r2.used /\ r2.used <= r1.used + (LEVELS - 1)
                 /\ r2.kvirt = r1.kvirt /\ r2.kmapped = r1.kmapped
    BY ONLY <1>5, <2>1, <2>2, MapPage
  <2>4. QED
    BY <1>5, <2>3 DEF MappedTo
<1>7. KernelAt(r2, M2)
  <2>1. M2[0] = M[0]
    BY <1>1, <1>5 DEF IsMap
  <2>2. r2 \in Rams /\ r2.used \in Nat
    BY <1>6 DEF Good, Rams
  <2>3. r.kvirt \in Nat /\ r.kvirt <= r.used
    BY <1>1 DEF KernelAt, Rams
  <2>4. r2.kvirt = r.kvirt /\ r2.kmapped = r.kmapped /\ n <= r2.used
    BY <1>3, <1>6
  <2>5. r.used <= n
    BY <1>1, <1>2
  <2>6. r2.kvirt <= r2.used
    BY <1>1, <1>3, <2>2, <2>3, <2>4, <2>5
  <2>7. QED
    BY <2>1, <2>4, <2>6 DEF KernelAt
<1>8. Grown(role, role2, p, r.used)
  <2>1. /\ Grown(role, role, p, r.used) /\ r.used <= n
    BY <1>1, <1>2 DEF Grown
  <2>2. QED
    BY <1>1, <1>3, <1>6, <2>1, GrownTwice
<1>9. HasKernel(role2)
  BY <1>8, GrownKernel
<1>10. QED
  BY <1>2, <1>5, <1>6, <1>7, <1>8, <1>9

(* What execve leaves: of memory, of whose tables the frames are, and of what *)
(* p should find.                                                            *)
EntryCleared(r, root) == [r EXCEPT !.mem[root][0] = 0]
RolesLeft(role, p) ==
    [f \in Frames |-> IF role[f].of = p /\ role[f].path # <<>> /\ role[f].path[1] = 0
                      THEN Nobodys ELSE role[f]]
PagesLeft(m) == [v \in VUser |-> IF v[1] = 0 THEN 0 ELSE m[v]]
MapsLeft(M, p) == [M EXCEPT ![p] = PagesLeft(M[p])]

(* execve: what was below the first user entry of p's top level is nobody's.  *)
LEMMA Dropped ==
    ASSUME NEW r, NEW role, NEW M, Good(r, role, M), NEW p \in Pids, NEW root \in Frames,
           role[root] = Owned(p, <<>>),
           NEW after, after = EntryCleared(r, root)
    PROVE  /\ Good(after, RolesLeft(role, p), MapsLeft(M, p))
           /\ after.used = r.used /\ after.kvirt = r.kvirt /\ after.kmapped = r.kmapped
<1> DEFINE gone(f) == role[f].of = p /\ role[f].path # <<>> /\ role[f].path[1] = 0
           r2 == [r EXCEPT !.mem[root][0] = 0]
           role2 == [f \in Frames |-> IF gone(f) THEN Nobodys ELSE role[f]]
           M2 == [M EXCEPT ![p] = [v \in VUser |-> IF v[1] = 0 THEN 0 ELSE M[p][v]]]
<1>1. /\ r \in Rams /\ r.used \in Nat /\ role \in RoleSet /\ r.used <= MaxFrames /\ IsMap(M)
      /\ RolesOK(role, r.used) /\ OneEach(role) /\ Down(r.mem, role) /\ PointedTo(r.mem, role)
      /\ Above(role) /\ TopLevel(r.mem, role) /\ Fresh(r.mem, r.used)
      /\ ~r.tainted => Exact(r.mem, role, M)
      /\ r.mem \in [Frames -> [Idx -> Int]]
  BY DEF Good, Forest, Rams
<1>2. /\ p \in Owners /\ p \in Nat /\ p # 0 /\ PagesOf(p) = VUser /\ 0 \in Idx /\ 0 \in User
      /\ 0 # SELF /\ 0 # KERNEL /\ Top(p) = User
  BY Slots DEF Pids, Owners, PagesOf, Top
<1>3. PICK mem2 : mem2 = [r.mem EXCEPT ![root][0] = 0]
  OBVIOUS
<1>4. /\ mem2 \in [Frames -> [Idx -> Int]] /\ mem2[root][0] = 0
      /\ \A g \in Frames, j \in Idx : ~(g = root /\ j = 0) => mem2[g][j] = r.mem[g][j]
      /\ \A g \in Frames : g # root => mem2[g] = r.mem[g]
  BY <1>1, <1>2, <1>3
<1>5. /\ r2 \in Rams /\ r2.mem = mem2 /\ r2.used = r.used /\ r2.kvirt = r.kvirt
      /\ r2.kmapped = r.kmapped /\ r2.tainted = r.tainted
  <2>1. r2 = [r EXCEPT !.mem = mem2]
    BY <1>1, <1>3
  <2>2. QED
    BY <1>1, <1>4, <2>1 DEF Rams
<1>6. role[root] # Nobodys /\ role[root].of = p /\ role[root].path = <<>>
  BY <1>2, OwnedFacts
<1>7. /\ role2 \in RoleSet
      /\ \A f \in Frames : role2[f] # Nobodys => role2[f] = role[f] /\ role[f] # Nobodys /\ ~gone(f)
      /\ \A f \in Frames : role[f] # Nobodys /\ ~gone(f) => role2[f] = role[f]
  <2>1. Nobodys \in [of : Int, path : Seq(Idx)]
    BY DEF Nobodys, Owned
  <2>2. QED
    BY <1>1, <2>1 DEF RoleSet
<1>8. /\ IsMap(M2) /\ \A o \in Owners : o # p => M2[o] = M[o]
      /\ \A v \in VUser : M2[p][v] = IF v[1] = 0 THEN 0 ELSE M[p][v]
  <2>1. PICK m : m = [v \in VUser |-> IF v[1] = 0 THEN 0 ELSE M[p][v]]
    OBVIOUS
  <2>2. m \in [PagesOf(p) -> Nat]
    BY <1>1, <1>2, <2>1 DEF IsMap
  <2>3. M2 = [M EXCEPT ![p] = m]
    BY <2>1
  <2>4. /\ DOMAIN M2 = Owners /\ M2[p] = m /\ \A o \in Owners : o # p => M2[o] = M[o]
    BY <1>1, <1>2, <2>3 DEF IsMap
  <2>5. QED
    BY <1>1, <2>1, <2>2, <2>4 DEF IsMap
<1> HIDE DEF r2, role2, M2
<1>9. ASSUME NEW f \in Frames, role2[f] # Nobodys
      PROVE  /\ role2[f] = role[f] /\ role[f] # Nobodys /\ ~gone(f)
             /\ role[f].of \in Owners /\ role[f].of \in Nat /\ role[f].path \in Seq(Idx)
             /\ Len(role[f].path) \in Nat /\ Len(role[f].path) < LEVELS
             /\ role[f].path = <<>> /\ role[f].of = p => f = root
  <2>1. role2[f] = role[f] /\ role[f] # Nobodys /\ ~gone(f)
    BY <1>7, <1>9
  <2>2. /\ role[f] = Owned(role[f].of, role[f].path)
        /\ role[f].of \in Owners /\ role[f].of \in Nat /\ role[f].path \in Seq(Idx)
        /\ Len(role[f].path) \in Nat /\ Len(role[f].path) < LEVELS
    BY <1>1, <2>1, RoleFacts
  <2>3. ASSUME role[f].path = <<>>, role[f].of = p PROVE f = root
    <3>1. role[f] = role[root]
      BY <2>2, <2>3
    <3>2. QED
      BY <1>1, <2>1, <3>1 DEF OneEach
  <2>4. QED
    BY <2>1, <2>2, <2>3
<1>10. RolesOK(role2, r.used)
  BY <1>1, <1>7 DEF RolesOK
<1>11. OneEach(role2)
  BY <1>1, <1>7 DEF OneEach
<1>12. TopLevel(mem2, role2)
  <2>0. /\ \A f \in Frames : role[f] # Nobodys /\ role[f].path = <<>> =>
              r.mem[f][SELF] = f /\ r.mem[f][KERNEL] = r.mem[1][KERNEL]
        /\ role[1] = Owned(0, <<>>) /\ \A i \in User : r.mem[1][i] = 0
    BY <1>1 DEF TopLevel
  <2>1. role[1] = Owned(0, <<>>) /\ 1 \in Frames /\ role[1] # Nobodys /\ role[1].of = 0
    <3>1. PICK z : z = 0 /\ z \in Nat
      OBVIOUS
    <3>2. Owned(z, <<>>).of = z /\ Owned(z, <<>>) # Nobodys
      BY ONLY <3>1, OwnedFacts
    <3>3. QED
      BY <2>0, <3>1, <3>2, Slots
  <2>2. 1 # root /\ role2[1] = Owned(0, <<>>)
    BY <1>2, <1>6, <1>7, <2>1
  <2>3. \A g \in Frames : mem2[g][SELF] = r.mem[g][SELF] /\ mem2[g][KERNEL] = r.mem[g][KERNEL]
    BY <1>2, <1>4, Slots
  <2>4. mem2[1] = r.mem[1]
    BY <1>4, <2>1, <2>2
  <2>5. ASSUME NEW f \in Frames, role2[f] # Nobodys, role2[f].path = <<>>
        PROVE  mem2[f][SELF] = f /\ mem2[f][KERNEL] = mem2[1][KERNEL]
    <3>1. role2[f] = role[f]
      BY <1>7, <2>5
    <3>2. r.mem[f][SELF] = f /\ r.mem[f][KERNEL] = r.mem[1][KERNEL]
      BY <2>0, <2>5, <3>1
    <3>3. QED
      BY <2>3, <2>4, <3>2
  <2>6. QED
    BY <2>0, <2>2, <2>4, <2>5 DEF TopLevel
<1>13. Fresh(mem2, r.used)
  <2>1. root <= r.used
    BY <1>1, <1>6, RoleFacts
  <2>2. \A f \in Frames : f > r.used => f # root
    BY <1>1, <2>1, Slots
  <2>3. QED
    BY <1>1, <1>4, <2>2 DEF Fresh
<1>14. ASSUME NEW f \in Frames, role2[f] # Nobodys, NEW i \in Idx, ~(f = root /\ i = 0),
              NEW g \in Frames, role[g] = Owned(role[f].of, Append(role[f].path, i))
       PROVE  role2[g] = role[g]
  <2>1. PICK u, o : u = Append(role[f].path, i) /\ o = role[f].of
    OBVIOUS
  <2>2. /\ o \in Nat /\ role[f].path \in Seq(Idx) /\ ~gone(f)
        /\ role[f].path = <<>> /\ o = p => f = root
    BY <1>9, <1>14, <2>1
  <2>3. /\ Len(role[f].path) \in Nat /\ u[Len(role[f].path) + 1] = i
        /\ \A n \in 1..Len(role[f].path) : u[n] = role[f].path[n]
    BY <2>1, <2>2, AppendFacts
  <2>4. Owned(o, u).of = o /\ Owned(o, u).path = u /\ Owned(o, u) # Nobodys
    BY <2>2, OwnedFacts
  <2>5. role[g].of = o /\ role[g].path = u /\ role[g] # Nobodys
    BY <1>14, <2>1, <2>4
  <2>6. SUFFICES ASSUME o = p, u[1] = 0 PROVE FALSE
    BY <1>7, <2>5
  <2>7. CASE role[f].path = <<>>
    <3>1. Len(role[f].path) = 0
      BY <2>7
    <3>2. i = 0 /\ f = root
      BY <2>2, <2>3, <2>6, <2>7, <3>1
    <3>3. QED
      BY <1>14, <3>2
  <2>8. CASE role[f].path # <<>>
    <3>1. Len(role[f].path) # 0
      BY <2>2, <2>8, EmptySeq
    <3>2. 1 \in 1..Len(role[f].path)
      BY <2>3, <3>1
    <3>3. role[f].path[1] = 0
      BY <2>3, <2>6, <3>2
    <3>4. QED
      BY <2>1, <2>2, <2>6, <2>8, <3>3
  <2>9. QED
    BY <2>7, <2>8
<1>15. Down(mem2, role2)
  <2>1. SUFFICES ASSUME NEW f \in Frames, NEW i \in Idx, role2[f] # Nobodys,
                        Len(role2[f].path) + 1 < LEVELS, EntryOf(role2[f].of, role2[f].path, i)
                 PROVE  /\ LeadsTo(mem2[f][i], role2, role2[f].of, Append(role2[f].path, i))
                        /\ role2[f].of = 0 => mem2[f][i] # JUNK
    BY DEF Down
  <2>2. CASE f = root /\ i = 0
    <3>1. mem2[f][i] = 0 /\ 0 # JUNK
      BY <1>4, <2>2 DEF JUNK
    <3>2. QED
      BY <3>1 DEF LeadsTo
  <2>3. CASE ~(f = root /\ i = 0)
    <3>1. role2[f] = role[f] /\ role[f] # Nobodys /\ mem2[f][i] = r.mem[f][i]
      BY <1>4, <1>9, <2>1, <2>3
    <3>2. /\ LeadsTo(r.mem[f][i], role, role[f].of, Append(role[f].path, i))
          /\ role[f].of = 0 => r.mem[f][i] # JUNK
      BY <1>1, <2>1, <3>1 DEF Down
    <3>3. LeadsTo(r.mem[f][i], role2, role[f].of, Append(role[f].path, i))
      BY <1>14, <2>1, <2>3, <3>2 DEF LeadsTo
    <3>4. QED
      BY <3>1, <3>2, <3>3
  <2>4. QED
    BY <2>2, <2>3
<1>16. PointedTo(mem2, role2)
  <2>1. SUFFICES ASSUME NEW f \in Frames, NEW g \in Frames, NEW i \in Idx, role2[f] # Nobodys,
                        role2[g] = Owned(role2[f].of, Append(role2[f].path, i))
                 PROVE  mem2[f][i] = g
    BY DEF PointedTo
  <2>2. role2[f] = role[f] /\ role[f] # Nobodys /\ role[f].of \in Nat /\ role[f].path \in Seq(Idx)
    BY <1>9, <2>1
  <2>a. PICK u : u = Append(role[f].path, i)
    OBVIOUS
  <2>3. PICK o \in Nat : u = Append(role[f].path, i) /\ o = role[f].of
    BY <2>2, <2>a
  <2>4. Owned(o, u).of = o /\ Owned(o, u).path = u /\ Owned(o, u) # Nobodys
    BY ONLY OwnedFacts
  <2>5. role2[g] # Nobodys /\ role2[g] = Owned(o, u)
    BY <2>1, <2>2, <2>3, <2>4
  <2>6. role[g] = Owned(o, u) /\ ~gone(g)
    BY <1>9, <2>5
  <2>7. r.mem[f][i] = g
    BY <1>1, <2>2, <2>3, <2>6 DEF PointedTo
  <2>8. ~(f = root /\ i = 0)
    <3>1. SUFFICES ASSUME f = root, i = 0 PROVE FALSE
      OBVIOUS
    <3>2. o = p /\ u = Append(<<>>, 0)
      BY <1>6, <2>3, <3>1
    <3>3. u # <<>> /\ u[1] = 0
      BY <3>2
    <3>4. QED
      BY <2>4, <2>6, <3>2, <3>3
  <2>9. QED
    BY <1>4, <2>7, <2>8
<1>17. Above(role2)
  <2>1. SUFFICES ASSUME NEW g \in Frames, NEW u \in Seq(Idx), role2[g] # Nobodys,
                        Under(u, role2[g].path)
                 PROVE  \E h \in Frames : role2[h] = Owned(role2[g].of, u)
    BY DEF Above
  <2>2. /\ role2[g] = role[g] /\ role[g] # Nobodys /\ role[g].of \in Nat /\ ~gone(g)
        /\ role[g].path \in Seq(Idx) /\ Len(role[g].path) \in Nat
    BY <1>9, <2>1
  <2>3. PICK h \in Frames : role[h] = Owned(role[g].of, u)
    BY <1>1, <2>1, <2>2 DEF Above
  <2>4. PICK o \in Nat : o = role[g].of
    BY <2>2
  <2>5. Owned(o, u).of = o /\ Owned(o, u).path = u /\ Owned(o, u) # Nobodys
    BY ONLY OwnedFacts
  <2>6. role[h].of = o /\ role[h].path = u /\ role[h] # Nobodys
    BY <2>3, <2>4, <2>5
  <2>7. ~gone(h)
    <3>1. SUFFICES ASSUME o = p, u # <<>>, u[1] = 0 PROVE FALSE
      BY <2>6
    <3>2. Len(u) \in Nat /\ Len(u) # 0 /\ Len(u) <= Len(role[g].path)
          /\ \A n \in 1..Len(u) : role[g].path[n] = u[n]
      BY <2>1, <2>2, <3>1, EmptySeq, LenProperties DEF Under
    <3>3. 1 \in 1..Len(u) /\ Len(role[g].path) # 0
      BY <2>2, <3>2
    <3>4. role[g].path[1] = 0 /\ role[g].path # <<>>
      BY <3>1, <3>2, <3>3
    <3>5. QED
      BY <2>2, <2>4, <3>1, <3>4
  <2>8. QED
    BY <1>7, <2>2, <2>3, <2>6, <2>7
<1>18. ASSUME Exact(r.mem, role, M) PROVE Exact(mem2, role2, M2)
  <2>1. SUFFICES ASSUME NEW f \in Frames, NEW i \in Idx, role2[f] # Nobodys,
                        EntryOf(role2[f].of, role2[f].path, i), NEW o, NEW t,
                        o = role2[f].of, t = Append(role2[f].path, i)
                 PROVE  IF Len(t) = LEVELS THEN mem2[f][i] = M2[o][t]
                        ELSE /\ mem2[f][i] # JUNK
                             /\ mem2[f][i] = 0 => \A v \in PagesOf(o) : Under(t, v) => M2[o][v] = 0
    BY DEF Exact
  <2>2. /\ role2[f] = role[f] /\ role[f] # Nobodys /\ o \in Nat /\ o \in Owners /\ ~gone(f)
        /\ role[f].path \in Seq(Idx) /\ o = role[f].of /\ t = Append(role[f].path, i)
        /\ role[f].path = <<>> /\ o = p => f = root
    BY <1>9, <2>1
  <2>3. IF Len(t) = LEVELS THEN r.mem[f][i] = M[o][t]
        ELSE /\ r.mem[f][i] # JUNK
             /\ r.mem[f][i] = 0 => \A v \in PagesOf(o) : Under(t, v) => M[o][v] = 0
    BY <1>18, <2>1, <2>2 DEF Exact
  <2>4. /\ t \in Seq(Idx) /\ Len(t) = Len(role[f].path) + 1 /\ Len(role[f].path) \in Nat
        /\ t[Len(role[f].path) + 1] = i
        /\ \A n \in 1..Len(role[f].path) : t[n] = role[f].path[n]
    BY <2>2, AppendFacts
  <2>5. 1 \in 1..Len(t)
    BY <2>4
  <2>6. CASE o # p
    <3>1. M2[o] = M[o] /\ mem2[f][i] = r.mem[f][i]
      BY <1>4, <1>6, <1>8, <2>2, <2>6
    <3>2. QED
      BY <2>3, <3>1
  <2>7. CASE o = p /\ f = root /\ i = 0
    <3>1. Len(role[f].path) = 0
      BY <1>6, <2>7
    <3>2. Len(t) # LEVELS /\ t[1] = 0
      BY <2>4, <2>7, <3>1, Slots
    <3>3. mem2[f][i] = 0 /\ 0 # JUNK
      BY <1>4, <2>7 DEF JUNK
    <3>4. \A v \in PagesOf(o) : Under(t, v) => M2[o][v] = 0
      BY <1>2, <1>8, <2>5, <2>7, <3>2 DEF Under
    <3>5. QED
      BY <3>2, <3>3, <3>4
  <2>8. CASE o = p /\ ~(f = root /\ i = 0)
    <3>1. mem2[f][i] = r.mem[f][i]
      BY <1>4, <2>8
    <3>2. t[1] # 0
      <4>1. CASE role[f].path = <<>>
        <5>1. Len(role[f].path) = 0
          BY <4>1
        <5>2. QED
          BY <2>2, <2>4, <2>8, <4>1, <5>1
      <4>2. CASE role[f].path # <<>>
        <5>1. Len(role[f].path) # 0
          BY <2>2, <4>2, EmptySeq
        <5>2. 1 \in 1..Len(role[f].path)
          BY <2>4, <5>1
        <5>3. QED
          BY <2>2, <2>4, <2>8, <4>2, <5>2
      <4>3. QED
        BY <4>1, <4>2
    <3>3. \A v \in PagesOf(o) : Under(t, v) => M2[o][v] = M[o][v]
      BY <1>2, <1>8, <2>5, <2>8, <3>2 DEF Under
    <3>4. ASSUME Len(t) = LEVELS PROVE M2[o][t] = M[o][t]
      <4>1. t \in PagesOf(o)
        <5>1. t \in [1..LEVELS -> Idx]
          BY <2>4, <3>4
        <5>2. t[1] \in User
          <6>1. PathOf(role[f].of, role[f].path) /\ EntryOf(role[f].of, role[f].path, i)
            BY <1>1, <2>1, <2>2 DEF RolesOK
          <6>2. CASE role[f].path = <<>>
            <7>1. Len(role[f].path) = 0
              BY <6>2
            <7>2. QED
              BY <1>2, <2>2, <2>4, <2>8, <6>1, <6>2, <7>1 DEF EntryOf
          <6>3. CASE role[f].path # <<>>
            <7>1. Len(role[f].path) # 0
              BY <2>2, <6>3, EmptySeq
            <7>2. 1 \in 1..Len(role[f].path)
              BY <2>4, <7>1
            <7>3. QED
              BY <1>2, <2>2, <2>4, <2>8, <6>1, <6>3, <7>2 DEF PathOf
          <6>4. QED
            BY <6>2, <6>3
        <5>3. QED
          BY <1>2, <2>8, <5>1, <5>2 DEF VUser
      <4>2. Under(t, t)
        BY <2>4 DEF Under
      <4>3. QED
        BY <3>3, <4>1, <4>2
    <3>5. QED
      BY <2>3, <3>1, <3>3, <3>4
  <2>9. QED
    BY <2>6, <2>7, <2>8
<1>19. Good(r2, role2, M2)
  BY <1>1, <1>5, <1>7, <1>8, <1>10, <1>11, <1>12, <1>13, <1>15, <1>16, <1>17, <1>18 DEF Good, Forest
<1>20. after = r2 /\ RolesLeft(role, p) = role2 /\ MapsLeft(M, p) = M2
  BY DEF r2, role2, M2, EntryCleared, RolesLeft, MapsLeft, PagesLeft
<1>21. QED
  BY <1>5, <1>19, <1>20
-----------------------------------------------------------------------------
(* The order mark_COW copies tables in. *)
LEMMA PathBefore ==
    ASSUME NEW t \in Seq(Idx), NEW u \in Seq(Idx)
    PROVE  /\ CopiedBefore(t, t)
           /\ CopiedBefore(t, u) \/ CopiedBefore(u, t)
           /\ CopiedBefore(t, u) /\ CopiedBefore(u, t) => t = u
<1>1. /\ Len(t) \in Nat /\ Len(u) \in Nat /\ DOMAIN t = 1..Len(t) /\ DOMAIN u = 1..Len(u)
      /\ \A n \in 1..Len(t) : t[n] \in Int
      /\ \A n \in 1..Len(u) : u[n] \in Int
  <2>1. Idx \subseteq Int
    BY TableAssumption DEF Idx
  <2>2. Len(t) \in Nat /\ Len(u) \in Nat /\ t \in [1..Len(t) -> Idx] /\ u \in [1..Len(u) -> Idx]
    BY LenProperties
  <2>3. QED
    BY <2>1, <2>2
<1>2. CopiedBefore(t, t)
  BY <1>1 DEF CopiedBefore, Under
<1>3. CopiedBefore(t, u) \/ CopiedBefore(u, t)
  <2>1. PICK D : D = {n \in Nat : n \in 1..Len(t) /\ n \in 1..Len(u) /\ t[n] # u[n]}
    OBVIOUS
  <2>2. CASE D = {}
    <3>1. \A n \in 1..Len(t) : n <= Len(u) => t[n] = u[n]
      BY <1>1, <2>1, <2>2
    <3>2. Under(t, u) \/ Under(u, t)
      BY <1>1, <3>1 DEF Under
    <3>3. QED
      BY <3>2 DEF CopiedBefore
  <2>3. CASE D # {}
    <3>1. PICK b \in D : \A k \in D : b <= k
      <4>1. D \in SUBSET Nat
        BY <2>1
      <4>2. QED
        BY <2>3, <4>1, Least
    <3>2. b \in 1..Len(t) /\ b \in 1..Len(u) /\ t[b] # u[b]
      BY <2>1
    <3>3. ASSUME NEW m \in 1..(b - 1) PROVE t[m] = u[m]
      <4>1. m \in Nat /\ m \in 1..Len(t) /\ m \in 1..Len(u) /\ ~(b <= m)
        BY <1>1, <3>2
      <4>2. m \notin D
        BY <3>1, <4>1
      <4>3. QED
        BY <2>1, <4>1, <4>2
    <3>4. t[b] < u[b] \/ u[b] < t[b]
      BY <1>1, <3>2
    <3>5. b \in DOMAIN t \cap DOMAIN u
      BY <1>1, <3>2
    <3>6. QED
      BY <3>3, <3>4, <3>5 DEF CopiedBefore
  <2>4. QED
    BY <2>2, <2>3
<1>4. ASSUME CopiedBefore(t, u), CopiedBefore(u, t) PROVE t = u
  <2>1. CASE Under(t, u) /\ Under(u, t)
    <3>1. Len(t) <= Len(u) /\ Len(u) <= Len(t) /\ \A n \in 1..Len(t) : t[n] = u[n]
      BY <2>1 DEF Under
    <3>2. Len(t) = Len(u)
      <4>1. PICK a, b : a = Len(t) /\ b = Len(u)
        OBVIOUS
      <4>2. a \in Nat /\ b \in Nat /\ a <= b /\ b <= a
        BY <1>1, <3>1, <4>1
      <4>3. a = b
        BY ONLY <4>2
      <4>4. QED
        BY ONLY <4>1, <4>3
    <3>3. QED
      BY <3>1, <3>2, SamePath
  <2>2. CASE ~(Under(t, u) /\ Under(u, t))
    <3>1. \/ \E n \in DOMAIN t \cap DOMAIN u : t[n] < u[n] /\ \A m \in 1..(n - 1) : t[m] = u[m]
          \/ \E n \in DOMAIN t \cap DOMAIN u : u[n] < t[n] /\ \A m \in 1..(n - 1) : u[m] = t[m]
      BY <1>4, <2>2 DEF CopiedBefore
    <3>a. \A n \in DOMAIN t \cap DOMAIN u : t[n] \in Int /\ u[n] \in Int
      BY <1>1
    <3>2. PICK a \in DOMAIN t \cap DOMAIN u : t[a] < u[a] \/ u[a] < t[a]
      BY <3>1
    <3>b. t[a] # u[a] /\ a \in 1..Len(t) /\ a \in 1..Len(u)
      BY <1>1, <3>a, <3>2
    <3>3. ~Under(t, u) /\ ~Under(u, t)
      BY <3>b DEF Under
    <3>4. PICK n \in DOMAIN t \cap DOMAIN u : t[n] < u[n] /\ \A m \in 1..(n - 1) : t[m] = u[m]
      BY <1>4, <3>3 DEF CopiedBefore
    <3>5. PICK k \in DOMAIN t \cap DOMAIN u : u[k] < t[k] /\ \A m \in 1..(k - 1) : u[m] = t[m]
      BY <1>4, <3>3 DEF CopiedBefore
    <3>6. /\ n \in Nat /\ k \in Nat /\ n >= 1 /\ k >= 1
          /\ t[n] \in Int /\ u[n] \in Int /\ t[k] \in Int /\ u[k] \in Int
      BY <1>1, <3>4, <3>5
    <3>7. ~(n < k) /\ ~(k < n)
      BY <3>4, <3>5, <3>6
    <3>8. n = k
      BY <3>6, <3>7
    <3>9. QED
      BY <3>4, <3>5, <3>6, <3>8
  <2>3. QED
    BY <2>1, <2>2
<1>5. QED
  BY <1>2, <1>3, <1>4

(* The order in which the tables are copied is transitive.                  *)
LEMMA PathBeforeOn ==
    ASSUME NEW t \in Seq(Idx), NEW u \in Seq(Idx), NEW w \in Seq(Idx),
           CopiedBefore(t, u), CopiedBefore(u, w)
    PROVE  CopiedBefore(t, w)
<1>1. /\ Len(t) \in Nat /\ Len(u) \in Nat /\ Len(w) \in Nat
      /\ DOMAIN t = 1..Len(t) /\ DOMAIN u = 1..Len(u) /\ DOMAIN w = 1..Len(w)
      /\ \A n \in 1..Len(t) : t[n] \in Int
      /\ \A n \in 1..Len(u) : u[n] \in Int
      /\ \A n \in 1..Len(w) : w[n] \in Int
  <2>1. Idx \subseteq Int
    BY TableAssumption DEF Idx
  <2>2. /\ Len(t) \in Nat /\ Len(u) \in Nat /\ Len(w) \in Nat
        /\ t \in [1..Len(t) -> Idx] /\ u \in [1..Len(u) -> Idx] /\ w \in [1..Len(w) -> Idx]
    BY LenProperties
  <2>3. QED
    BY <2>1, <2>2
<1> DEFINE Diff(x, y, n) == /\ n \in Nat /\ n >= 1 /\ n <= Len(x) /\ n <= Len(y) /\ x[n] < y[n]
                            /\ \A m \in 1..(n - 1) : x[m] = y[m]
<1>2. SUFFICES Under(t, w) \/ \E n \in 1..Len(t) : Diff(t, w, n)
  <2>1. ASSUME NEW n \in 1..Len(t), Diff(t, w, n) PROVE CopiedBefore(t, w)
    <3>1. n \in DOMAIN t \cap DOMAIN w /\ t[n] < w[n] /\ \A m \in 1..(n - 1) : t[m] = w[m]
      BY <1>1, <2>1
    <3>2. QED
      BY <3>1 DEF CopiedBefore
  <2>2. QED
    BY <2>1 DEF CopiedBefore
<1>3. Under(t, u) \/ \E n \in Nat : Diff(t, u, n)
  BY <1>1 DEF CopiedBefore
<1>4. Under(u, w) \/ \E n \in Nat : Diff(u, w, n)
  BY <1>1 DEF CopiedBefore
<1>5. CASE Under(t, u) /\ Under(u, w)
  BY <1>1, <1>5 DEF Under
<1>6. ASSUME Under(t, u), NEW n \in Nat, Diff(u, w, n)
      PROVE  Under(t, w) \/ Diff(t, w, n)
  <2>1. CASE n <= Len(t)
    <3>1. t[n] = u[n] /\ \A m \in 1..(n - 1) : t[m] = u[m]
      BY <1>1, <1>6, <2>1 DEF Under
    <3>2. QED
      BY <1>6, <2>1, <3>1
  <2>2. CASE ~(n <= Len(t))
    <3>1. \A m \in 1..Len(t) : m \in 1..(n - 1)
      BY <1>1, <1>6, <2>2
    <3>2. Len(t) <= Len(w)
      BY <1>1, <1>6, <2>2
    <3>3. QED
      BY <1>6, <3>1, <3>2 DEF Under
  <2>3. QED
    BY <2>1, <2>2
<1>7. ASSUME Under(u, w), NEW n \in Nat, Diff(t, u, n)
      PROVE  Diff(t, w, n)
  <2>1. n <= Len(w) /\ w[n] = u[n] /\ \A m \in 1..(n - 1) : w[m] = u[m]
    BY <1>1, <1>7 DEF Under
  <2>2. QED
    BY <1>7, <2>1
<1>8. ASSUME NEW n \in Nat, Diff(t, u, n), NEW k \in Nat, Diff(u, w, k)
      PROVE  Diff(t, w, n) \/ Diff(t, w, k)
  <2>1. /\ t[n] \in Int /\ u[n] \in Int /\ u[k] \in Int /\ w[k] \in Int
    BY <1>1, <1>8
  <2>2. CASE n < k
    <3>1. u[n] = w[n] /\ \A m \in 1..(n - 1) : m \in 1..(k - 1)
      BY <1>8, <2>2
    <3>2. n <= Len(w)
      BY <1>1, <1>8, <2>2
    <3>3. QED
      BY <1>8, <3>1, <3>2
  <2>3. CASE n = k
    <3>1. t[n] < w[n]
      BY <1>8, <2>1, <2>3
    <3>2. QED
      BY <1>8, <2>3, <3>1
  <2>4. CASE k < n
    <3>1. t[k] = u[k] /\ \A m \in 1..(k - 1) : m \in 1..(n - 1)
      BY <1>8, <2>4
    <3>2. k <= Len(t)
      BY <1>1, <1>8, <2>4
    <3>3. QED
      BY <1>8, <3>1, <3>2
  <2>5. QED
    BY <1>8, <2>2, <2>3, <2>4
<1>9. \A n : Diff(t, w, n) => n \in 1..Len(t)
  BY <1>1
<1>10. QED
  BY <1>3, <1>4, <1>5, <1>6, <1>7, <1>8, <1>9

(* The tables are numbered without a gap and without a number used twice.     *)
LEMMA Numbered ==
    ASSUME NEW S \in SUBSET Seq(Idx), IsFiniteSet(S), NEW t \in S, NEW u \in S
    PROVE  /\ Cardinality({w \in S : CopiedBefore(w, t)}) \in 1..Cardinality(S)
           /\ Cardinality({w \in S : CopiedBefore(w, t)}) = Cardinality({w \in S : CopiedBefore(w, u)})
              => t = u
<1> DEFINE Upto_(x) == {w \in S : CopiedBefore(w, x)}
<1>1. ASSUME NEW x \in S
      PROVE  /\ IsFiniteSet(Upto_(x)) /\ Cardinality(Upto_(x)) \in Nat
             /\ Cardinality(Upto_(x)) <= Cardinality(S) /\ x \in Upto_(x)
             /\ Cardinality(Upto_(x)) # 0
  <2>1. Upto_(x) \in SUBSET S /\ x \in Seq(Idx)
    OBVIOUS
  <2>2. IsFiniteSet(Upto_(x)) /\ Cardinality(Upto_(x)) <= Cardinality(S)
    BY <2>1, FS_Subset
  <2>3. Cardinality(Upto_(x)) \in Nat
    BY <2>2, FS_CardinalityType
  <2>4. x \in Upto_(x)
    BY <2>1, PathBefore
  <2>5. Cardinality(Upto_(x)) # 0
    BY <2>2, <2>4, FS_EmptySet
  <2>6. QED
    BY <2>2, <2>3, <2>4, <2>5
<1>2. Cardinality(S) \in Nat
  BY FS_CardinalityType
<1>3. ASSUME NEW x \in S, NEW y \in S, CopiedBefore(x, y),
             Cardinality(Upto_(x)) = Cardinality(Upto_(y))
      PROVE  x = y
  <2>1. x \in Seq(Idx) /\ y \in Seq(Idx)
    OBVIOUS
  <2>2. Upto_(x) \subseteq Upto_(y)
    <3>1. SUFFICES ASSUME NEW w \in S, CopiedBefore(w, x) PROVE CopiedBefore(w, y)
      OBVIOUS
    <3>2. w \in Seq(Idx)
      OBVIOUS
    <3>3. QED
      BY <1>3, <2>1, <3>1, <3>2, PathBeforeOn
  <2>3. Upto_(x) = Upto_(y)
    BY <1>1, <1>3, <2>2, FS_Subset
  <2>4. CopiedBefore(y, x)
    BY <1>1, <2>3
  <2>5. QED
    BY <1>3, <2>1, <2>4, PathBefore
<1>4. CopiedBefore(t, u) \/ CopiedBefore(u, t)
  <2>1. t \in Seq(Idx) /\ u \in Seq(Idx)
    OBVIOUS
  <2>2. QED
    BY <2>1, PathBefore
<1>5. Cardinality(Upto_(t)) \in 1..Cardinality(S)
  BY <1>1, <1>2
<1>6. Cardinality(Upto_(t)) = Cardinality(Upto_(u)) => t = u
  BY <1>3, <1>4
<1>7. QED
  BY <1>5, <1>6
-----------------------------------------------------------------------------
(* The tables for user pages, by their paths. *)
LEMMA TablePathFacts ==
    ASSUME NEW t
    PROVE  t \in TablePaths <=> t \in Seq(Idx) /\ Len(t) \in 1..(LEVELS - 1) /\ t[1] \in User
<1>1. ASSUME t \in TablePaths PROVE t \in Seq(Idx) /\ Len(t) \in 1..(LEVELS - 1) /\ t[1] \in User
  <2>1. PICK n \in 1..(LEVELS - 1) : t \in [1..n -> Idx] /\ t[1] \in User
    BY <1>1 DEF TablePaths
  <2>2. n \in Nat
    BY Slots
  <2>3. t \in Seq(Idx) /\ Len(t) = n
    BY <2>1, <2>2
  <2>4. QED
    BY <2>1, <2>3
<1>2. ASSUME t \in Seq(Idx), Len(t) \in 1..(LEVELS - 1), t[1] \in User PROVE t \in TablePaths
  <2>1. t \in [1..Len(t) -> Idx]
    BY <1>2, LenProperties
  <2>2. PICK n \in 1..(LEVELS - 1) : n = Len(t)
    BY <1>2
  <2>3. t \in {u \in [1..n -> Idx] : u[1] \in User}
    BY <1>2, <2>1, <2>2
  <2>4. QED
    BY <2>3 DEF TablePaths
<1>3. QED
  BY <1>1, <1>2

(* Every path of a table leads on to some page.                             *)
LEMMA PageBelow ==
    ASSUME NEW t \in TablePaths
    PROVE  \E v \in VUser : Upto(v, Len(t)) = t
<1>1. /\ t \in Seq(Idx) /\ Len(t) \in 1..(LEVELS - 1) /\ t[1] \in User /\ LEVELS \in Nat /\ 0 \in Idx
      /\ \A m \in 1..Len(t) : t[m] \in Idx
  <2>1. t \in Seq(Idx) /\ Len(t) \in 1..(LEVELS - 1) /\ t[1] \in User
    BY TablePathFacts
  <2>2. t \in [1..Len(t) -> Idx]
    BY <2>1, LenProperties
  <2>3. LEVELS \in Nat /\ 0 \in Idx
    BY Slots
  <2>4. QED
    BY <2>1, <2>2, <2>3
<1>2. PICK v : v = [m \in 1..LEVELS |-> IF m <= Len(t) THEN t[m] ELSE 0]
  OBVIOUS
<1>3. v \in VUser
  <2>1. v \in [1..LEVELS -> Idx]
    BY <1>1, <1>2
  <2>2. 1 \in 1..LEVELS /\ 1 <= Len(t)
    BY <1>1
  <2>3. v[1] \in User
    BY <1>1, <1>2, <2>2
  <2>4. QED
    BY <2>1, <2>3 DEF VUser
<1>4. Upto(v, Len(t)) = t
  <2>1. v \in VPages /\ Len(t) \in 0..LEVELS
    BY <1>1, <1>3 DEF VUser, VPages
  <2>2. /\ Upto(v, Len(t)) \in Seq(Idx) /\ Len(Upto(v, Len(t))) = Len(t)
        /\ \A m \in 1..Len(t) : Upto(v, Len(t))[m] = v[m]
    BY <2>1, UptoFacts
  <2>3. \A m \in 1..Len(t) : v[m] = t[m]
    BY <1>1, <1>2
  <2>4. QED
    BY <1>1, <2>2, <2>3, SamePath
<1>5. QED
  BY <1>3, <1>4

(* What a walk to a table of a process finds. *)
LEMMA WalkTable ==
    ASSUME NEW r, NEW role, NEW M, Good(r, role, M), NEW p \in Pids, NEW root \in Frames,
           role[root] = Owned(p, <<>>), NEW t \in TablePaths
    PROVE  /\ LeadsTo(Walk(r.mem, root, t), role, p, t)
           /\ ~r.tainted => /\ Walk(r.mem, root, t) # JUNK
<1>1. PICK v \in VUser : Upto(v, Len(t)) = t
  BY PageBelow
<1>2. p \in Owners /\ p \in Nat /\ p # 0 /\ v \in PagesOf(p)
  BY Slots DEF Pids, Owners, PagesOf
<1>3. role[root] # Nobodys /\ role[root].path = <<>> /\ role[root].of = p
  BY <1>2, OwnedFacts
<1>4. PICK n : n = Len(t)
  OBVIOUS
<1>5. n \in 1..(LEVELS - 1)
  BY <1>4, TablePathFacts
<1>6. /\ Good(r, role, M) /\ p \in Owners /\ v \in PagesOf(p) /\ root \in Frames
      /\ role[root] # Nobodys /\ role[root].path = <<>> /\ (p = 0 \/ role[root].of = p)
  BY <1>2, <1>3
<1>7. /\ \A m \in 1..(LEVELS - 1) :
            LET e == Walk(r.mem, root, Upto(v, m))
            IN  /\ LeadsTo(e, role, p, Upto(v, m))
                /\ p = 0 => e # JUNK
                /\ ~r.tainted => e # JUNK /\ (e = 0 => M[p][v] = 0)
      /\ ~r.tainted => Walk(r.mem, root, v) = M[p][v]
  BY ONLY <1>6, WalkFinds
<1>8. QED
  BY <1>1, <1>4, <1>5, <1>7

(* A path is the one to the table above and an index. *)
LEMMA PathAbove ==
    ASSUME NEW t \in Seq(Idx), t # <<>>
    PROVE  \E u \in Seq(Idx), i \in Idx : t = Append(u, i) /\ Len(u) = Len(t) - 1
<1>1. Len(t) \in Nat /\ Len(t) # 0 /\ t \in [1..Len(t) -> Idx]
  BY EmptySeq, LenProperties
<1>2. PICK n : n = Len(t) - 1
  OBVIOUS
<1>3. n \in Nat /\ n + 1 = Len(t) /\ n + 1 \in 1..Len(t) /\ \A m \in 1..n : m \in 1..Len(t)
  BY <1>1, <1>2
<1>4. PICK u, i : u = [m \in 1..n |-> t[m]] /\ i = t[n + 1]
  OBVIOUS
<1>5. u \in [1..n -> Idx] /\ i \in Idx
  BY <1>1, <1>3, <1>4
<1>6. u \in Seq(Idx) /\ Len(u) = n
  BY <1>3, <1>5
<1>7. Append(u, i) = t
  <2>1. /\ Append(u, i) \in Seq(Idx) /\ Len(Append(u, i)) = n + 1
        /\ Append(u, i)[n + 1] = i
        /\ \A m \in 1..n : Append(u, i)[m] = u[m]
    BY <1>5, <1>6, AppendFacts
  <2>2. \A m \in 1..(n + 1) : Append(u, i)[m] = t[m]
    <3>1. SUFFICES ASSUME NEW m \in 1..(n + 1) PROVE Append(u, i)[m] = t[m]
      OBVIOUS
    <3>2. m = n + 1 \/ m \in 1..n
      BY <1>3
    <3>3. QED
      BY <1>4, <2>1, <3>2
  <2>3. QED
    BY <1>3, <2>1, <2>2, SamePath
<1>8. QED
  BY <1>2, <1>5, <1>6, <1>7

(* Every table of a process is found from its top level. *)
LEMMA TableWalked ==
    ASSUME NEW r, NEW role, NEW M, Good(r, role, M), NEW o \in Nat, NEW root \in Frames,
           role[root] = Owned(o, <<>>), NEW f \in Frames, NEW t \in Seq(Idx), role[f] = Owned(o, t)
    PROVE  Walk(r.mem, root, t) = f
<1> DEFINE Bad == {n \in Nat : \E g \in Frames, u \in Seq(Idx) :
                      n = Len(u) /\ role[g] = Owned(o, u) /\ Walk(r.mem, root, u) # g}
<1>1. OneEach(role) /\ PointedTo(r.mem, role) /\ Above(role)
  BY DEF Good, Forest
<1>2. SUFFICES ASSUME Bad # {} PROVE FALSE
  <2>1. Len(t) \in Nat
    BY LenProperties
  <2>2. QED
    BY <2>1
<1>3. PICK b \in Bad : \A k \in Bad : b <= k
  <2>1. Bad \in SUBSET Nat
    OBVIOUS
  <2>2. QED
    BY <1>2, <2>1, Least
<1>4. PICK g \in Frames, u \in Seq(Idx) :
         b \in Nat /\ b = Len(u) /\ role[g] = Owned(o, u) /\ Walk(r.mem, root, u) # g
  BY <1>3
<1>5. role[g] # Nobodys /\ role[g].of = o /\ role[g].path = u
  BY <1>4, OwnedFacts
<1>6. CASE u = <<>>
  <2>1. role[g] = role[root]
    BY <1>4, <1>6
  <2>2. g = root
    BY <1>1, <1>5, <2>1 DEF OneEach
  <2>3. QED
    BY <1>4, <1>6, <2>2, WalkEmpty
<1>7. CASE u # <<>>
  <2>1. PICK w \in Seq(Idx), i \in Idx : u = Append(w, i) /\ Len(w) = Len(u) - 1
    BY <1>7, PathAbove
  <2>2. Under(w, u)
    <3>1. Len(w) <= Len(u) /\ \A n \in 1..Len(w) : u[n] = w[n]
      BY <1>4, <2>1, AppendFacts
    <3>2. QED
      BY <3>1 DEF Under
  <2>3. PICK h \in Frames : role[h] = Owned(o, w)
    BY <1>1, <1>5, <2>2 DEF Above
  <2>4. PICK a : a = Len(w)
    OBVIOUS
  <2>5. a \in Nat /\ ~(b <= a)
    BY <1>4, <2>1, <2>4, LenProperties
  <2>6. a \notin Bad
    BY <1>3, <2>5
  <2>7. Walk(r.mem, root, w) = h
    BY <2>3, <2>4, <2>5, <2>6
  <2>8. Walk(r.mem, root, u) = r.mem[h][i]
    BY <2>1, <2>7, WalkStep
  <2>9. role[h] # Nobodys /\ role[h].of = o /\ role[h].path = w
    BY <2>3, OwnedFacts
  <2>10. r.mem[h][i] = g
    BY <1>1, <1>4, <2>1, <2>9 DEF PointedTo
  <2>11. QED
    BY <1>4, <2>8, <2>10
<1>8. QED
  BY <1>6, <1>7

(* What mark_COW leaves when the copy of the table at path t is frame at[t]. *)
CopiesMade(r, r2, parent, child, paths, at) ==
    /\ \A t \in paths : r.used < at[t] /\ at[t] <= r2.used
    /\ \A t, u \in paths : at[t] = at[u] => t = u
    /\ ~r2.tainted => ~r.tainted /\ \A t \in paths : at[t] \notin dirty
    /\ \A t \in paths, i \in Idx :
          LET e == r.mem[Walk(r.mem, parent, t)][i]
          IN  /\ e = 0 => r2.mem[at[t]][i] = r.mem[at[t]][i]
              /\ e # 0 /\ Len(t) < LEVELS - 1 =>
                    Append(t, i) \in paths /\ r2.mem[at[t]][i] = at[Append(t, i)]
              /\ e # 0 /\ Len(t) >= LEVELS - 1 => r2.mem[at[t]][i] = e
    /\ \A i \in Idx : r2.mem[child][i] = IF <<i>> \in paths THEN at[<<i>>] ELSE r.mem[child][i]
    /\ \A f \in Frames :
          f # child /\ (\A t \in paths : at[t] # f) => r2.mem[f] = r.mem[f]

(* The tables mark_COW copies are those of the process. *)
LEMMA CopiedFacts ==
    ASSUME NEW r, NEW role, NEW M, Good(r, role, M), NEW p \in Pids, NEW root \in Frames,
           role[root] = Owned(p, <<>>), \A t \in TablePaths : Walk(r.mem, root, t) # JUNK
    PROVE  /\ Copied(r, root) \in SUBSET Seq(Idx) /\ Copied(r, root) \subseteq TablePaths
           /\ IsFiniteSet(Copied(r, root))
           /\ \A t \in Copied(r, root) :
                 Walk(r.mem, root, t) \in Frames /\ role[Walk(r.mem, root, t)] = Owned(p, t)
           /\ \A t \in TablePaths \ Copied(r, root) : Walk(r.mem, root, t) = 0
           /\ \A t \in TablePaths, f \in Frames :
                 role[f] = Owned(p, t) => t \in Copied(r, root) /\ Walk(r.mem, root, t) = f
<1>1. p \in Nat
  BY Slots DEF Pids
<1>2. \A t \in TablePaths : t \in Seq(Idx)
  BY TablePathFacts
<1>3. ASSUME NEW t \in Copied(r, root)
      PROVE  Walk(r.mem, root, t) \in Frames /\ role[Walk(r.mem, root, t)] = Owned(p, t)
  <2>1. t \in TablePaths /\ Walk(r.mem, root, t) # 0
    BY DEF Copied
  <2>2. LeadsTo(Walk(r.mem, root, t), role, p, t)
    BY <2>1, WalkTable
  <2>3. QED
    BY <2>1, <2>2 DEF LeadsTo
<1>4. ASSUME NEW t \in TablePaths, NEW f \in Frames, role[f] = Owned(p, t)
      PROVE  t \in Copied(r, root) /\ Walk(r.mem, root, t) = f
  <2>1. Walk(r.mem, root, t) = f
    BY <1>1, <1>2, <1>4, TableWalked
  <2>2. f # 0
    BY Slots
  <2>3. QED
    BY <2>1, <2>2 DEF Copied
<1>5. IsFiniteSet(Copied(r, root))
  <2>1. PICK w : w = [t \in Copied(r, root) |-> Walk(r.mem, root, t)]
    OBVIOUS
  <2>2. w \in [Copied(r, root) -> Frames]
    BY <1>3, <2>1
  <2>3. ASSUME NEW t \in Copied(r, root), NEW u \in Copied(r, root), w[t] = w[u] PROVE t = u
    <3>1. Owned(p, t) = Owned(p, u)
      BY <1>3, <2>1, <2>3
    <3>2. QED
      BY <3>1 DEF Owned
  <2>4. w \in Injection(Copied(r, root), Frames)
    BY <2>2, <2>3 DEF Injection, IsInjective
  <2>5. IsFiniteSet(Frames)
    BY Slots, FS_Interval DEF Frames
  <2>6. QED
    BY <2>4, <2>5, FS_Injection
<1>6. QED
  BY <1>2, <1>3, <1>4, <1>5 DEF Copied
-----------------------------------------------------------------------------
(* What mark_COW leaves in memory: at[t] is the copy of the table at path t.  *)
LEMMA CowMem ==
    ASSUME NEW r \in Rams, NEW parent \in Frames, NEW child \in Frames,
           NEW paths, paths = Copied(r, parent), paths \in SUBSET Seq(Idx), paths \subseteq TablePaths,
           IsFiniteSet(paths), \A t \in paths : Walk(r.mem, parent, t) \in Frames,
           r.used + Cardinality(paths) <= MaxFrames, child <= r.used,
           NEW r2, r2 = mark_COW(r, parent, child)
    PROVE  /\ r2 \in Rams /\ r.used <= r2.used /\ r2.used <= MaxFrames
           /\ r2.kvirt = r.kvirt /\ r2.kmapped = r.kmapped
           /\ \E at \in [paths -> Frames] : CopiesMade(r, r2, parent, child, paths, at)
<1> DEFINE at_ == [t \in paths |-> r.used + Cardinality({u \in paths : CopiedBefore(u, t)})]
           Filled(t) == [i \in Idx |->
              LET e == Walk(r.mem, parent, Append(t, i))
              IN  IF e = 0 THEN r.mem[at_[t]][i]
                  ELSE IF Len(t) < LEVELS - 1 THEN at_[Append(t, i)] ELSE e]
           mem_ == [f \in Frames |->
                IF \E t \in paths : at_[t] = f THEN Filled(CHOOSE t \in paths : at_[t] = f)
                ELSE IF f = child
                     THEN [i \in Idx |-> IF <<i>> \in paths THEN at_[<<i>>] ELSE r.mem[f][i]]
                     ELSE r.mem[f]]
<1>1. PICK at : at = at_
  OBVIOUS
<1>2. PICK mem2 : mem2 = mem_
  OBVIOUS
<1>3. r2 = [r EXCEPT !.used = r.used + Cardinality(paths), !.mem = mem_,
                     !.tainted = r.tainted \/ \E t \in paths : at_[t] \in dirty]
  BY DEF mark_COW, Rams
<1>4. PICK n, taint : n = r.used + Cardinality(paths)
                      /\ taint = (r.tainted \/ \E t \in paths : at[t] \in dirty)
  OBVIOUS
<1>5. r2 = [r EXCEPT !.used = n, !.mem = mem2, !.tainted = taint]
  BY <1>1, <1>2, <1>3, <1>4
<1>6. /\ \A t \in paths : at[t] = r.used + Cardinality({u \in paths : CopiedBefore(u, t)})
      /\ DOMAIN at = paths /\ at = [t \in paths |-> at[t]]
  BY <1>1
<1>7. PICK row : /\ DOMAIN row = paths
                 /\ \A t \in paths : row[t] = [i \in Idx |->
                      LET e == Walk(r.mem, parent, Append(t, i))
                      IN  IF e = 0 THEN r.mem[at[t]][i]
                          ELSE IF Len(t) < LEVELS - 1 THEN at[Append(t, i)] ELSE e]
  <2>1. PICK row : row = [t \in paths |-> [i \in Idx |->
                      LET e == Walk(r.mem, parent, Append(t, i))
                      IN  IF e = 0 THEN r.mem[at[t]][i]
                          ELSE IF Len(t) < LEVELS - 1 THEN at[Append(t, i)] ELSE e]]
    OBVIOUS
  <2>2. QED
    BY <2>1
<1>8. \A t \in paths : Filled(t) = row[t]
  <2>1. SUFFICES ASSUME NEW t \in paths PROVE Filled(t) = row[t]
    OBVIOUS
  <2>2. Filled(t) = [i \in Idx |->
                      LET e == Walk(r.mem, parent, Append(t, i))
                      IN  IF e = 0 THEN r.mem[at[t]][i]
                          ELSE IF Len(t) < LEVELS - 1 THEN at[Append(t, i)] ELSE e]
    BY <1>1
  <2>3. QED
    BY <1>7, <2>2
<1> HIDE DEF at_, Filled
<1>9. /\ DOMAIN mem2 = Frames /\ mem2 = [f \in Frames |-> mem2[f]]
      /\ \A f \in Frames : (\E t \in paths : at[t] = f) =>
            \E t \in paths : at[t] = f /\ mem2[f] = row[t]
      /\ \A f \in Frames : f # child /\ (\A t \in paths : at[t] # f) => mem2[f] = r.mem[f]
      /\ (\A t \in paths : at[t] # child) =>
            mem2[child] = [i \in Idx |-> IF <<i>> \in paths THEN at[<<i>>] ELSE r.mem[child][i]]
  <2>1. /\ DOMAIN mem2 = Frames /\ mem2 = [f \in Frames |-> mem2[f]]
        /\ \A f \in Frames : f # child /\ (\A t \in paths : at[t] # f) => mem2[f] = r.mem[f]
        /\ (\A t \in paths : at[t] # child) =>
              mem2[child] = [i \in Idx |-> IF <<i>> \in paths THEN at[<<i>>] ELSE r.mem[child][i]]
    BY <1>1, <1>2
  <2>2. ASSUME NEW f \in Frames, \E t \in paths : at[t] = f
        PROVE  \E t \in paths : at[t] = f /\ mem2[f] = row[t]
    <3>1. PICK t \in paths : t = CHOOSE u \in paths : at_[u] = f
      BY <1>1, <2>2
    <3>2. at[t] = f
      BY <1>1, <2>2, <3>1
    <3>3. mem2[f] = Filled(t)
      BY <1>1, <1>2, <2>2, <3>1
    <3>4. QED
      BY <1>8, <3>2, <3>3
  <2>3. QED
    BY <2>1, <2>2
<1> HIDE DEF mem_
<1>10. /\ r.used \in Nat /\ r.mem \in [Frames -> [Idx -> Int]] /\ Cardinality(paths) \in Nat /\ n \in Nat
       /\ r.used <= n /\ n <= MaxFrames /\ LEVELS \in Nat /\ LEVELS > 1 /\ MaxFrames \in Nat
  <2>1. r.used \in Nat /\ r.mem \in [Frames -> [Idx -> Int]]
    BY DEF Rams
  <2>2. Cardinality(paths) \in Nat
    BY FS_CardinalityType
  <2>3. LEVELS \in Nat /\ LEVELS > 1 /\ MaxFrames \in Nat
    BY Slots
  <2>4. n = r.used + Cardinality(paths) /\ r.used + Cardinality(paths) <= MaxFrames
    BY <1>4
  <2>5. n \in Nat /\ r.used <= n /\ n <= MaxFrames
    BY ONLY <2>1, <2>2, <2>4
  <2>6. QED
    BY <2>1, <2>2, <2>3, <2>5
<1>11. ASSUME NEW t \in paths
       PROVE  at[t] \in Frames /\ r.used < at[t] /\ at[t] <= n
  <2>1. Cardinality({u \in paths : CopiedBefore(u, t)}) \in 1..Cardinality(paths)
    BY Numbered
  <2>2. PICK k \in 1..Cardinality(paths) : at[t] = r.used + k
    BY <1>6, <2>1
  <2>3. QED
    BY <1>4, <1>10, <2>2 DEF Frames
<1>12. ASSUME NEW t \in paths, NEW u \in paths, at[t] = at[u] PROVE t = u
  <2>1. PICK k, l : k = Cardinality({w \in paths : CopiedBefore(w, t)})
                    /\ l = Cardinality({w \in paths : CopiedBefore(w, u)})
    OBVIOUS
  <2>2. k \in 1..Cardinality(paths) /\ l \in 1..Cardinality(paths)
    BY <2>1, Numbered
  <2>3. r.used + k = r.used + l
    BY <1>6, <1>12, <2>1
  <2>4. k = l
    BY <1>10, <2>2, <2>3
  <2>5. QED
    BY <2>1, <2>4, Numbered
<1>13. \A t \in paths : at[t] # child
  <2>1. child \in Nat
    BY Slots
  <2>2. SUFFICES ASSUME NEW t \in paths PROVE at[t] # child
    OBVIOUS
  <2>3. r.used < at[t] /\ at[t] \in Nat /\ r.used \in Nat /\ child <= r.used
    BY <1>10, <1>11, Slots
  <2>4. QED
    BY ONLY <2>1, <2>3
<1>14. \A t \in paths : mem2[at[t]] = row[t]
  BY <1>9, <1>11, <1>12
<1>15. ASSUME NEW t \in paths, NEW i \in Idx
       PROVE  LET e == r.mem[Walk(r.mem, parent, t)][i]
              IN  /\ e \in Int
                  /\ e = 0 => row[t][i] = r.mem[at[t]][i]
                  /\ e # 0 /\ Len(t) < LEVELS - 1 =>
                        Append(t, i) \in paths /\ row[t][i] = at[Append(t, i)]
                  /\ e # 0 /\ Len(t) >= LEVELS - 1 => row[t][i] = e
                  /\ row[t][i] \in Int
  <2>1. PICK e : e = r.mem[Walk(r.mem, parent, t)][i]
    OBVIOUS
  <2>2. t \in Seq(Idx) /\ Walk(r.mem, parent, t) \in Frames
    OBVIOUS
  <2>3. Walk(r.mem, parent, Append(t, i)) = e /\ e \in Int
    BY <1>10, <2>1, <2>2, WalkStep
  <2>4. row[t][i] = IF e = 0 THEN r.mem[at[t]][i]
                    ELSE IF Len(t) < LEVELS - 1 THEN at[Append(t, i)] ELSE e
    BY <1>7, <2>3
  <2>5. Len(t) \in Nat
    BY <2>2, LenProperties
  <2>6. ASSUME e # 0, Len(t) < LEVELS - 1 PROVE Append(t, i) \in paths
    <3>1. t \in TablePaths
      OBVIOUS
    <3>2. Len(t) \in 1..(LEVELS - 1) /\ t[1] \in User
      BY <3>1, TablePathFacts
    <3>3. PICK u : u = Append(t, i)
      OBVIOUS
    <3>4. u \in Seq(Idx) /\ Len(u) = Len(t) + 1 /\ u[1] = t[1]
      BY <2>2, <3>2, <3>3, AppendFacts
    <3>5. Len(u) \in 1..(LEVELS - 1)
      BY <1>10, <2>5, <2>6, <3>2, <3>4
    <3>6. u \in TablePaths
      BY <3>2, <3>4, <3>5, TablePathFacts
    <3>7. QED
      BY <2>3, <2>6, <3>3, <3>6 DEF Copied
  <2>7. r.mem[at[t]][i] \in Int
    BY <1>10, <1>11
  <2>8. row[t][i] \in Int
    <3>1. CASE e = 0
      BY <2>4, <2>7, <3>1
    <3>2. CASE e # 0 /\ Len(t) < LEVELS - 1
      <4>1. at[Append(t, i)] \in Frames
        BY <1>11, <2>6, <3>2
      <4>2. at[Append(t, i)] \in Nat
        BY <4>1, Slots
      <4>3. QED
        BY <2>4, <3>2, <4>2
    <3>3. CASE e # 0 /\ ~(Len(t) < LEVELS - 1)
      BY <2>3, <2>4, <3>3
    <3>4. QED
      BY <3>1, <3>2, <3>3
  <2>9. Len(t) >= LEVELS - 1 => ~(Len(t) < LEVELS - 1)
    BY <1>10, <2>5
  <2>10. QED
    BY <2>1, <2>3, <2>4, <2>6, <2>8, <2>9
<1>16. mem2 \in [Frames -> [Idx -> Int]]
  <2>1. SUFFICES ASSUME NEW f \in Frames PROVE mem2[f] \in [Idx -> Int]
    BY <1>9
  <2>2. CASE \E t \in paths : at[t] = f
    <3>1. PICK t \in paths : at[t] = f
      BY <2>2
    <3>2. mem2[f] = row[t]
      BY <1>14, <3>1
    <3>3. \A i \in Idx : row[t][i] \in Int
      BY <1>15
    <3>4. PICK h : h = row[t]
      OBVIOUS
    <3>5. h = [i \in Idx |-> h[i]]
      BY <1>7, <3>4
    <3>6. QED
      BY <3>2, <3>3, <3>4, <3>5
  <2>3. CASE ~(\E t \in paths : at[t] = f) /\ f = child
    <3>1. \A i \in Idx : <<i>> \in paths => at[<<i>>] \in Int
      BY <1>11, Slots
    <3>2. r.mem[child] \in [Idx -> Int]
      BY <1>10
    <3>3. \A i \in Idx : (IF <<i>> \in paths THEN at[<<i>>] ELSE r.mem[child][i]) \in Int
      BY <3>1, <3>2
    <3>4. mem2[child] = [i \in Idx |-> IF <<i>> \in paths THEN at[<<i>>] ELSE r.mem[child][i]]
      BY <1>9, <2>3
    <3>5. QED
      BY <2>3, <3>3, <3>4
  <2>4. CASE ~(\E t \in paths : at[t] = f) /\ f # child
    <3>1. mem2[f] = r.mem[f]
      BY <1>9, <2>4
    <3>2. r.mem[f] \in [Idx -> Int]
      BY <1>10
    <3>3. QED
      BY <3>1, <3>2
  <2>5. QED
    BY <2>2, <2>3, <2>4
<1>17. taint \in BOOLEAN
  BY <1>4
<1>18. /\ r2 \in Rams /\ r2.mem = mem2 /\ r2.used = n /\ r2.tainted = taint
       /\ r2.kvirt = r.kvirt /\ r2.kmapped = r.kmapped
  BY <1>5, <1>10, <1>16, <1>17 DEF Rams
<1>19. at \in [paths -> Frames]
  BY <1>6, <1>11
<1>20. ~r2.tainted => ~r.tainted /\ \A t \in paths : at[t] \notin dirty
  BY <1>4, <1>18
<1>21. \A t \in paths, i \in Idx :
          LET e == r.mem[Walk(r.mem, parent, t)][i]
          IN  /\ e = 0 => r2.mem[at[t]][i] = r.mem[at[t]][i]
              /\ e # 0 /\ Len(t) < LEVELS - 1 =>
                    Append(t, i) \in paths /\ r2.mem[at[t]][i] = at[Append(t, i)]
              /\ e # 0 /\ Len(t) >= LEVELS - 1 => r2.mem[at[t]][i] = e
  BY <1>14, <1>15, <1>18
<1>22. /\ \A i \in Idx : r2.mem[child][i] = IF <<i>> \in paths THEN at[<<i>>] ELSE r.mem[child][i]
       /\ \A f \in Frames : f # child /\ (\A t \in paths : at[t] # f) => r2.mem[f] = r.mem[f]
  BY <1>9, <1>13, <1>18
<1>23. CopiesMade(r, r2, parent, child, paths, at)
  BY <1>12, <1>11, <1>18, <1>20, <1>21, <1>22 DEF CopiesMade
<1>24. QED
  BY <1>10, <1>18, <1>19, <1>23

(* What c is to find when it is to find what p finds.                         *)
MapsCopied(M, c, p) == [M EXCEPT ![c] = M[p]]

(* mark_COW gives the child tables of its own that map what the parent's do. *)
LEMMA CowGood ==
    ASSUME NEW r, NEW role, NEW M, Good(r, role, M), NEW p \in Pids, NEW c \in Pids,
           NEW parent \in Frames, role[parent] = Owned(p, <<>>),
           NEW child \in Frames, role[child] = Nobodys, child <= r.used,
           \A g \in Frames : role[g].of # c,
           r.mem[child][SELF] = child, r.mem[child][KERNEL] = r.mem[1][KERNEL],
           \A i \in User : r.mem[child][i] = r.mem[parent][i],
           \A t \in TablePaths : Walk(r.mem, parent, t) # JUNK,
           r.used + Cardinality(Copied(r, parent)) <= MaxFrames,
           NEW r2, r2 = mark_COW(r, parent, child)
    PROVE  /\ r.used <= r2.used /\ r2.kvirt = r.kvirt /\ r2.kmapped = r.kmapped
           /\ \E role2 :
                 /\ Good(r2, role2, MapsCopied(M, c, p))
                 /\ role2[child] = Owned(c, <<>>)
                 /\ \A f \in Frames : role[f] # Nobodys => role2[f] = role[f]
                 /\ \A f \in Frames : role2[f] = role[f] \/ role2[f].of = c
<1>1. /\ r \in Rams /\ r.used \in Nat /\ role \in RoleSet /\ r.used <= MaxFrames /\ IsMap(M)
      /\ RolesOK(role, r.used) /\ OneEach(role) /\ Down(r.mem, role) /\ PointedTo(r.mem, role)
      /\ Above(role) /\ TopLevel(r.mem, role) /\ Fresh(r.mem, r.used)
      /\ ~r.tainted => Exact(r.mem, role, M)
      /\ r.mem \in [Frames -> [Idx -> Int]]
  BY DEF Good, Forest, Rams
<1>2. /\ p \in Owners /\ p \in Nat /\ p # 0 /\ Top(p) = User /\ PagesOf(p) = VUser
      /\ c \in Owners /\ c \in Nat /\ c # 0 /\ Top(c) = User /\ PagesOf(c) = VUser /\ c \in Int
      /\ LEVELS \in Nat /\ LEVELS > 1
  BY Slots DEF Pids, Owners, PagesOf, Top
<1>3. role[parent] # Nobodys /\ role[parent].of = p /\ role[parent].path = <<>> /\ p # c
  BY <1>2, OwnedFacts
<1>4. PICK paths : paths = Copied(r, parent)
  OBVIOUS
<1>5. /\ paths \in SUBSET Seq(Idx) /\ paths \subseteq TablePaths /\ IsFiniteSet(paths)
      /\ \A t \in paths :
            Walk(r.mem, parent, t) \in Frames /\ role[Walk(r.mem, parent, t)] = Owned(p, t)
      /\ \A t \in TablePaths \ paths : Walk(r.mem, parent, t) = 0
      /\ \A t \in TablePaths, f \in Frames :
            role[f] = Owned(p, t) => t \in paths /\ Walk(r.mem, parent, t) = f
  BY <1>4, CopiedFacts
<1>6. /\ r2 \in Rams /\ r.used <= r2.used /\ r2.used <= MaxFrames
      /\ r2.kvirt = r.kvirt /\ r2.kmapped = r.kmapped
      /\ \E at \in [paths -> Frames] : CopiesMade(r, r2, parent, child, paths, at)
  <2>1. /\ r \in Rams /\ parent \in Frames /\ child \in Frames
        /\ paths = Copied(r, parent) /\ paths \in SUBSET Seq(Idx) /\ paths \subseteq TablePaths
        /\ IsFiniteSet(paths) /\ (\A t \in paths : Walk(r.mem, parent, t) \in Frames)
        /\ r.used + Cardinality(paths) <= MaxFrames /\ child <= r.used
        /\ r2 = mark_COW(r, parent, child)
    BY <1>1, <1>4, <1>5
  <2>2. QED
    BY ONLY <2>1, CowMem
<1>7. PICK at \in [paths -> Frames] :
            /\ \A t \in paths : r.used < at[t] /\ at[t] <= r2.used
            /\ \A t, u \in paths : at[t] = at[u] => t = u
            /\ ~r2.tainted => ~r.tainted /\ \A t \in paths : at[t] \notin dirty
            /\ \A t \in paths, i \in Idx :
                  LET e == r.mem[Walk(r.mem, parent, t)][i]
                  IN  /\ e = 0 => r2.mem[at[t]][i] = r.mem[at[t]][i]
                      /\ e # 0 /\ Len(t) < LEVELS - 1 =>
                            Append(t, i) \in paths /\ r2.mem[at[t]][i] = at[Append(t, i)]
                      /\ e # 0 /\ Len(t) >= LEVELS - 1 => r2.mem[at[t]][i] = e
            /\ \A i \in Idx : r2.mem[child][i] = IF <<i>> \in paths THEN at[<<i>>] ELSE r.mem[child][i]
            /\ \A f \in Frames : f # child /\ (\A t \in paths : at[t] # f) => r2.mem[f] = r.mem[f]
  BY <1>6 DEF CopiesMade
<1>8. PICK mem2 : mem2 = r2.mem
  OBVIOUS
<1>9. PICK all, new : /\ all = paths \cup {<<>>}
                      /\ new = [t \in all |-> IF t = <<>> THEN child ELSE at[t]]
  OBVIOUS
<1>10. ASSUME NEW t \in paths
       PROVE  /\ t \in Seq(Idx) /\ Len(t) \in 1..(LEVELS - 1) /\ t[1] \in User /\ t # <<>> /\ t \in all
              /\ Len(t) \in Nat /\ new[t] = at[t] /\ at[t] # child /\ at[t] \in Nat
              /\ at[t] \in Frames /\ r.used < at[t]
  <2>1. t \in Seq(Idx) /\ Len(t) \in 1..(LEVELS - 1) /\ t[1] \in User
    BY <1>5, TablePathFacts
  <2>2. Len(t) \in Nat /\ t # <<>> /\ t \in all
    BY <1>9, <2>1
  <2>3. new[t] = at[t] /\ r.used < at[t] /\ at[t] \in Nat /\ child \in Nat /\ at[t] \in Frames
    BY <1>7, <1>9, <2>2, Slots
  <2>4. at[t] # child
    BY <1>1, <2>3
  <2>5. QED
    BY <2>1, <2>2, <2>3, <2>4
<1>11. /\ <<>> \in all /\ new[<<>>] = child /\ new \in [all -> Frames]
       /\ \A t, u \in all : new[t] = new[u] => t = u
       /\ \A t \in all : t # <<>> => t \in paths
  BY <1>7, <1>9, <1>10
<1>12. ASSUME NEW t \in all
       PROVE  /\ t \in Seq(Idx) /\ Len(t) \in Nat /\ Len(t) < LEVELS /\ PathOf(c, t)
              /\ Walk(r.mem, parent, t) \in Frames /\ role[Walk(r.mem, parent, t)] = Owned(p, t)
              /\ new[t] \in Frames /\ new[t] <= r2.used
  <2>1. CASE t = <<>>
    <3>1. child <= r2.used
      <4>1. child \in Nat /\ r2.used \in Nat
        BY <1>6, Slots DEF Rams
      <4>2. QED
        BY <1>1, <1>6, <4>1
    <3>2. t \in Seq(Idx) /\ Len(t) = 0
      BY <2>1
    <3>3. Walk(r.mem, parent, t) = parent
      BY <2>1, WalkEmpty
    <3>4. QED
      BY <1>2, <1>11, <2>1, <3>1, <3>2, <3>3 DEF PathOf
  <2>2. CASE t # <<>>
    <3>1. t \in paths
      BY <1>11, <2>2
    <3>2. t \in Seq(Idx) /\ Len(t) \in Nat /\ Len(t) < LEVELS /\ t[1] \in User
      BY <1>2, <1>10, <3>1
    <3>3. QED
      BY <1>2, <1>5, <1>7, <1>10, <3>1, <3>2 DEF PathOf
  <2>3. QED
    BY <2>1, <2>2
<1>13. ASSUME NEW t \in all, NEW i \in Idx, EntryOf(c, t, i)
       PROVE  /\ Append(t, i) \in Seq(Idx) /\ Len(Append(t, i)) = Len(t) + 1
              /\ Walk(r.mem, parent, Append(t, i)) = r.mem[Walk(r.mem, parent, t)][i]
              /\ r.mem[Walk(r.mem, parent, t)][i] = 0 =>
                    mem2[new[t]][i] \in {0, JUNK} /\ (~r2.tainted => mem2[new[t]][i] = 0)
              /\ r.mem[Walk(r.mem, parent, t)][i] # 0 /\ Len(t) + 1 < LEVELS =>
                    Append(t, i) \in paths /\ mem2[new[t]][i] = new[Append(t, i)]
              /\ r.mem[Walk(r.mem, parent, t)][i] # 0 /\ Len(t) + 1 = LEVELS =>
                    mem2[new[t]][i] = r.mem[Walk(r.mem, parent, t)][i]
  <2>1. /\ t \in Seq(Idx) /\ Len(t) \in Nat /\ Len(t) < LEVELS /\ Walk(r.mem, parent, t) \in Frames
    BY <1>12
  <2>2. PICK e, u : e = r.mem[Walk(r.mem, parent, t)][i] /\ u = Append(t, i)
    OBVIOUS
  <2>3. u \in Seq(Idx) /\ Len(u) = Len(t) + 1 /\ u[Len(t) + 1] = i
    BY <2>1, <2>2, AppendFacts
  <2>4. Walk(r.mem, parent, u) = e
    BY <2>1, <2>2, WalkStep
  <2>5. CASE t = <<>>
    <3>1. i \in User /\ Len(t) = 0 /\ <<i>> = u
      BY <1>2, <1>13, <2>2, <2>5 DEF EntryOf
    <3>2. u[1] = i /\ Len(u) = 1 /\ 1 \in 1..(LEVELS - 1)
      BY <1>2, <2>3, <3>1
    <3>3. u \in TablePaths
      BY <2>3, <3>1, <3>2, TablePathFacts
    <3>4. e = r.mem[parent][i] /\ e = r.mem[child][i] /\ new[t] = child
      BY <1>11, <2>2, <2>5, <3>1, WalkEmpty
    <3>5. u \in paths <=> e # 0
      BY <1>4, <2>4, <3>3 DEF Copied
    <3>6. mem2[child][i] = IF u \in paths THEN at[u] ELSE e
      BY <1>7, <1>8, <3>1, <3>4
    <3>7. u \in paths => new[u] = at[u]
      BY <1>10
    <3>8. Len(t) + 1 # LEVELS
      BY <1>2, <3>1
    <3>9. QED
      BY <2>2, <2>3, <2>4, <3>4, <3>5, <3>6, <3>7, <3>8
  <2>6. CASE t # <<>>
    <3>1. t \in paths /\ new[t] = at[t] /\ at[t] \in Frames /\ r.used < at[t] /\ at[t] \in Nat
      BY <1>10, <1>11, <2>6
    <3>2. /\ e = 0 => mem2[at[t]][i] = r.mem[at[t]][i]
          /\ e # 0 /\ Len(t) < LEVELS - 1 => u \in paths /\ mem2[at[t]][i] = at[u]
          /\ e # 0 /\ Len(t) >= LEVELS - 1 => mem2[at[t]][i] = e
      BY <1>7, <1>8, <2>2, <3>1
    <3>3. r.mem[at[t]] = Found(at[t])
      BY <1>1, <3>1 DEF Fresh
    <3>4. r.mem[at[t]][i] = IF at[t] \in dirty THEN JUNK ELSE 0
      BY <3>3 DEF Found
    <3>5. ~r2.tainted => at[t] \notin dirty
      BY <1>7, <3>1
    <3>6. u \in paths => new[u] = at[u]
      BY <1>10
    <3>7. /\ Len(t) + 1 < LEVELS => Len(t) < LEVELS - 1
          /\ Len(t) + 1 = LEVELS => Len(t) >= LEVELS - 1
      BY <1>2, <2>1
    <3>8. QED
      BY <2>2, <2>3, <2>4, <3>1, <3>2, <3>4, <3>5, <3>6, <3>7
  <2>7. QED
    BY <2>5, <2>6
<1>14. PICK role2 : role2 = [f \in Frames |-> IF \E t \in all : new[t] = f
                                              THEN Owned(c, CHOOSE t \in all : new[t] = f) ELSE role[f]]
  OBVIOUS
<1>15. /\ \A t \in all : role2[new[t]] = Owned(c, t)
       /\ \A f \in Frames : (\A t \in all : new[t] # f) => role2[f] = role[f]
       /\ DOMAIN role2 = Frames /\ role2 = [f \in Frames |-> role2[f]]
  <2>1. ASSUME NEW t \in all PROVE role2[new[t]] = Owned(c, t)
    <3>1. (CHOOSE u \in all : new[u] = new[t]) = t
      BY <1>11
    <3>2. new[t] \in Frames
      BY <1>11
    <3>3. QED
      BY <1>14, <3>1, <3>2
  <2>2. QED
    BY <1>14, <2>1
<1>16. ASSUME NEW f \in Frames, role[f] # Nobodys
       PROVE  /\ role2[f] = role[f] /\ mem2[f] = r.mem[f] /\ \A t \in all : new[t] # f
  <2>1. f \in Nat /\ f <= r.used /\ f # child
    BY <1>1, <1>16, Slots, RoleFacts
  <2>2. \A t \in paths : at[t] # f
    BY <1>1, <1>10, <2>1
  <2>3. \A t \in all : new[t] # f
    BY <1>10, <1>11, <2>1, <2>2
  <2>4. QED
    BY <1>7, <1>8, <1>15, <2>1, <2>2, <2>3
<1>17. ASSUME NEW f \in Frames, role2[f] # Nobodys
       PROVE  \/ \E t \in all : f = new[t] /\ role2[f] = Owned(c, t) /\ role2[f].of = c /\ role2[f].path = t
              \/ /\ role[f] # Nobodys /\ role2[f] = role[f] /\ mem2[f] = r.mem[f]
                 /\ role[f].of # c /\ role[f].of \in Nat /\ role[f].of \in Owners
                 /\ role[f].path \in Seq(Idx) /\ role[f] = Owned(role[f].of, role[f].path)
  <2>1. CASE \E t \in all : new[t] = f
    <3>1. PICK t \in all : f = new[t]
      BY <2>1
    <3>2. Owned(c, t).of = c /\ Owned(c, t).path = t
      BY <1>2, OwnedFacts
    <3>3. QED
      BY <1>15, <3>1, <3>2
  <2>2. CASE ~\E t \in all : new[t] = f
    <3>1. role2[f] = role[f]
      BY <1>15, <2>2
    <3>2. role[f] # Nobodys
      BY <1>17, <3>1
    <3>3. QED
      BY <1>1, <1>16, <3>1, <3>2, RoleFacts
  <2>3. QED
    BY <2>1, <2>2
<1>18. role2 \in RoleSet
  <2>1. \A f \in Frames : role2[f] \in [of : Int, path : Seq(Idx)]
    <3>1. SUFFICES ASSUME NEW f \in Frames PROVE role2[f] \in [of : Int, path : Seq(Idx)]
      OBVIOUS
    <3>2. CASE \E t \in all : new[t] = f
      <4>1. PICK t \in all : new[t] = f
        BY <3>2
      <4>2. role2[f] = Owned(c, t) /\ t \in Seq(Idx)
        BY <1>12, <1>15, <4>1
      <4>3. QED
        BY <1>2, <4>2 DEF Owned
    <3>3. CASE ~\E t \in all : new[t] = f
      BY <1>1, <1>15, <3>3 DEF RoleSet
    <3>4. QED
      BY <3>2, <3>3
  <2>2. QED
    BY <1>15, <2>1 DEF RoleSet
<1>19. RolesOK(role2, r2.used)
  <2>1. SUFFICES ASSUME NEW f \in Frames, role2[f] # Nobodys
                 PROVE  /\ role2[f].of \in Owners /\ PathOf(role2[f].of, role2[f].path)
                        /\ f <= r2.used
    BY DEF RolesOK
  <2>2. CASE \E t \in all : f = new[t] /\ role2[f] = Owned(c, t) /\ role2[f].of = c /\ role2[f].path = t
    BY <1>2, <1>12, <2>2
  <2>3. CASE role[f] # Nobodys /\ role2[f] = role[f]
    <3>1. role[f].of \in Owners /\ PathOf(role[f].of, role[f].path) /\ f <= r.used
      BY <1>1, <2>3, RoleFacts DEF RolesOK
    <3>2. f \in Nat /\ r2.used \in Nat
      BY <1>6, Slots DEF Rams
    <3>3. f <= r2.used
      BY <1>1, <1>6, <3>1, <3>2
    <3>4. QED
      BY <2>3, <3>1, <3>3
  <2>4. QED
    BY <1>17, <2>1, <2>2, <2>3
<1>20. OneEach(role2)
  <2>1. SUFFICES ASSUME NEW f \in Frames, NEW g \in Frames, role2[f] = role2[g], role2[f] # Nobodys
                 PROVE  f = g
    BY DEF OneEach
  <2>2. \/ \E t \in all : f = new[t] /\ role2[f].of = c /\ role2[f].path = t
        \/ role[f] # Nobodys /\ role2[f] = role[f] /\ role[f].of # c
    BY <1>17, <2>1
  <2>3. \/ \E t \in all : g = new[t] /\ role2[g].of = c /\ role2[g].path = t
        \/ role[g] # Nobodys /\ role2[g] = role[g] /\ role[g].of # c
    BY <1>17, <2>1
  <2>4. OneEach(role)
    BY <1>1
  <2>5. QED
    BY <2>1, <2>2, <2>3, <2>4 DEF OneEach
<1>21. Down(mem2, role2)
  <2>1. SUFFICES ASSUME NEW f \in Frames, NEW i \in Idx, role2[f] # Nobodys,
                        Len(role2[f].path) + 1 < LEVELS, EntryOf(role2[f].of, role2[f].path, i)
                 PROVE  /\ LeadsTo(mem2[f][i], role2, role2[f].of, Append(role2[f].path, i))
                        /\ role2[f].of = 0 => mem2[f][i] # JUNK
    BY DEF Down
  <2>2. CASE \E t \in all : f = new[t] /\ role2[f].of = c /\ role2[f].path = t
    <3>1. PICK t \in all : f = new[t] /\ role2[f].of = c /\ role2[f].path = t
      BY <2>2
    <3>2. PICK e, u : e = r.mem[Walk(r.mem, parent, t)][i] /\ u = Append(t, i)
      OBVIOUS
    <3>3. /\ e = 0 => mem2[f][i] \in {0, JUNK}
          /\ e # 0 => u \in paths /\ mem2[f][i] = new[u]
      BY <1>13, <2>1, <3>1, <3>2
    <3>4. u \in paths => u \in all /\ role2[new[u]] = Owned(c, u) /\ new[u] \in Frames
      BY <1>10, <1>12, <1>15
    <3>5. LeadsTo(mem2[f][i], role2, c, u)
      BY <3>3, <3>4 DEF LeadsTo
    <3>6. QED
      BY <1>2, <3>1, <3>2, <3>5
  <2>3. CASE /\ role[f] # Nobodys /\ role2[f] = role[f] /\ mem2[f] = r.mem[f]
             /\ role[f].of \in Nat
    <3>1. PICK o, u : o = role[f].of /\ u = Append(role[f].path, i)
      OBVIOUS
    <3>2. LeadsTo(r.mem[f][i], role, o, u) /\ (o = 0 => r.mem[f][i] # JUNK)
      BY <1>1, <2>1, <2>3, <3>1 DEF Down
    <3>3. o \in Nat /\ Owned(o, u) # Nobodys
      BY <2>3, <3>1, OwnedFacts
    <3>4. LeadsTo(mem2[f][i], role2, o, u)
      BY <1>16, <2>3, <3>2, <3>3 DEF LeadsTo
    <3>5. QED
      BY <2>3, <3>1, <3>2, <3>4
  <2>4. QED
    BY <1>17, <2>1, <2>2, <2>3
<1>22. PointedTo(mem2, role2)
  <2>1. SUFFICES ASSUME NEW f \in Frames, NEW g \in Frames, NEW i \in Idx, role2[f] # Nobodys,
                        role2[g] = Owned(role2[f].of, Append(role2[f].path, i))
                 PROVE  mem2[f][i] = g
    BY DEF PointedTo
  <2>2. \/ \E t \in all : f = new[t] /\ role2[f].of = c /\ role2[f].path = t
        \/ /\ role[f] # Nobodys /\ role2[f] = role[f] /\ mem2[f] = r.mem[f]
           /\ role[f].of # c /\ role[f].of \in Nat
    BY <1>17, <2>1
  <2>3. role2[f].of \in Nat
    BY <1>2, <2>2
  <2>4. /\ role2[g] # Nobodys /\ role2[g].of = role2[f].of
        /\ role2[g].path = Append(role2[f].path, i)
    <3>1. PICK o, u : o \in Nat /\ o = role2[f].of /\ u = Append(role2[f].path, i)
      BY <2>3
    <3>2. role2[g] = Owned(o, u)
      BY <2>1, <3>1
    <3>3. Owned(o, u) # Nobodys /\ Owned(o, u).of = o /\ Owned(o, u).path = u
      BY ONLY <3>1, OwnedFacts
    <3>4. QED
      BY <3>1, <3>2, <3>3
  <2>5. \/ \E t \in all : g = new[t] /\ role2[g].of = c /\ role2[g].path = t
        \/ role[g] # Nobodys /\ role2[g] = role[g] /\ role[g].of # c
    BY <1>17, <2>4
  <2>6. CASE \E t \in all : f = new[t] /\ role2[f].of = c /\ role2[f].path = t
    <3>1. PICK t \in all : f = new[t] /\ role2[f].of = c /\ role2[f].path = t
      BY <2>6
    <3>2. PICK u \in all : g = new[u] /\ role2[g].of = c /\ role2[g].path = u
      BY <2>4, <2>5, <3>1
    <3>3. u = Append(t, i) /\ t \in Seq(Idx) /\ u # <<>>
      BY <1>12, <2>4, <3>1, <3>2, AppendFacts
    <3>4. u \in paths /\ u[1] \in User
      BY <1>10, <1>11, <3>3
    <3>5. EntryOf(c, t, i)
      <4>1. t = <<>> => u[1] = i
        BY <3>3
      <4>2. QED
        BY <1>2, <3>4, <4>1 DEF EntryOf
    <3>6. /\ Len(u) = Len(t) + 1 /\ Walk(r.mem, parent, u) = r.mem[Walk(r.mem, parent, t)][i]
          /\ r.mem[Walk(r.mem, parent, t)][i] # 0 /\ Len(t) + 1 < LEVELS => mem2[new[t]][i] = new[u]
      BY <1>13, <3>3, <3>5
    <3>7. Walk(r.mem, parent, u) # 0 /\ Len(u) < LEVELS
      BY <1>12, Slots
    <3>8. QED
      BY <3>1, <3>2, <3>6, <3>7
  <2>7. CASE /\ role[f] # Nobodys /\ role2[f] = role[f] /\ mem2[f] = r.mem[f]
             /\ role[f].of # c
    <3>1. role2[g] = role[g]
      BY <2>4, <2>5, <2>7
    <3>2. r.mem[f][i] = g
      BY <1>1, <2>1, <2>7, <3>1 DEF PointedTo
    <3>3. QED
      BY <2>7, <3>2
  <2>8. QED
    BY <2>2, <2>6, <2>7
<1>23. Above(role2)
  <2>1. SUFFICES ASSUME NEW g \in Frames, NEW u \in Seq(Idx), role2[g] # Nobodys,
                        Under(u, role2[g].path)
                 PROVE  \E f \in Frames : role2[f] = Owned(role2[g].of, u)
    BY DEF Above
  <2>2. CASE \E t \in all : g = new[t] /\ role2[g].of = c /\ role2[g].path = t
    <3>1. PICK t \in all : g = new[t] /\ role2[g].of = c /\ role2[g].path = t
      BY <2>2
    <3>2. PICK h \in Frames : role[h] = Owned(p, t)
      BY <1>12
    <3>3. role[h] # Nobodys /\ role[h].of = p /\ role[h].path = t
      BY <1>2, <3>2, OwnedFacts
    <3>4. PICK f \in Frames : role[f] = Owned(p, u)
      BY <1>1, <2>1, <3>1, <3>3 DEF Above
    <3>5. role[f] # Nobodys /\ role[f].of = p /\ role[f].path = u
      BY <1>2, <3>4, OwnedFacts
    <3>6. PathOf(p, u)
      BY <1>1, <3>5 DEF RolesOK
    <3>7. u \in all
      <4>1. CASE u = <<>>
        BY <1>11, <4>1
      <4>2. CASE u # <<>>
        <5>1. Len(u) \in 1..(LEVELS - 1) /\ u[1] \in User
          <6>1. Len(u) \in Nat /\ Len(u) # 0 /\ Len(u) < LEVELS /\ u[1] \in User
            BY <1>2, <3>6, <4>2, LenProperties, EmptySeq DEF PathOf
          <6>2. QED
            BY <1>2, <6>1
        <5>2. u \in TablePaths
          BY <5>1, TablePathFacts
        <5>3. QED
          BY <1>5, <1>9, <3>4, <5>2
      <4>3. QED
        BY <4>1, <4>2
    <3>8. QED
      BY <1>11, <1>15, <3>1, <3>7
  <2>3. CASE role[g] # Nobodys /\ role2[g] = role[g] /\ role[g].of \in Nat
    <3>1. PICK f \in Frames : role[f] = Owned(role[g].of, u)
      BY <1>1, <2>1, <2>3 DEF Above
    <3>2. role[f] # Nobodys
      BY <2>3, <3>1, OwnedFacts
    <3>3. QED
      BY <1>16, <2>3, <3>1, <3>2
  <2>4. QED
    BY <1>17, <2>1, <2>2, <2>3
<1>24. TopLevel(mem2, role2)
  <2>1. /\ \A f \in Frames : role[f] # Nobodys /\ role[f].path = <<>> =>
              r.mem[f][SELF] = f /\ r.mem[f][KERNEL] = r.mem[1][KERNEL]
        /\ role[1] = Owned(0, <<>>) /\ \A i \in User : r.mem[1][i] = 0
    BY <1>1 DEF TopLevel
  <2>2. 1 \in Frames /\ role2[1] = Owned(0, <<>>) /\ mem2[1] = r.mem[1]
    BY <1>16, <2>1, Slots, OwnedFacts
  <2>3. ASSUME NEW f \in Frames, role2[f] # Nobodys, role2[f].path = <<>>
        PROVE  mem2[f][SELF] = f /\ mem2[f][KERNEL] = mem2[1][KERNEL]
    <3>1. CASE \E t \in all : f = new[t] /\ role2[f].path = t
      <4>1. f = child
        BY <1>11, <2>3, <3>1
      <4>2. ASSUME NEW i \in Idx, i \notin User PROVE mem2[child][i] = r.mem[child][i]
        <5>1. <<i>> \notin paths
          <6>1. <<i>>[1] = i
            OBVIOUS
          <6>2. QED
            BY <1>10, <4>2, <6>1
        <5>2. QED
          BY <1>7, <1>8, <5>1
      <4>3. QED
        BY <2>2, <4>1, <4>2, Slots
    <3>2. CASE role[f] # Nobodys /\ role2[f] = role[f] /\ mem2[f] = r.mem[f]
      BY <2>1, <2>2, <2>3, <3>2
    <3>3. QED
      BY <1>17, <2>3, <3>1, <3>2
  <2>4. QED
    BY <2>1, <2>2, <2>3 DEF TopLevel
<1>25. Fresh(mem2, r2.used)
  <2>1. SUFFICES ASSUME NEW f \in Frames, f > r2.used PROVE mem2[f] = Found(f)
    BY DEF Fresh
  <2>2. f \in Nat /\ r2.used \in Nat /\ child \in Nat /\ r.used \in Nat
    BY <1>1, <1>6, Slots DEF Rams
  <2>3. f > r.used /\ f # child
    BY <1>6, <2>1, <2>2
  <2>4. \A t \in paths : at[t] # f
    BY <1>7, <1>10, <2>1, <2>2
  <2>5. mem2[f] = r.mem[f]
    BY <1>7, <1>8, <2>3, <2>4
  <2>6. QED
    BY <1>1, <2>3, <2>5 DEF Fresh
<1>26. PICK M2 : M2 = [M EXCEPT ![c] = M[p]]
  OBVIOUS
<1>27. IsMap(M2) /\ M2[c] = M[p] /\ \A o \in Owners : o # c => M2[o] = M[o]
  <2>1. M2[c] = M[p] /\ (\A o \in Owners : o # c => M2[o] = M[o]) /\ DOMAIN M2 = Owners
    BY <1>1, <1>2, <1>26 DEF IsMap
  <2>2. ASSUME NEW o \in Owners PROVE M2[o] \in [PagesOf(o) -> Nat]
    BY <1>1, <1>2, <2>1 DEF IsMap
  <2>3. QED
    BY <2>1, <2>2 DEF IsMap
<1>28. ASSUME ~r2.tainted PROVE Exact(mem2, role2, M2)
  <2>0. ~r.tainted /\ Exact(r.mem, role, M)
    BY <1>1, <1>7, <1>28
  <2>1. SUFFICES ASSUME NEW f \in Frames, NEW i \in Idx, role2[f] # Nobodys,
                        EntryOf(role2[f].of, role2[f].path, i)
                 PROVE  LET o == role2[f].of
                            t == Append(role2[f].path, i)
                        IN  IF Len(t) = LEVELS THEN mem2[f][i] = M2[o][t]
                            ELSE /\ mem2[f][i] # JUNK
                                 /\ mem2[f][i] = 0 => \A v \in PagesOf(o) : Under(t, v) => M2[o][v] = 0
    BY DEF Exact
  <2>10. PICK o, u : o = role2[f].of /\ u = Append(role2[f].path, i)
    OBVIOUS
  <2>11. SUFFICES IF Len(u) = LEVELS THEN mem2[f][i] = M2[o][u]
                 ELSE /\ mem2[f][i] # JUNK
                      /\ mem2[f][i] = 0 => \A v \in PagesOf(o) : Under(u, v) => M2[o][v] = 0
    BY <2>10
  <2>2. CASE \E t \in all : f = new[t] /\ role2[f].of = c /\ role2[f].path = t
    <3>1. PICK t \in all : f = new[t] /\ role2[f].of = c /\ role2[f].path = t
      BY <2>2
    <3>2. PICK h \in Frames : h = Walk(r.mem, parent, t) /\ role[h] = Owned(p, t)
      BY <1>12
    <3>3. o = c /\ u = Append(t, i) /\ EntryOf(c, t, i) /\ EntryOf(p, t, i)
      BY <1>2, <2>1, <2>10, <3>1 DEF EntryOf
    <3>4. IF Len(u) = LEVELS THEN r.mem[h][i] = M[p][u]
          ELSE /\ r.mem[h][i] # JUNK
               /\ r.mem[h][i] = 0 => \A w \in PagesOf(p) : Under(u, w) => M[p][w] = 0
      BY <1>2, <2>0, <3>2, <3>3, ExactAt
    <3>5. /\ Len(u) = Len(t) + 1 /\ Len(t) \in Nat /\ Len(t) < LEVELS
          /\ r.mem[h][i] = 0 => mem2[f][i] = 0
          /\ r.mem[h][i] # 0 /\ Len(t) + 1 < LEVELS => u \in paths /\ mem2[f][i] = new[u]
          /\ r.mem[h][i] # 0 /\ Len(t) + 1 = LEVELS => mem2[f][i] = r.mem[h][i]
      BY <1>12, <1>13, <1>28, <3>1, <3>2, <3>3
    <3>6. CASE Len(u) = LEVELS
      BY <1>27, <3>3, <3>4, <3>5, <3>6
    <3>7. CASE Len(u) # LEVELS
      <4>1. Len(t) + 1 < LEVELS
        BY <1>2, <3>5, <3>7
      <4>2. CASE r.mem[h][i] = 0
        <5>1. mem2[f][i] = 0 /\ JUNK # 0
          BY <3>5, <4>2 DEF JUNK
        <5>2. \A w \in PagesOf(c) : Under(u, w) => M2[c][w] = 0
          BY <1>2, <1>27, <3>4, <3>7, <4>2
        <5>3. QED
          BY <3>3, <3>7, <5>1, <5>2
      <4>3. CASE r.mem[h][i] # 0
        <5>1. mem2[f][i] \in Frames
          BY <1>7, <1>10, <3>5, <4>1, <4>3
        <5>2. QED
          BY <3>7, <5>1, Slots
      <4>4. QED
        BY <4>2, <4>3
    <3>8. QED
      BY <3>6, <3>7
  <2>3. CASE /\ role[f] # Nobodys /\ role2[f] = role[f] /\ mem2[f] = r.mem[f]
             /\ role[f].of # c /\ role[f].of \in Owners /\ role[f].of \in Nat
             /\ role[f] = Owned(role[f].of, role[f].path)
    <3>1. M2[o] = M[o]
      BY <1>27, <2>10, <2>3
    <3>2. IF Len(u) = LEVELS THEN r.mem[f][i] = M[o][u]
          ELSE /\ r.mem[f][i] # JUNK
               /\ r.mem[f][i] = 0 => \A w \in PagesOf(o) : Under(u, w) => M[o][w] = 0
      <4>1. PICK t : t = role[f].path
        OBVIOUS
      <4>2. o \in Nat /\ role[f] = Owned(o, t) /\ EntryOf(o, t, i) /\ u = Append(t, i)
        BY <2>1, <2>10, <2>3, <4>1
      <4>3. QED
        BY <2>0, <4>2, ExactAt
    <3>3. QED
      BY <2>3, <3>1, <3>2
  <2>4. QED
    BY <1>17, <2>1, <2>2, <2>3
<1>29. Good(r2, role2, M2)
  BY <1>6, <1>8, <1>18, <1>19, <1>20, <1>21, <1>22, <1>23, <1>24, <1>25, <1>27, <1>28 DEF Good, Forest
<1>30. role2[child] = Owned(c, <<>>)
  BY <1>11, <1>15
<1>31. /\ \A f \in Frames : role[f] # Nobodys => role2[f] = role[f]
       /\ \A f \in Frames : role2[f] = role[f] \/ role2[f].of = c
  <2>1. ASSUME NEW f \in Frames PROVE role2[f] = role[f] \/ role2[f].of = c
    <3>1. CASE \E t \in all : new[t] = f
      <4>1. PICK t \in all : new[t] = f
        BY <3>1
      <4>2. role2[f] = Owned(c, t) /\ Owned(c, t).of = c
        BY <1>2, <1>15, <4>1, OwnedFacts
      <4>3. QED
        BY <4>2
    <3>2. CASE ~\E t \in all : new[t] = f
      BY <1>15, <3>2
    <3>3. QED
      BY <3>1, <3>2
  <2>2. QED
    BY <1>16, <2>1
<1>32. QED
  BY <1>6, <1>26, <1>29, <1>30, <1>31 DEF MapsCopied

(* The same, from one fact to one. *)
CowAsked(r, role, M, p, c, parent, child) ==
    /\ Good(r, role, M) /\ p \in Pids /\ c \in Pids
    /\ parent \in Frames /\ role[parent] = Owned(p, <<>>)
    /\ child \in Frames /\ role[child] = Nobodys /\ child <= r.used
    /\ \A g \in Frames : role[g].of # c
    /\ r.mem[child][SELF] = child /\ r.mem[child][KERNEL] = r.mem[1][KERNEL]
    /\ \A i \in User : r.mem[child][i] = r.mem[parent][i]
    /\ \A t \in TablePaths : Walk(r.mem, parent, t) # JUNK
    /\ r.used + Cardinality(Copied(r, parent)) <= MaxFrames
CowGiven(r, role, M, p, c, child, r2) ==
    /\ r.used <= r2.used /\ r2.kvirt = r.kvirt /\ r2.kmapped = r.kmapped
    /\ \E role2 :
          /\ Good(r2, role2, MapsCopied(M, c, p))
          /\ role2[child] = Owned(c, <<>>)
          /\ \A f \in Frames : role[f] # Nobodys => role2[f] = role[f]
          /\ \A f \in Frames : role2[f] = role[f] \/ role2[f].of = c

(* What a fork needs of the tables is what mark_COW passes on.              *)
LEMMA CowInherits ==
    ASSUME NEW r, NEW role, NEW M, NEW p, NEW c, NEW parent, NEW child,
           CowAsked(r, role, M, p, c, parent, child), NEW r2, r2 = mark_COW(r, parent, child)
    PROVE  CowGiven(r, role, M, p, c, child, r2)
<1>1. /\ Good(r, role, M) /\ p \in Pids /\ c \in Pids
      /\ parent \in Frames /\ role[parent] = Owned(p, <<>>)
      /\ child \in Frames /\ role[child] = Nobodys /\ child <= r.used
      /\ \A g \in Frames : role[g].of # c
      /\ r.mem[child][SELF] = child /\ r.mem[child][KERNEL] = r.mem[1][KERNEL]
      /\ \A i \in User : r.mem[child][i] = r.mem[parent][i]
      /\ \A t \in TablePaths : Walk(r.mem, parent, t) # JUNK
      /\ r.used + Cardinality(Copied(r, parent)) <= MaxFrames
  BY DEF CowAsked
<1>2. /\ r.used <= r2.used /\ r2.kvirt = r.kvirt /\ r2.kmapped = r.kmapped
      /\ \E role2 :
            /\ Good(r2, role2, MapsCopied(M, c, p))
            /\ role2[child] = Owned(c, <<>>)
            /\ \A f \in Frames : role[f] # Nobodys => role2[f] = role[f]
            /\ \A f \in Frames : role2[f] = role[f] \/ role2[f].of = c
  BY <1>1, CowGood
<1>3. QED
  BY <1>2 DEF CowGiven

(* All tables once the kernel has its own: pm are the top levels of the       *)
(* processes, found what they should find at their pages.                    *)
TablesOf(r, pm, found, role, M) ==
    /\ Good(r, role, M) /\ KernelAt(r, M) /\ HasKernel(role)
    /\ \A p \in Pids : pm[p] = 0 => \A f \in Frames : role[f].of # p
    /\ \A p \in Pids : pm[p] # 0 => pm[p] \in Frames /\ role[pm[p]] = Owned(p, <<>>)
    /\ \A p \in Pids : M[p] = found[p]

(* Kernel pages and unused frames concern no process. *)
LEMMA TablesKept ==
    ASSUME NEW r, NEW pm, NEW found, NEW role, NEW M, TablesOf(r, pm, found, role, M),
           NEW r2, NEW role2, NEW M2, Good(r2, role2, M2), KernelAt(r2, M2), HasKernel(role2),
           Grown(role, role2, 0, r.used), \A o \in Owners : o # 0 => M2[o] = M[o]
    PROVE  TablesOf(r2, pm, found, role2, M2)
<1>1. ASSUME NEW p \in Pids PROVE p \in Owners /\ p # 0 /\ p \in Nat
  BY Slots DEF Pids, Owners
<1>2. ASSUME NEW p \in Pids, pm[p] = 0 PROVE \A f \in Frames : role2[f].of # p
  <2>1. \A f \in Frames : role[f].of # p
    BY <1>2 DEF TablesOf
  <2>2. QED
    BY <1>1, <2>1, GrownOwners DEF Good
<1>3. ASSUME NEW p \in Pids, pm[p] # 0 PROVE pm[p] \in Frames /\ role2[pm[p]] = Owned(p, <<>>)
  <2>1. pm[p] \in Frames /\ role[pm[p]] = Owned(p, <<>>)
    BY <1>3 DEF TablesOf
  <2>2. role[pm[p]] # Nobodys
    BY <1>1, <2>1, OwnedFacts
  <2>3. QED
    BY <2>1, <2>2 DEF Grown
<1>4. \A p \in Pids : M2[p] = found[p]
  BY <1>1 DEF TablesOf
<1>5. QED
  BY <1>2, <1>3, <1>4 DEF TablesOf

(* The table every other copies the kernel's entry of. *)
LEMMA KernelRoot ==
    ASSUME NEW r, NEW role, NEW M, Good(r, role, M)
    PROVE  1 \in Frames /\ role[1] = Owned(0, <<>>) /\ role[1] # Nobodys /\ role[1].path = <<>>
<1>1. role[1] = Owned(0, <<>>) /\ 1 \in Frames
  BY Slots DEF Good, Forest, TopLevel
<1>2. QED
  BY <1>1, OwnedFacts

(* The active table of a process is the one its pcb names. *)
LEMMA ProcessRoot ==
    ASSUME NEW r, NEW pm, NEW found, NEW role, NEW M, TablesOf(r, pm, found, role, M),
           NEW p \in Pids, pm[p] # 0
    PROVE  /\ pm[p] \in Frames /\ role[pm[p]] = Owned(p, <<>>) /\ role[pm[p]] # Nobodys
           /\ role[pm[p]].path = <<>> /\ r.mem[pm[p]][SELF] = pm[p]
           /\ r.mem[pm[p]][KERNEL] = r.mem[1][KERNEL]
<1>1. pm[p] \in Frames /\ role[pm[p]] = Owned(p, <<>>) /\ p \in Nat
  BY DEF TablesOf, Pids
<1>2. role[pm[p]] # Nobodys /\ role[pm[p]].path = <<>>
  BY <1>1, OwnedFacts
<1>3. TopLevel(r.mem, role)
  BY DEF TablesOf, Good, Forest
<1>4. QED
  BY <1>1, <1>2, <1>3 DEF TopLevel

(* get_new_page_v, with all tables in view. *)
LEMMA StackMapped ==
    ASSUME NEW r, NEW pm, NEW found, NEW role, NEW M, TablesOf(r, pm, found, role, M),
           r.used + LEVELS <= MaxFrames, NEW root \in Frames, role[root] # Nobodys,
           role[root].path = <<>>, NEW r2, r2 = get_new_page_v(r, root)
    PROVE  \E role2, M2 :
              /\ TablesOf(r2, pm, found, role2, M2) /\ Grown(role, role2, 0, r.used)
              /\ r2.used \in Nat /\ r.used < r2.used /\ r2.used <= r.used + LEVELS
<1>1. Good(r, role, M) /\ KernelAt(r, M) /\ HasKernel(role)
  BY DEF TablesOf
<1>2. PICK role2, M2 :
         /\ Good(r2, role2, M2) /\ KernelAt(r2, M2) /\ HasKernel(role2)
         /\ Grown(role, role2, 0, r.used)
         /\ \A o \in Owners : o # 0 => M2[o] = M[o]
         /\ r.used < r2.used /\ r2.used <= r.used + LEVELS
  BY <1>1, NewPageV
<1>3. TablesOf(r2, pm, found, role2, M2)
  BY <1>2, TablesKept
<1>4. r2.used \in Nat
  BY <1>2 DEF Good, Rams
<1>5. QED
  BY <1>2, <1>3, <1>4

(* A copy of the active top level, but for its self-referencing entry.        *)
TopCopied(r, n, root) ==
    /\ r.mem[n][SELF] = n
    /\ \A i \in Idx : i # SELF => r.mem[n][i] = r.mem[root][i]

(* get_new_page_table, with all tables in view. *)
LEMMA TableMade ==
    ASSUME NEW r, NEW pm, NEW found, NEW role, NEW M, TablesOf(r, pm, found, role, M),
           r.used + LEVELS <= MaxFrames, NEW root \in Frames, role[root] # Nobodys,
           role[root].path = <<>>, NEW r2, r2 = get_new_page_table(r, root),
           NEW n, n = r.used + 1
    PROVE  \E role2, M2 :
              /\ TablesOf(r2, pm, found, role2, M2) /\ Grown(role, role2, 0, r.used)
              /\ r2.used \in Nat /\ r.used < r2.used /\ r2.used <= r.used + LEVELS
              /\ n \in Frames /\ role2[n] = Nobodys /\ n <= r2.used /\ TopCopied(r2, n, root)
<1>1. Good(r, role, M) /\ KernelAt(r, M) /\ HasKernel(role)
  BY DEF TablesOf
<1>2. PICK role2, M2 :
         /\ Good(r2, role2, M2) /\ KernelAt(r2, M2) /\ HasKernel(role2)
         /\ Grown(role, role2, 0, r.used)
         /\ \A o \in Owners : o # 0 => M2[o] = M[o]
         /\ r.used < r2.used /\ r2.used <= r.used + LEVELS
         /\ n \in Frames /\ role2[n] = Nobodys
         /\ r2.mem[n][SELF] = n
         /\ \A i \in Idx : i # SELF => r2.mem[n][i] = r2.mem[root][i]
  BY <1>1, NewPageTable
<1>3. TablesOf(r2, pm, found, role2, M2)
  BY <1>2, TablesKept
<1>4. r2.used \in Nat /\ r.used \in Nat
  BY <1>1, <1>2 DEF Good, Rams
<1>5. n <= r2.used
  BY <1>2, <1>4
<1>6. TopCopied(r2, n, root)
  BY <1>2 DEF TopCopied
<1>7. QED
  BY <1>2, <1>3, <1>4, <1>5, <1>6

(* The same for a table whose number is known by another name. *)
TableAsked(r, pm, found, role, M, root) ==
    /\ TablesOf(r, pm, found, role, M) /\ r.used + LEVELS <= MaxFrames
    /\ root \in Frames /\ role[root] # Nobodys /\ role[root].path = <<>>
TableGot(r, pm, found, r2, n, root) ==
    \E role2, M2 :
       /\ TablesOf(r2, pm, found, role2, M2) /\ r2.used \in Nat /\ r2.used <= r.used + LEVELS
       /\ n \in Frames /\ role2[n] = Nobodys /\ n <= r2.used /\ TopCopied(r2, n, root)

(* What get_new_page_table needs of the tables, and what it gives.          *)
LEMMA TableGiven ==
    ASSUME NEW r, NEW pm, NEW found, NEW role, NEW M, NEW root,
           TableAsked(r, pm, found, role, M, root), NEW r2, r2 = get_new_page_table(r, root),
           NEW n, n = r.used + 1
    PROVE  TableGot(r, pm, found, r2, n, root)
<1>1. /\ TablesOf(r, pm, found, role, M) /\ r.used + LEVELS <= MaxFrames
      /\ root \in Frames /\ role[root] # Nobodys /\ role[root].path = <<>>
  BY DEF TableAsked
<1>2. PICK role2, M2 :
         /\ TablesOf(r2, pm, found, role2, M2) /\ Grown(role, role2, 0, r.used)
         /\ r2.used \in Nat /\ r.used < r2.used /\ r2.used <= r.used + LEVELS
         /\ n \in Frames /\ role2[n] = Nobodys /\ n <= r2.used /\ TopCopied(r2, n, root)
  BY <1>1, TableMade
<1>3. QED
  BY <1>2 DEF TableGot

(* The top levels of the processes when p gets n for one. *)
WithTable(pm, p, n) == [pm EXCEPT ![p] = n]

(* A process of init's: its table is made on the kernel's, and has no page.   *)
LEMMA FirstTable ==
    ASSUME NEW r, NEW pm \in [Pids -> Nat], NEW found, NEW role, NEW M,
           TablesOf(r, pm, found, role, M), r.used + LEVELS <= MaxFrames,
           NEW p \in Pids, pm[p] = 0, \A v \in VUser : found[p][v] = 0,
           NEW root, root = 1, NEW r2, r2 = get_new_page_table(r, root),
           NEW n, n = r.used + 1, NEW pm2, pm2 = WithTable(pm, p, n)
    PROVE  \E role2, M2 :
              /\ TablesOf(r2, pm2, found, role2, M2)
              /\ r2.used \in Nat /\ r.used < r2.used /\ r2.used <= r.used + LEVELS
              /\ n \in Nat /\ n # 0
<1>1. 1 \in Frames /\ role[1] = Owned(0, <<>>) /\ role[1] # Nobodys /\ role[1].path = <<>>
  BY KernelRoot DEF TablesOf
<1>2. root = 1
  OBVIOUS
<1>3. PICK role1, M2 :
         /\ TablesOf(r2, pm, found, role1, M2) /\ Grown(role, role1, 0, r.used)
         /\ r2.used \in Nat /\ r.used < r2.used /\ r2.used <= r.used + LEVELS
         /\ n \in Frames /\ role1[n] = Nobodys /\ n <= r2.used
         /\ r2.mem[n][SELF] = n
         /\ \A i \in Idx : i # SELF => r2.mem[n][i] = r2.mem[root][i]
  BY <1>1, <1>2, TableMade DEF TopCopied
<1>4. /\ Good(r2, role1, M2) /\ KernelAt(r2, M2) /\ HasKernel(role1)
      /\ \A q \in Pids : pm[q] = 0 => \A f \in Frames : role1[f].of # q
      /\ \A q \in Pids : pm[q] # 0 => pm[q] \in Frames /\ role1[pm[q]] = Owned(q, <<>>)
      /\ \A q \in Pids : M2[q] = found[q]
  BY <1>3 DEF TablesOf
<1>5. /\ r2.mem[n][KERNEL] = r2.mem[1][KERNEL]
      /\ \A i \in User : r2.mem[n][i] = 0
  <2>1. \A i \in User : r2.mem[1][i] = 0
    BY <1>4 DEF Good, Forest, TopLevel
  <2>2. QED
    BY <1>2, <1>3, <2>1, Slots
<1>6. PICK role2 : role2 = [role1 EXCEPT ![n] = Owned(p, <<>>)]
  OBVIOUS
<1>7. Good(r2, role2, M2)
  <2>1. (\A g \in Frames : role1[g].of # p) /\ \A v \in VUser : M2[p][v] = 0
    BY <1>4
  <2>2. QED
    BY <1>3, <1>4, <1>5, <1>6, <2>1, NewRoot
<1>8. role1 \in RoleSet /\ DOMAIN role1 = Frames
  BY <1>4 DEF Good, RoleSet
<1>9. role2[n] = Owned(p, <<>>) /\ \A f \in Frames : f # n => role2[f] = role1[f]
  BY <1>3, <1>6, <1>8
<1>10. p \in Nat /\ p # 0 /\ \A q \in Pids : q \in Nat
  BY DEF Pids
<1>11. HasKernel(role2)
  <2>1. PICK g \in Frames : role1[g] = Owned(0, Append(<<>>, KERNEL))
    BY <1>4 DEF HasKernel
  <2>2. g # n
    BY <1>3, <2>1, OwnedFacts
  <2>3. QED
    BY <1>9, <2>1, <2>2 DEF HasKernel
<1>12. pm2 = [pm EXCEPT ![p] = n]
  BY DEF WithTable
<1>13. n \in Nat /\ n # 0 /\ pm2[p] = n /\ \A q \in Pids : q # p => pm2[q] = pm[q]
  BY <1>3, <1>12, Slots
<1>14. ASSUME NEW q \in Pids, pm2[q] = 0 PROVE \A f \in Frames : role2[f].of # q
  <2>1. q # p /\ pm[q] = 0
    BY <1>13, <1>14
  <2>2. Owned(p, <<>>).of = p
    BY <1>10, OwnedFacts
  <2>3. QED
    BY <1>4, <1>9, <2>1, <2>2
<1>15. ASSUME NEW q \in Pids, pm2[q] # 0
       PROVE  pm2[q] \in Frames /\ role2[pm2[q]] = Owned(q, <<>>)
  <2>1. CASE q = p
    BY <1>3, <1>9, <1>13, <2>1
  <2>2. CASE q # p
    <3>1. pm2[q] = pm[q] /\ pm[q] \in Frames /\ role1[pm[q]] = Owned(q, <<>>)
      BY <1>4, <1>13, <1>15, <2>2
    <3>2. pm[q] # n
      <4>1. q \in Nat /\ Owned(q, <<>>) # Nobodys
        BY <1>10, OwnedFacts
      <4>2. role1[n] = Nobodys
        BY <1>3
      <4>3. QED
        BY <3>1, <4>1, <4>2
    <3>3. QED
      BY <1>9, <3>1, <3>2
  <2>3. QED
    BY <2>1, <2>2
<1>16. TablesOf(r2, pm2, found, role2, M2)
  BY <1>4, <1>7, <1>11, <1>14, <1>15 DEF TablesOf
<1>17. QED
  BY <1>3, <1>12, <1>13, <1>16

(* setup_paging: the kernel's table over memory as it was found.              *)
LEMMA BootDone ==
    ASSUME NEW pm, \A p \in Pids : pm[p] = 0,
           NEW found, \A p \in Pids : found[p] = [v \in VUser |-> 0],
           2 * LEVELS <= MaxFrames,
           NEW r, r = [mem |-> [f \in Frames |-> Found(f)], used |-> 0, kvirt |-> 0,
                       kmapped |-> <<>>, tainted |-> FALSE],
           NEW b, b = [ZeroOut([r EXCEPT !.used = 1], 1) EXCEPT !.mem[1][SELF] = 1],
           NEW r2, r2 = k_map_v(k_map_v(b, 1, KernelImage), 1, Display)
    PROVE  \E role, M : TablesOf(r2, pm, found, role, M)
<1>1. 1 \in Frames /\ SELF \in Idx /\ \A f \in Frames : Found(f) \in [Idx -> Int]
  BY Slots DEF Found, JUNK
<1>2. PICK a : a = ZeroOut([r EXCEPT !.used = 1], 1)
  OBVIOUS
<1>3. a = [mem |-> [f \in Frames |-> IF f = 1 THEN Zeros ELSE Found(f)], used |-> 1,
           kvirt |-> 0, kmapped |-> <<>>, tainted |-> FALSE]
  BY <1>1, <1>2 DEF ZeroOut
<1>4. PICK m1, first, memory :
         /\ m1 = [f \in Frames |-> IF f = 1 THEN Zeros ELSE Found(f)]
         /\ first = [Zeros EXCEPT ![SELF] = 1] /\ memory = [m1 EXCEPT ![1] = first]
  OBVIOUS
<1>5. b = [a EXCEPT !.mem = memory]
  <2>1. a.mem = m1 /\ m1[1] = Zeros
    BY <1>1, <1>3, <1>4
  <2>2. b = [a EXCEPT !.mem[1][SELF] = 1]
    BY <1>2
  <2>3. b = [a EXCEPT !.mem = [m1 EXCEPT ![1] = [Zeros EXCEPT ![SELF] = 1]]]
    BY <2>1, <2>2
  <2>4. QED
    BY <1>4, <2>3
<1>6. first \in [Idx -> Int] /\ first[SELF] = 1 /\ \A i \in Idx : i # SELF => first[i] = 0
  BY <1>1, <1>4 DEF Zeros
<1>7. Zeros \in [Idx -> Int]
  BY DEF Zeros
<1>8. memory \in [Frames -> [Idx -> Int]] /\ memory[1] = first /\ \A f \in Frames : f # 1 => memory[f] = Found(f)
  <2>1. m1 \in [Frames -> [Idx -> Int]]
    BY <1>1, <1>4, <1>7
  <2>2. QED
    BY <1>1, <1>4, <1>6, <2>1
<1>9. /\ b \in Rams /\ b.used = 1 /\ b.kvirt = 0 /\ b.kmapped = <<>> /\ ~b.tainted
      /\ b.mem[1][SELF] = 1 /\ \A i \in Idx : i # SELF => b.mem[1][i] = 0
      /\ \A f \in Frames : f # 1 => b.mem[f] = Found(f)
  <2>1. b = [mem |-> memory, used |-> 1, kvirt |-> 0, kmapped |-> <<>>, tainted |-> FALSE]
    BY <1>3, <1>5
  <2>2. <<>> \in Seq(Int) /\ 1 \in Nat /\ 0 \in Nat /\ FALSE \in BOOLEAN
    OBVIOUS
  <2>3. b.mem = memory /\ b.used = 1 /\ b.kvirt = 0 /\ b.kmapped = <<>> /\ b.tainted = FALSE
    BY <2>1
  <2>4. b \in Rams
    <3>1. PICK e, no : e = <<>> /\ no = FALSE
      OBVIOUS
    <3>2. /\ b = [mem |-> memory, used |-> 1, kvirt |-> 0, kmapped |-> e, tainted |-> no]
          /\ e \in Seq(Int) /\ no \in BOOLEAN /\ memory \in [Frames -> [Idx -> Int]]
      <4>1. b = [mem |-> memory, used |-> 1, kvirt |-> 0, kmapped |-> e, tainted |-> no]
        BY <2>1, <3>1, Zenon
      <4>2. e \in Seq(Int) /\ no \in BOOLEAN
        BY <2>2, <3>1, Zenon
      <4>3. QED
        BY <1>8, <4>1, <4>2, Zenon
    <3>3. QED
      BY ONLY <3>2 DEF Rams
  <2>5. ~b.tainted
    BY <2>3
  <2>6. QED
    BY <1>6, <1>8, <2>3, <2>4, <2>5
<1>10. PICK role, M :
          /\ Good(b, role, M) /\ KernelAt(b, M) /\ OnlyKernel(role)
          /\ \A f \in Frames, p \in Pids : role[f].of # p
          /\ \A p \in Pids, v \in VUser : M[p][v] = 0
  BY <1>9, BootRoot
<1>11. PICK role2, M2 :
          /\ Good(r2, role2, M2) /\ KernelAt(r2, M2) /\ HasKernel(role2)
          /\ \A f \in Frames, p \in Pids : role2[f].of # p
          /\ \A p \in Pids, v \in VUser : M2[p][v] = 0
  <2>1. /\ Good(b, role, M) /\ KernelAt(b, M) /\ OnlyKernel(role)
        /\ b.used = 1 /\ b.kvirt = 0 /\ 2 * LEVELS <= MaxFrames
        /\ \A f \in Frames, p \in Pids : role[f].of # p
        /\ \A p \in Pids, v \in VUser : M[p][v] = 0
    BY <1>9, <1>10
  <2>2. r2 = k_map_v(k_map_v(b, 1, KernelImage), 1, Display)
    OBVIOUS
  <2>3. QED
    BY ONLY <2>1, <2>2, PagingSet
<1>12. ASSUME NEW p \in Pids PROVE M2[p] = found[p]
  <2>1. p \in Owners /\ PagesOf(p) = VUser
    BY Slots DEF Pids, Owners, PagesOf
  <2>2. M2[p] \in [VUser -> Nat]
    BY <1>11, <2>1 DEF Good, IsMap
  <2>3. QED
    BY <1>11, <2>2
<1>13. QED
  BY <1>11, <1>12 DEF TablesOf

(* What init does, call by call. *)
InitCalls(r, pm, root, a, idle, b, shell, n1, n2, r2, pm2) ==
    /\ root = 1 /\ a = get_new_page_v(r, root) /\ idle = get_new_page_v(a, root)
    /\ b = get_new_page_table(idle, root) /\ shell = get_new_page_v(b, root)
    /\ r2 = get_new_page_table(shell, root)
    /\ n1 = idle.used + 1 /\ n2 = shell.used + 1
    /\ pm2 = [pm EXCEPT ![1] = n1, ![2] = n2]

(* init: the idle process and the shell.                                      *)
LEMMA InitDone ==
    ASSUME NEW r, NEW pm \in [Pids -> Nat], NEW found, NEW role, NEW M,
           TablesOf(r, pm, found, role, M), r.used + 5 * LEVELS <= MaxFrames,
           \A p \in Pids : pm[p] = 0, \A p \in Pids : found[p] = [v \in VUser |-> 0],
           NEW root, NEW a, NEW idle, NEW b, NEW shell, NEW n1, NEW n2, NEW r2, NEW pm2,
           InitCalls(r, pm, root, a, idle, b, shell, n1, n2, r2, pm2)
    PROVE  pm2 \in [Pids -> Nat] /\ \E role2, M2 : TablesOf(r2, pm2, found, role2, M2)
<1>0. /\ root = 1 /\ a = get_new_page_v(r, root) /\ idle = get_new_page_v(a, root)
      /\ b = get_new_page_table(idle, root) /\ shell = get_new_page_v(b, root)
      /\ r2 = get_new_page_table(shell, root)
      /\ n1 = idle.used + 1 /\ n2 = shell.used + 1
      /\ pm2 = [pm EXCEPT ![1] = n1, ![2] = n2]
  BY DEF InitCalls
<1> USE <1>0
<1>1. LEVELS \in Nat /\ MaxFrames \in Nat /\ r.used \in Nat /\ 1 \in Pids /\ 2 \in Pids
  BY Slots, TableAssumption DEF TablesOf, Good, Rams, Pids
<1>2. ASSUME NEW x, NEW q, NEW rl, NEW m, TablesOf(x, q, found, rl, m)
      PROVE  root \in Frames /\ rl[root] # Nobodys /\ rl[root].path = <<>>
  BY <1>2, KernelRoot DEF TablesOf
<1>3. PICK role1, M1 :
         TablesOf(a, pm, found, role1, M1) /\ a.used \in Nat /\ a.used <= r.used + LEVELS
  <2>1. r.used + LEVELS <= MaxFrames
    BY <1>1
  <2>2. root \in Frames /\ role[root] # Nobodys /\ role[root].path = <<>>
    BY <1>2
  <2>3. QED
    BY <2>1, <2>2, StackMapped
<1>4. PICK role2, M2 :
         TablesOf(idle, pm, found, role2, M2) /\ idle.used \in Nat /\ idle.used <= a.used + LEVELS
  <2>1. a.used + LEVELS <= MaxFrames
    BY <1>1, <1>3
  <2>2. root \in Frames /\ role1[root] # Nobodys /\ role1[root].path = <<>>
    BY <1>2, <1>3
  <2>3. QED
    BY <1>3, <2>1, <2>2, StackMapped
<1>5. PICK p1, p2, pm1 : p1 = 1 /\ p2 = 2 /\ pm1 = [pm EXCEPT ![p1] = n1]
  OBVIOUS
<1>6. n1 \in Nat /\ pm1 \in [Pids -> Nat] /\ pm1[p2] = 0 /\ p1 \in Pids /\ p2 \in Pids /\ p1 # p2
  <2>1. n1 \in Nat
    BY <1>4
  <2>2. QED
    BY <1>1, <1>5, <2>1
<1>7. pm2 = [pm1 EXCEPT ![p2] = n2]
  BY <1>5
<1>8. PICK role3, M3 :
         TablesOf(b, pm1, found, role3, M3) /\ b.used \in Nat /\ b.used <= idle.used + LEVELS
  <2>1. /\ pm \in [Pids -> Nat] /\ TablesOf(idle, pm, found, role2, M2)
        /\ idle.used + LEVELS <= MaxFrames /\ p1 \in Pids /\ pm[p1] = 0
        /\ \A v \in VUser : found[p1][v] = 0
        /\ root = 1 /\ b = get_new_page_table(idle, root) /\ n1 = idle.used + 1
        /\ pm1 = WithTable(pm, p1, n1)
    BY <1>1, <1>3, <1>4, <1>5, <1>6 DEF WithTable
  <2>2. \E rl, m : /\ TablesOf(b, pm1, found, rl, m)
                   /\ b.used \in Nat /\ idle.used < b.used /\ b.used <= idle.used + LEVELS
                   /\ n1 \in Nat /\ n1 # 0
    BY ONLY <2>1, FirstTable
  <2>3. QED
    BY <2>2
<1>9. PICK role4, M4 :
         TablesOf(shell, pm1, found, role4, M4) /\ shell.used \in Nat /\ shell.used <= b.used + LEVELS
  <2>1. b.used + LEVELS <= MaxFrames
    BY <1>1, <1>3, <1>4, <1>8
  <2>2. root \in Frames /\ role3[root] # Nobodys /\ role3[root].path = <<>>
    BY <1>2, <1>8
  <2>3. QED
    BY <1>8, <2>1, <2>2, StackMapped
<1>10. \E rl, m : TablesOf(r2, pm2, found, rl, m)
  <2>1. /\ pm1 \in [Pids -> Nat] /\ TablesOf(shell, pm1, found, role4, M4)
        /\ shell.used + LEVELS <= MaxFrames /\ p2 \in Pids /\ pm1[p2] = 0
        /\ \A v \in VUser : found[p2][v] = 0
        /\ root = 1 /\ r2 = get_new_page_table(shell, root) /\ n2 = shell.used + 1
        /\ pm2 = WithTable(pm1, p2, n2)
    <3>1. shell.used + LEVELS <= MaxFrames
      BY <1>1, <1>3, <1>4, <1>8, <1>9
    <3>2. \A v \in VUser : found[p2][v] = 0
      BY <1>6
    <3>3. QED
      BY <1>6, <1>7, <1>9, <3>1, <3>2 DEF WithTable
  <2>2. \E rl, m : /\ TablesOf(r2, pm2, found, rl, m)
                   /\ r2.used \in Nat /\ shell.used < r2.used /\ r2.used <= shell.used + LEVELS
                   /\ n2 \in Nat /\ n2 # 0
    BY ONLY <2>1, FirstTable
  <2>3. QED
    BY <2>2
<1>11. pm2 \in [Pids -> Nat]
  <2>1. n2 \in Nat
    BY <1>9
  <2>2. pm1 \in [Pids -> Nat] /\ p2 \in Pids /\ pm2 = [pm1 EXCEPT ![p2] = n2]
    BY <1>6, <1>7
  <2>3. QED
    BY ONLY <2>1, <2>2
<1>12. QED
  BY <1>10, <1>11

(* What add_physical_page_in does. *)
PageCalls(r, pm, found, p, v, r2, found2) ==
    /\ r2 = map_page([r EXCEPT !.used = r.used + 1], pm[p], v, r.used + 1)
    /\ found2 = [found EXCEPT ![p][v] = r.used + 1]

(* add_physical_page_in: the frame is found where it was missed.              *)
LEMMA PageIn ==
    ASSUME NEW r, NEW pm, NEW found \in [Pids -> [VUser -> Nat]], NEW role, NEW M,
           TablesOf(r, pm, found, role, M), r.used + LEVELS <= MaxFrames,
           NEW p \in Pids, pm[p] # 0, NEW v \in VUser, Walk(r.mem, pm[p], v) = 0,
           NEW r2, NEW found2, PageCalls(r, pm, found, p, v, r2, found2)
    PROVE  /\ found2 \in [Pids -> [VUser -> Nat]]
           /\ \E role2, M2 : TablesOf(r2, pm, found2, role2, M2)
<1>0. PICK n : /\ n = r.used + 1 /\ r2 = map_page([r EXCEPT !.used = n], pm[p], v, n)
               /\ found2 = [found EXCEPT ![p][v] = n]
  BY DEF PageCalls
<1>1. /\ Good(r, role, M) /\ KernelAt(r, M) /\ HasKernel(role)
      /\ \A q \in Pids : pm[q] = 0 => \A f \in Frames : role[f].of # q
      /\ \A q \in Pids : pm[q] # 0 => pm[q] \in Frames /\ role[pm[q]] = Owned(q, <<>>)
      /\ \A q \in Pids : M[q] = found[q]
  BY DEF TablesOf
<1>2. PICK M2 : M2 = [M EXCEPT ![p][v] = n]
  OBVIOUS
<1>3. PICK role2 : /\ Good(r2, role2, M2) /\ KernelAt(r2, M2) /\ HasKernel(role2)
                   /\ Grown(role, role2, p, r.used)
  <2>1. PICK root \in Frames : root = pm[p] /\ role[root] = Owned(p, <<>>)
    BY <1>1
  <2>2. /\ Good(r, role, M) /\ KernelAt(r, M) /\ HasKernel(role) /\ r.used + LEVELS <= MaxFrames
        /\ p \in Pids /\ v \in VUser /\ Walk(r.mem, root, v) = 0
    BY <1>1, <2>1
  <2>3. \E rl : /\ Good(map_page([r EXCEPT !.used = r.used + 1], root, v, r.used + 1), rl,
                        [M EXCEPT ![p][v] = r.used + 1])
                /\ KernelAt(map_page([r EXCEPT !.used = r.used + 1], root, v, r.used + 1),
                            [M EXCEPT ![p][v] = r.used + 1])
                /\ HasKernel(rl) /\ Grown(role, rl, p, r.used)
    BY ONLY <2>1, <2>2, UserPage
  <2>4. QED
    BY <1>0, <1>2, <2>1, <2>3
<1>4. p \in Owners /\ DOMAIN M = Owners /\ \A q \in Pids : q \in Owners /\ q \in Nat
  BY <1>1, Slots DEF Good, IsMap, Pids, Owners
<1>5. \A q \in Pids : M2[q] = found2[q]
  BY <1>0, <1>1, <1>2, <1>4
<1>6. n \in Nat /\ found2 \in [Pids -> [VUser -> Nat]]
  <2>1. n \in Nat
    BY <1>0, <1>1 DEF Good, Rams
  <2>2. QED
    BY <1>0, <2>1
<1>7. ASSUME NEW q \in Pids, pm[q] = 0 PROVE \A f \in Frames : role2[f].of # q
  <2>1. SUFFICES ASSUME NEW f \in Frames PROVE role2[f].of # q
    OBVIOUS
  <2>2. role[f].of # q /\ q # p /\ q \in Nat
    BY <1>1, <1>4, <1>7
  <2>3. Nobodys.of # q
    BY <2>2 DEF Nobodys, Owned
  <2>4. QED
    BY <1>3, <2>2, <2>3 DEF Grown
<1>8. ASSUME NEW q \in Pids, pm[q] # 0 PROVE pm[q] \in Frames /\ role2[pm[q]] = Owned(q, <<>>)
  <2>1. role[pm[q]] # Nobodys
    BY <1>1, <1>4, <1>8, OwnedFacts
  <2>2. QED
    BY <1>1, <1>3, <1>8, <2>1 DEF Grown
<1>9. Good(r2, role2, M2) /\ KernelAt(r2, M2) /\ HasKernel(role2)
  BY <1>3
<1>10. TablesOf(r2, pm, found2, role2, M2)
  BY ONLY <1>5, <1>7, <1>8, <1>9 DEF TablesOf
<1>11. QED
  BY <1>6, <1>10

(* execve: the pages below the first entry are gone, no others.               *)
LEMMA EntryDropped ==
    ASSUME NEW r, NEW pm, NEW found \in [Pids -> [VUser -> Nat]], NEW role, NEW M,
           TablesOf(r, pm, found, role, M), NEW p \in Pids, pm[p] # 0,
           NEW r2, r2 = EntryCleared(r, pm[p]),
           NEW found2,
           found2 = [found EXCEPT ![p] = PagesLeft(found[p])]
    PROVE  /\ found2 \in [Pids -> [VUser -> Nat]]
           /\ \E role2, M2 : TablesOf(r2, pm, found2, role2, M2)
<1>1. /\ Good(r, role, M) /\ KernelAt(r, M) /\ HasKernel(role)
      /\ \A q \in Pids : pm[q] = 0 => \A f \in Frames : role[f].of # q
      /\ \A q \in Pids : pm[q] # 0 => pm[q] \in Frames /\ role[pm[q]] = Owned(q, <<>>)
      /\ \A q \in Pids : M[q] = found[q]
  BY DEF TablesOf
<1>2. /\ p \in Owners /\ DOMAIN M = Owners /\ p # 0
      /\ \A q \in Pids : q \in Owners /\ q \in Nat /\ q # 0
      /\ 0 \in Owners
  BY <1>1, Slots DEF Good, IsMap, Pids, Owners
<1>3. PICK left, M2, role2 :
         left = PagesLeft(found[p]) /\ M2 = MapsLeft(M, p) /\ role2 = RolesLeft(role, p)
  OBVIOUS
<1>4. Good(r2, role2, M2) /\ r2.used = r.used /\ r2.kvirt = r.kvirt /\ r2.kmapped = r.kmapped
  <2>1. PICK root \in Frames : root = pm[p] /\ role[root] = Owned(p, <<>>)
    BY <1>1
  <2>2. /\ Good(r, role, M) /\ p \in Pids /\ root \in Frames /\ role[root] = Owned(p, <<>>)
        /\ r2 = EntryCleared(r, root)
    BY <1>1, <2>1
  <2>3. /\ Good(r2, RolesLeft(role, p), MapsLeft(M, p))
        /\ r2.used = r.used /\ r2.kvirt = r.kvirt /\ r2.kmapped = r.kmapped
    BY ONLY <2>2, Dropped
  <2>4. QED
    BY <1>3, <2>3
<1>5. M2 = [M EXCEPT ![p] = left] /\ found2 = [found EXCEPT ![p] = left]
  BY <1>1, <1>3 DEF MapsLeft, PagesLeft
<1>6. found2 \in [Pids -> [VUser -> Nat]] /\ \A q \in Pids : M2[q] = found2[q]
  <2>1. left \in [VUser -> Nat]
    BY <1>3 DEF PagesLeft
  <2>2. QED
    BY <1>1, <1>2, <1>5, <2>1
<1>7. KernelAt(r2, M2)
  <2>1. M2[0] = M[0]
    BY <1>2, <1>5
  <2>2. QED
    BY <1>1, <1>4, <2>1 DEF KernelAt
<1>8. HasKernel(role2)
  <2>1. PICK g \in Frames : role[g] = Owned(0, Append(<<>>, KERNEL))
    BY <1>1 DEF HasKernel
  <2>2. role[g].of = 0
    BY <2>1, OwnedFacts
  <2>3. role2[g] = role[g]
    BY <1>2, <1>3, <2>2 DEF RolesLeft
  <2>4. QED
    BY <2>1, <2>3 DEF HasKernel
<1>9. ASSUME NEW q \in Pids, pm[q] = 0 PROVE \A f \in Frames : role2[f].of # q
  <2>1. Nobodys.of # q
    BY <1>2 DEF Nobodys, Owned
  <2>2. QED
    BY <1>1, <1>3, <1>9, <2>1 DEF RolesLeft
<1>10. ASSUME NEW q \in Pids, pm[q] # 0 PROVE pm[q] \in Frames /\ role2[pm[q]] = Owned(q, <<>>)
  <2>1. pm[q] \in Frames /\ role[pm[q]] = Owned(q, <<>>) /\ role[pm[q]].path = <<>>
    BY <1>1, <1>2, <1>10, OwnedFacts
  <2>2. QED
    BY <1>3, <2>1 DEF RolesLeft
<1>11. QED
  BY <1>4, <1>6, <1>7, <1>8, <1>9, <1>10 DEF TablesOf

(* One entry of one table is set. *)
LEMMA EntrySet ==
    ASSUME NEW r \in Rams, NEW f \in Frames, NEW i \in Idx, NEW e \in Int,
           NEW r1, r1 = [r EXCEPT !.mem[f][i] = e]
    PROVE  /\ r1 \in Rams /\ r1.used = r.used /\ r1.kvirt = r.kvirt /\ r1.kmapped = r.kmapped
           /\ r1.tainted = r.tainted
           /\ \A g \in Frames, j \in Idx : g # f \/ j # i => r1.mem[g][j] = r.mem[g][j]
           /\ \A g \in Frames : g # f => r1.mem[g] = r.mem[g]
<1>1. r.mem \in [Frames -> [Idx -> Int]]
  BY DEF Rams
<1>2. PICK mem2 : mem2 = [r.mem EXCEPT ![f][i] = e]
  OBVIOUS
<1>3. /\ mem2 \in [Frames -> [Idx -> Int]]
      /\ \A g \in Frames, j \in Idx : ~(g = f /\ j = i) => mem2[g][j] = r.mem[g][j]
      /\ \A g \in Frames : g # f => mem2[g] = r.mem[g]
  BY <1>1, <1>2
<1>4. r1 = [r EXCEPT !.mem = mem2]
  BY <1>2 DEF Rams
<1>5. /\ r1 \in Rams /\ r1.mem = mem2 /\ r1.used = r.used /\ r1.kvirt = r.kvirt
      /\ r1.kmapped = r.kmapped /\ r1.tainted = r.tainted
  BY <1>3, <1>4 DEF Rams
<1>6. QED
  BY <1>3, <1>5

(* What mark_fork_cross_entry leaves as it is. *)
Crossed(r, r2, parent, child) ==
    /\ r2 \in Rams /\ r2.used = r.used /\ r2.kvirt = r.kvirt /\ r2.kmapped = r.kmapped
    /\ r2.tainted = r.tainted
    /\ \A g \in Frames, j \in Idx : j # CROSS => r2.mem[g][j] = r.mem[g][j]
    /\ \A g \in Frames : g # parent /\ g # child => r2.mem[g] = r.mem[g]

(* The cross entries are the only ones mark_fork_cross_entry changes.         *)
LEMMA CrossFacts ==
    ASSUME NEW r \in Rams, NEW parent \in Frames, NEW child \in Frames,
           NEW r2, r2 = mark_fork_cross_entry(r, parent, child)
    PROVE  Crossed(r, r2, parent, child)
<1>1. CROSS \in Idx /\ parent \in Int /\ child \in Int
  BY Slots
<1>2. PICK r1 : r1 = [r EXCEPT !.mem[parent][CROSS] = child]
  OBVIOUS
<1>3. r2 = [r1 EXCEPT !.mem[child][CROSS] = parent]
  BY <1>2 DEF mark_fork_cross_entry
<1>4. /\ r1 \in Rams /\ r1.used = r.used /\ r1.kvirt = r.kvirt /\ r1.kmapped = r.kmapped
      /\ r1.tainted = r.tainted
      /\ \A g \in Frames, j \in Idx : g # parent \/ j # CROSS => r1.mem[g][j] = r.mem[g][j]
      /\ \A g \in Frames : g # parent => r1.mem[g] = r.mem[g]
  BY <1>1, <1>2, EntrySet
<1>5. /\ r2 \in Rams /\ r2.used = r1.used /\ r2.kvirt = r1.kvirt /\ r2.kmapped = r1.kmapped
      /\ r2.tainted = r1.tainted
      /\ \A g \in Frames, j \in Idx : g # child \/ j # CROSS => r2.mem[g][j] = r1.mem[g][j]
      /\ \A g \in Frames : g # child => r2.mem[g] = r1.mem[g]
  BY <1>1, <1>3, <1>4, EntrySet
<1>6. QED
  BY <1>4, <1>5 DEF Crossed

(* What get_forked_pcb does, call by call. *)
ForkCalls(r, pm, found, p, c, parent, a, w, child, b, x, r2, pm2, found2) ==
    /\ parent = pm[p] /\ a = get_new_page_v(r, parent) /\ w = get_new_page_table(a, parent)
    /\ child = w.used + 1 /\ b = get_new_page_table(w, parent)
    /\ x = mark_fork_cross_entry(b, parent, child)
    /\ \A t \in TablePaths : Walk(x.mem, parent, t) # JUNK
    /\ x.used + Cardinality(Copied(x, parent)) <= MaxFrames
    /\ r2 = mark_COW(x, parent, child) /\ pm2 = WithTable(pm, c, child)
    /\ found2 = [found EXCEPT ![c] = found[p]]

(* get_forked_pcb: the child finds at its pages what its parent finds, and    *)
(* everybody else finds what they did.                                       *)
LEMMA Forked ==
    ASSUME NEW r, NEW pm \in [Pids -> Nat], NEW found \in [Pids -> [VUser -> Nat]],
           NEW role, NEW M, TablesOf(r, pm, found, role, M), r.used + 3 * LEVELS <= MaxFrames,
           NEW p \in Pids, pm[p] # 0, NEW c \in Pids, pm[c] = 0,
           NEW parent, NEW a, NEW w, NEW child, NEW b, NEW x, NEW r2, NEW pm2, NEW found2,
           ForkCalls(r, pm, found, p, c, parent, a, w, child, b, x, r2, pm2, found2)
    PROVE  /\ pm2 \in [Pids -> Nat] /\ found2 \in [Pids -> [VUser -> Nat]]
           /\ \E role2, M2 : TablesOf(r2, pm2, found2, role2, M2)
<1>0. /\ parent = pm[p] /\ a = get_new_page_v(r, parent) /\ w = get_new_page_table(a, parent)
      /\ child = w.used + 1 /\ b = get_new_page_table(w, parent)
      /\ x = mark_fork_cross_entry(b, parent, child)
      /\ \A t \in TablePaths : Walk(x.mem, parent, t) # JUNK
      /\ x.used + Cardinality(Copied(x, parent)) <= MaxFrames
      /\ r2 = mark_COW(x, parent, child) /\ pm2 = WithTable(pm, c, child)
      /\ found2 = [found EXCEPT ![c] = found[p]]
  BY DEF ForkCalls
<1> USE <1>0
<1>1. LEVELS \in Nat /\ LEVELS > 1 /\ MaxFrames \in Nat /\ r.used \in Nat
  BY Slots DEF TablesOf, Good, Rams
<1>2. ASSUME NEW y, NEW rl, NEW m, TablesOf(y, pm, found, rl, m)
      PROVE  /\ parent \in Frames /\ rl[parent] = Owned(p, <<>>) /\ rl[parent] # Nobodys
             /\ rl[parent].path = <<>> /\ y.mem[parent][SELF] = parent
             /\ y.mem[parent][KERNEL] = y.mem[1][KERNEL]
  BY <1>2, ProcessRoot
<1>3. PICK role1, M1 :
         TablesOf(a, pm, found, role1, M1) /\ a.used \in Nat /\ a.used <= r.used + LEVELS
  <2>1. r.used + LEVELS <= MaxFrames
    BY <1>1
  <2>2. parent \in Frames /\ role[parent] # Nobodys /\ role[parent].path = <<>>
    BY <1>2
  <2>3. QED
    BY <2>1, <2>2, StackMapped
<1>4. PICK role2, M2 :
         TablesOf(w, pm, found, role2, M2) /\ w.used \in Nat /\ w.used <= a.used + LEVELS
  <2>1. a.used + LEVELS <= MaxFrames
    BY <1>1, <1>3
  <2>2. parent \in Frames /\ role1[parent] # Nobodys /\ role1[parent].path = <<>>
    BY <1>2, <1>3
  <2>3. PICK n : n = a.used + 1
    OBVIOUS
  <2>4. QED
    BY <1>3, <2>1, <2>2, <2>3, TableMade
<1>5. PICK role3, M3 :
         /\ TablesOf(b, pm, found, role3, M3) /\ b.used \in Nat
         /\ child \in Frames /\ role3[child] = Nobodys /\ child <= b.used
         /\ b.mem[child][SELF] = child
         /\ \A i \in Idx : i # SELF => b.mem[child][i] = b.mem[parent][i]
  <2>1. w.used + LEVELS <= MaxFrames
    BY <1>1, <1>3, <1>4
  <2>2. parent \in Frames /\ role2[parent] # Nobodys /\ role2[parent].path = <<>>
    BY <1>2, <1>4
  <2>3. TableAsked(w, pm, found, role2, M2, parent)
    BY <1>4, <2>1, <2>2 DEF TableAsked
  <2>4. b = get_new_page_table(w, parent) /\ child = w.used + 1
    OBVIOUS
  <2>5. TableGot(w, pm, found, b, child, parent)
    BY ONLY <2>3, <2>4, TableGiven
  <2>6. QED
    BY <2>5 DEF TableGot, TopCopied
<1>6. /\ Good(b, role3, M3) /\ KernelAt(b, M3) /\ HasKernel(role3)
      /\ \A q \in Pids : pm[q] = 0 => \A f \in Frames : role3[f].of # q
      /\ \A q \in Pids : pm[q] # 0 => pm[q] \in Frames /\ role3[pm[q]] = Owned(q, <<>>)
      /\ \A q \in Pids : M3[q] = found[q]
  BY <1>5 DEF TablesOf
<1>7. /\ parent \in Frames /\ role3[parent] = Owned(p, <<>>) /\ role3[parent] # Nobodys
      /\ role3[parent].path = <<>> /\ b.mem[parent][KERNEL] = b.mem[1][KERNEL]
      /\ parent # child /\ p # c
  <2>1. /\ parent \in Frames /\ role3[parent] = Owned(p, <<>>) /\ role3[parent] # Nobodys
        /\ role3[parent].path = <<>> /\ b.mem[parent][KERNEL] = b.mem[1][KERNEL]
    <3>1. TablesOf(b, pm, found, role3, M3)
      BY <1>5
    <3>2. QED
      BY ONLY <1>2, <3>1
  <2>2. parent # child
    BY <1>5, <2>1
  <2>3. p # c
    OBVIOUS
  <2>4. QED
    BY ONLY <2>1, <2>2, <2>3
<1>8. b \in Rams /\ b.mem \in [Frames -> [Idx -> Int]] /\ RolesOK(role3, b.used) /\ role3 \in RoleSet
      /\ b.used <= MaxFrames
  BY <1>6 DEF Good, Forest, Rams
<1>9. /\ x \in Rams /\ x.used = b.used /\ x.kvirt = b.kvirt /\ x.kmapped = b.kmapped
      /\ x.tainted = b.tainted
      /\ \A g \in Frames, j \in Idx : j # CROSS => x.mem[g][j] = b.mem[g][j]
      /\ \A g \in Frames : g # parent /\ g # child => x.mem[g] = b.mem[g]
  <2>1. /\ b \in Rams /\ parent \in Frames /\ child \in Frames
        /\ x = mark_fork_cross_entry(b, parent, child)
    BY <1>5, <1>7, <1>8
  <2>2. QED
    <3>1. Crossed(b, x, parent, child)
      BY ONLY <2>1, CrossFacts
    <3>2. QED
      BY <3>1 DEF Crossed
<1> HIDE <1>0
<1>10. Good(x, role3, M3)
  <2>1. ASSUME NEW g \in Frames, NEW j \in Idx, role3[g] # Nobodys,
               ~(role3[g].path = <<>> /\ j = CROSS)
        PROVE  x.mem[g][j] = b.mem[g][j]
    <3>1. CASE j # CROSS
      BY <1>9, <3>1
    <3>2. CASE j = CROSS
      <4>1. g # parent /\ g # child
        BY <1>5, <1>7, <2>1, <3>2
      <4>2. QED
        BY <1>9, <4>1
    <3>3. QED
      BY <3>1, <3>2
  <2>2. ASSUME NEW g \in Frames, g > x.used PROVE x.mem[g] = b.mem[g]
    <3>1. parent <= b.used /\ parent \in Nat /\ child \in Nat /\ g \in Nat
      BY <1>5, <1>7, <1>8, Slots DEF RolesOK
    <3>2. g # parent /\ g # child
      BY <1>5, <1>9, <2>2, <3>1
    <3>3. QED
      BY <1>9, <3>2
  <2>3. /\ x \in Rams /\ b.used <= x.used /\ x.used <= MaxFrames
        /\ ~x.tainted => ~b.tainted
    BY <1>5, <1>8, <1>9
  <2>4. Good(b, role3, M3)
    BY <1>6
  <2>5. QED
    BY ONLY <2>1, <2>2, <2>3, <2>4, GoodKept
<1>11. /\ x.mem[child][SELF] = child /\ x.mem[child][KERNEL] = x.mem[1][KERNEL]
       /\ \A i \in User : x.mem[child][i] = x.mem[parent][i]
       /\ child <= x.used /\ \A g \in Frames : role3[g].of # c
  <2>1. 1 \in Frames /\ KERNEL # CROSS /\ SELF # CROSS /\ KERNEL # SELF /\ SELF \in Idx /\ KERNEL \in Idx
    BY Slots
  <2>2. \A i \in User : i \in Idx /\ i # SELF /\ i # CROSS
    BY Slots
  <2>3. x.mem[1][KERNEL] = b.mem[1][KERNEL]
    BY <1>9, <2>1
  <2>4. x.mem[child][SELF] = child /\ x.mem[child][KERNEL] = b.mem[parent][KERNEL]
    BY <1>5, <1>9, <2>1
  <2>5. \A i \in User : x.mem[child][i] = x.mem[parent][i]
    <3>1. SUFFICES ASSUME NEW i \in User PROVE x.mem[child][i] = x.mem[parent][i]
      OBVIOUS
    <3>2. x.mem[child][i] = b.mem[child][i] /\ x.mem[parent][i] = b.mem[parent][i]
      BY <1>5, <1>7, <1>9, <2>2
    <3>3. QED
      BY <1>5, <2>2, <3>2
  <2>6. QED
    BY <1>5, <1>6, <1>7, <1>9, <2>3, <2>4, <2>5
<1>12. PICK M4 : M4 = [M3 EXCEPT ![c] = M3[p]]
  OBVIOUS
<1>13. /\ r2.kvirt = x.kvirt /\ r2.kmapped = x.kmapped /\ x.used <= r2.used
       /\ \E rl : /\ Good(r2, rl, M4) /\ rl[child] = Owned(c, <<>>)
                  /\ \A f \in Frames : role3[f] # Nobodys => rl[f] = role3[f]
                  /\ \A f \in Frames : rl[f] = role3[f] \/ rl[f].of = c
  <2>1. CowAsked(x, role3, M3, p, c, parent, child)
    BY <1>0, <1>5, <1>7, <1>10, <1>11 DEF CowAsked
  <2>2. r2 = mark_COW(x, parent, child)
    BY <1>0
  <2>3. CowGiven(x, role3, M3, p, c, child, r2)
    BY ONLY <2>1, <2>2, CowInherits
  <2>4. MapsCopied(M3, c, p) = M4
    BY <1>12 DEF MapsCopied
  <2>5. QED
    BY <2>3, <2>4 DEF CowGiven
<1>14. PICK role4 :
          /\ Good(r2, role4, M4) /\ role4[child] = Owned(c, <<>>)
          /\ \A f \in Frames : role3[f] # Nobodys => role4[f] = role3[f]
          /\ \A f \in Frames : role4[f] = role3[f] \/ role4[f].of = c
  BY <1>13
<1>15. /\ DOMAIN M3 = Owners /\ 0 \in Owners /\ \A q \in Pids : q \in Owners /\ q \in Nat /\ q # 0
  BY <1>6, Slots DEF Good, IsMap, Pids, Owners
<1>16. found2 \in [Pids -> [VUser -> Nat]] /\ \A q \in Pids : M4[q] = found2[q]
  BY <1>0, <1>6, <1>12, <1>15
<1>17. KernelAt(r2, M4)
  <2>1. M4[0] = M3[0]
    BY <1>12, <1>15
  <2>2. r2.used \in Nat /\ x.used \in Nat /\ x.kvirt \in Nat
    BY <1>9, <1>14 DEF Good, Rams
  <2>3. x.kvirt <= x.used
    BY <1>6, <1>9 DEF KernelAt
  <2>4. r2.kvirt <= r2.used
    BY <1>13, <2>2, <2>3
  <2>5. r2.kvirt = b.kvirt /\ r2.kmapped = b.kmapped
    BY <1>9, <1>13
  <2>6. QED
    BY <1>6, <2>1, <2>4, <2>5 DEF KernelAt
<1>18. HasKernel(role4)
  <2>1. PICK g \in Frames : role3[g] = Owned(0, Append(<<>>, KERNEL))
    BY <1>6 DEF HasKernel
  <2>2. PICK z, t : z = 0 /\ t = Append(<<>>, KERNEL) /\ z \in Nat
    OBVIOUS
  <2>3. Owned(z, t) # Nobodys
    BY ONLY <2>2, OwnedFacts
  <2>4. QED
    BY <1>14, <2>1, <2>2, <2>3 DEF HasKernel
<1>19. child \in Nat /\ child # 0 /\ pm2 \in [Pids -> Nat] /\ pm2[c] = child
       /\ \A q \in Pids : q # c => pm2[q] = pm[q]
  <2>1. child \in Nat /\ child # 0
    BY <1>5, Slots
  <2>2. QED
    BY <1>0, <2>1 DEF WithTable
<1>20. ASSUME NEW q \in Pids, pm2[q] = 0 PROVE \A f \in Frames : role4[f].of # q
  <2>1. q # c /\ pm[q] = 0
    BY <1>19, <1>20
  <2>2. QED
    BY <1>6, <1>14, <2>1
<1>21. ASSUME NEW q \in Pids, pm2[q] # 0
       PROVE  pm2[q] \in Frames /\ role4[pm2[q]] = Owned(q, <<>>)
  <2>1. CASE q = c
    BY <1>5, <1>14, <1>19, <2>1
  <2>2. CASE q # c
    <3>1. pm2[q] = pm[q] /\ pm[q] \in Frames /\ role3[pm[q]] = Owned(q, <<>>)
      BY <1>6, <1>19, <1>21, <2>2
    <3>2. role3[pm[q]] # Nobodys
      BY <1>15, <3>1, OwnedFacts
    <3>3. QED
      BY <1>14, <3>1, <3>2
  <2>3. QED
    BY <2>1, <2>2
<1>22. TablesOf(r2, pm2, found2, role4, M4)
  BY <1>14, <1>16, <1>17, <1>18, <1>20, <1>21 DEF TablesOf
<1>23. QED
  BY <1>16, <1>19, <1>22
-----------------------------------------------------------------------------
(* The inductive invariant: nothing was touched before setup_paging, no      *)
(* process has a table before init, and from setup_paging on all tables are  *)
(* a forest that maps what was asked for.                                    *)
TablesInv ==
    /\ expected \in [Pids -> [VUser -> Nat]] /\ pml4 \in [Pids -> Nat]
    /\ phase \in {"boot", "paged", "up"}
    /\ phase # "up" =>
          \A p \in Pids : pml4[p] = 0 /\ expected[p] = [v \in VUser |-> 0]
    /\ phase = "boot" =>
          ram = [mem |-> [f \in Frames |-> Found(f)], used |-> 0, kvirt |-> 0,
                 kmapped |-> <<>>, tainted |-> FALSE]
    /\ phase # "boot" => \E role, M : TablesOf(ram, pml4, expected, role, M)

(* The frames that were not zero at boot stay the same ones. *)
LEMMA TablesPrimed ==
    ASSUME dirty' = dirty, NEW role, NEW M, TablesOf(ram', pml4', expected', role, M)
    PROVE  TablesOf(ram, pml4, expected, role, M)'
<1>1. /\ Good(ram', role, M) /\ KernelAt(ram', M) /\ HasKernel(role)
      /\ \A p \in Pids : pml4'[p] = 0 => \A f \in Frames : role[f].of # p
      /\ \A p \in Pids : pml4'[p] # 0 => pml4'[p] \in Frames /\ role[pml4'[p]] = Owned(p, <<>>)
      /\ \A p \in Pids : M[p] = expected'[p]
  BY DEF TablesOf
<1>2. Fresh(ram.mem, ram.used)'
  BY <1>1 DEF Good, Forest, Fresh, Found
<1>3. Forest(ram.mem, ram.used, role)'
  BY <1>1, <1>2 DEF Good, Forest
<1>4. Good(ram, role, M)'
  BY <1>1, <1>3 DEF Good
<1>5. QED
  BY <1>1, <1>4 DEF TablesOf

(* All frames are as they were found. *)
LEMMA TablesAtInit == TablesInit => TablesInv
<1> SUFFICES ASSUME TablesInit PROVE TablesInv
  OBVIOUS
<1>1. /\ dirty \in DirtySets
      /\ ram = [mem |-> [f \in Frames |-> IF f \in dirty THEN [i \in Idx |-> JUNK] ELSE Zeros],
                used |-> 0, kvirt |-> 0, kmapped |-> <<>>, tainted |-> FALSE]
      /\ pml4 = [p \in Pids |-> 0] /\ phase = "boot"
      /\ expected = [p \in Pids |-> [v \in VUser |-> 0]]
  BY DEF TablesInit
<1>2. \A f \in Frames : (IF f \in dirty THEN [i \in Idx |-> JUNK] ELSE Zeros) = Found(f)
  BY DEF Found, Zeros
<1>3. ram = [mem |-> [f \in Frames |-> Found(f)], used |-> 0, kvirt |-> 0,
             kmapped |-> <<>>, tainted |-> FALSE]
  BY <1>1, <1>2
<1>4. QED
  BY <1>1, <1>3 DEF TablesInv

(* setup_paging: the kernel's table is frame 1. *)
LEMMA SetupKeeps == TablesInv /\ setup_paging => TablesInv'
<1> SUFFICES ASSUME TablesInv, setup_paging PROVE TablesInv'
  OBVIOUS
<1>1. /\ expected \in [Pids -> [VUser -> Nat]] /\ pml4 \in [Pids -> Nat]
      /\ \A p \in Pids : pml4[p] = 0
      /\ \A p \in Pids : expected[p] = [v \in VUser |-> 0]
      /\ ram = [mem |-> [f \in Frames |-> Found(f)], used |-> 0, kvirt |-> 0,
                kmapped |-> <<>>, tainted |-> FALSE]
  BY DEF TablesInv, setup_paging
<1>2. phase' = "paged" /\ pml4' = pml4 /\ dirty' = dirty /\ expected' = expected
  BY DEF setup_paging
<1>3. 2 * LEVELS <= MaxFrames /\ ram.used = 0
  <2>1. ram.used = 0
    BY <1>1
  <2>2. ram.used + 2 * LEVELS <= MaxFrames
    BY DEF setup_paging, Room
  <2>3. QED
    BY <2>1, <2>2, Slots
<1>4. PICK b : b = [ZeroOut([ram EXCEPT !.used = 1], 1) EXCEPT !.mem[1][SELF] = 1]
  OBVIOUS
<1>5. ram' = k_map_v(k_map_v(b, 1, KernelImage), 1, Display)
  <2>1. PICK pm : pm = ram.used + 1
    OBVIOUS
  <2>2. ram' = k_map_v(k_map_v([ZeroOut([ram EXCEPT !.used = pm], pm) EXCEPT !.mem[pm][SELF] = pm],
                               pm, KernelImage), pm, Display)
    BY <2>1 DEF setup_paging
  <2>3. pm = 1
    BY <1>3, <2>1
  <2>4. QED
    BY <1>4, <2>2, <2>3
<1>6. \E role, M : TablesOf(ram', pml4, expected, role, M)
  BY <1>1, <1>3, <1>4, <1>5, BootDone
<1>7. PICK role, M : TablesOf(ram, pml4, expected, role, M)'
  BY <1>2, <1>6, TablesPrimed
<1>8. QED
  BY <1>1, <1>2, <1>7 DEF TablesInv

(* init: the first two processes. *)
LEMMA InitKeeps == TablesInv /\ init => TablesInv'
<1> SUFFICES ASSUME TablesInv, init PROVE TablesInv'
  OBVIOUS
<1>1. /\ expected \in [Pids -> [VUser -> Nat]] /\ pml4 \in [Pids -> Nat]
      /\ \A p \in Pids : pml4[p] = 0
      /\ \A p \in Pids : expected[p] = [v \in VUser |-> 0]
      /\ \E role, M : TablesOf(ram, pml4, expected, role, M)
  BY DEF TablesInv, init
<1>2. phase' = "up" /\ dirty' = dirty /\ expected' = expected /\ ram.used + 5 * LEVELS <= MaxFrames
  BY DEF init, Room
<1>3. PICK role, M : TablesOf(ram, pml4, expected, role, M)
  BY <1>1
<1>4. PICK root : root = 1
  OBVIOUS
<1>5. PICK a, idle, b, shell :
         /\ a = get_new_page_v(ram, root) /\ idle = get_new_page_v(a, root)
         /\ b = get_new_page_table(idle, root) /\ shell = get_new_page_v(b, root)
  OBVIOUS
<1>6. PICK n1, n2 : n1 = idle.used + 1 /\ n2 = shell.used + 1
  OBVIOUS
<1>7. InitCalls(ram, pml4, root, a, idle, b, shell, n1, n2, ram', pml4')
  <2>1. /\ pml4' = [pml4 EXCEPT ![1] = n1, ![2] = n2]
        /\ ram' = get_new_page_table(shell, root)
    BY <1>4, <1>5, <1>6 DEF init
  <2>2. QED
    BY <1>4, <1>5, <1>6, <2>1 DEF InitCalls
<1>8. /\ pml4' \in [Pids -> Nat]
      /\ \E role2, M2 : TablesOf(ram', pml4', expected, role2, M2)
  BY <1>1, <1>2, <1>3, <1>7, InitDone
<1>9. PICK role2, M2 : TablesOf(ram, pml4, expected, role2, M2)'
  BY <1>2, <1>8, TablesPrimed
<1>10. QED
  BY <1>1, <1>2, <1>8, <1>9 DEF TablesInv

(* What is known while a process runs. *)
LEMMA WhileRunning ==
    ASSUME TablesInv, NEW p \in Pids, Runs(p)
    PROVE  /\ expected \in [Pids -> [VUser -> Nat]] /\ pml4 \in [Pids -> Nat]
           /\ phase = "up" /\ pml4[p] # 0 /\ Root(p) = pml4[p]
           /\ \E role, M : TablesOf(ram, pml4, expected, role, M)
<1>1. /\ expected \in [Pids -> [VUser -> Nat]] /\ pml4 \in [Pids -> Nat]
      /\ phase = "up" /\ pml4[p] # 0
      /\ \E role, M : TablesOf(ram, pml4, expected, role, M)
  BY DEF TablesInv, Runs
<1>2. Root(p) = pml4[p]
  BY <1>1, ProcessRoot DEF Root
<1>3. QED
  BY <1>1, <1>2

(* add_physical_page_in: a page more for p. *)
LEMMA PageInKeeps ==
    ASSUME TablesInv, NEW p \in Pids, NEW v \in UserPages, add_physical_page_in(p, v)
    PROVE  TablesInv'
<1>1. /\ Runs(p) /\ ram.used + LEVELS <= MaxFrames /\ Walk(ram.mem, pml4[p], v) = 0
      /\ pml4' = pml4 /\ phase' = phase /\ dirty' = dirty
  BY DEF add_physical_page_in, Room
<1>4. /\ expected \in [Pids -> [VUser -> Nat]] /\ pml4 \in [Pids -> Nat]
      /\ phase = "up" /\ pml4[p] # 0 /\ Root(p) = pml4[p]
      /\ \E role, M : TablesOf(ram, pml4, expected, role, M)
  BY <1>1, WhileRunning
<1>5. PICK role, M : TablesOf(ram, pml4, expected, role, M)
  BY <1>4
<1>6. v \in VUser
  BY TableAssumption
<1>7. PageCalls(ram, pml4, expected, p, v, ram', expected')
  BY <1>4 DEF add_physical_page_in, PageCalls
<1>8. /\ expected' \in [Pids -> [VUser -> Nat]]
      /\ \E role2, M2 : TablesOf(ram', pml4, expected', role2, M2)
  BY <1>1, <1>4, <1>5, <1>6, <1>7, PageIn
<1>9. PICK role2, M2 : TablesOf(ram, pml4, expected, role2, M2)'
  BY <1>1, <1>8, TablesPrimed
<1>10. QED
  BY <1>1, <1>4, <1>8, <1>9 DEF TablesInv

(* do_execve: the pages below the first entry are gone. *)
LEMMA ExecveKeeps ==
    ASSUME TablesInv, NEW p \in Pids, do_execve(p)
    PROVE  TablesInv'
<1>1. Runs(p) /\ pml4' = pml4 /\ phase' = phase /\ dirty' = dirty
  BY DEF do_execve
<1>2. /\ expected \in [Pids -> [VUser -> Nat]] /\ pml4 \in [Pids -> Nat]
      /\ phase = "up" /\ pml4[p] # 0 /\ Root(p) = pml4[p]
      /\ \E role, M : TablesOf(ram, pml4, expected, role, M)
  BY <1>1, WhileRunning
<1>3. ram' = EntryCleared(ram, pml4[p])
  BY <1>2 DEF do_execve, EntryCleared
<1>4. expected' = [expected EXCEPT ![p] = PagesLeft(expected[p])]
  BY <1>2 DEF do_execve, PagesLeft
<1>5. PICK role, M : TablesOf(ram, pml4, expected, role, M)
  BY <1>2
<1>6. /\ expected' \in [Pids -> [VUser -> Nat]]
      /\ \E role2, M2 : TablesOf(ram', pml4, expected', role2, M2)
  BY <1>2, <1>3, <1>4, <1>5, EntryDropped
<1>7. PICK role2, M2 : TablesOf(ram, pml4, expected, role2, M2)'
  BY <1>1, <1>6, TablesPrimed
<1>8. QED
  BY <1>1, <1>2, <1>6, <1>7 DEF TablesInv

(* get_forked_pcb: the child has tables of its own. *)
LEMMA ForkKeeps ==
    ASSUME TablesInv, NEW p \in Pids, get_forked_pcb(p)
    PROVE  TablesInv'
<1>1. Runs(p) /\ ram.used + 3 * LEVELS <= MaxFrames /\ phase' = phase /\ dirty' = dirty
  BY DEF get_forked_pcb, Room
<1>2. /\ expected \in [Pids -> [VUser -> Nat]] /\ pml4 \in [Pids -> Nat]
      /\ phase = "up" /\ pml4[p] # 0 /\ Root(p) = pml4[p]
      /\ \E role, M : TablesOf(ram, pml4, expected, role, M)
  BY <1>1, WhileRunning
<1>3. PICK parent : parent = pml4[p]
  OBVIOUS
<1>4. PICK a, w, child, b, x :
         /\ a = get_new_page_v(ram, parent) /\ w = get_new_page_table(a, parent)
         /\ child = w.used + 1 /\ b = get_new_page_table(w, parent)
         /\ x = mark_fork_cross_entry(b, parent, child)
  OBVIOUS
<1>5. /\ \A t \in TablePaths : Walk(x.mem, parent, t) # JUNK
      /\ x.used + Cardinality(Copied(x, parent)) <= MaxFrames
      /\ ram' = mark_COW(x, parent, child)
      /\ \E c \in Pids : /\ pml4[c] = 0 /\ pml4' = [pml4 EXCEPT ![c] = child]
                         /\ expected' = [expected EXCEPT ![c] = expected[p]]
  BY <1>2, <1>3, <1>4 DEF get_forked_pcb
<1>6. PICK c \in Pids : /\ pml4[c] = 0 /\ pml4' = [pml4 EXCEPT ![c] = child]
                        /\ expected' = [expected EXCEPT ![c] = expected[p]]
  BY <1>5
<1>7. ForkCalls(ram, pml4, expected, p, c, parent, a, w, child, b, x, ram', pml4', expected')
  BY <1>3, <1>4, <1>5, <1>6 DEF ForkCalls, WithTable
<1>8. PICK role, M : TablesOf(ram, pml4, expected, role, M)
  BY <1>2
<1>9. /\ pml4' \in [Pids -> Nat] /\ expected' \in [Pids -> [VUser -> Nat]]
      /\ \E role2, M2 : TablesOf(ram', pml4', expected', role2, M2)
  BY <1>1, <1>2, <1>6, <1>7, <1>8, Forked
<1>10. PICK role2, M2 : TablesOf(ram, pml4, expected, role2, M2)'
  BY <1>1, <1>9, TablesPrimed
<1>11. QED
  BY <1>1, <1>2, <1>9, <1>10 DEF TablesInv
-----------------------------------------------------------------------------
(* From boot on the tables are a forest that maps what was asked for.        *)
THEOREM TablesInvariant == TablesSpec => []TablesInv
<1>1. TablesInv /\ [TablesNext]_tableVars => TablesInv'
  <2> SUFFICES ASSUME TablesInv, [TablesNext]_tableVars PROVE TablesInv'
    OBVIOUS
  <2>1. CASE setup_paging
    BY <2>1, SetupKeeps
  <2>2. CASE init
    BY <2>2, InitKeeps
  <2>3. ASSUME NEW p \in Pids, do_execve(p) PROVE TablesInv'
    BY <2>3, ExecveKeeps
  <2>4. ASSUME NEW p \in Pids, get_forked_pcb(p) PROVE TablesInv'
    BY <2>4, ForkKeeps
  <2>5. ASSUME NEW p \in Pids, NEW v \in UserPages, add_physical_page_in(p, v) PROVE TablesInv'
    BY <2>5, PageInKeeps
  <2>6. CASE UNCHANGED tableVars
    <3>1. ram' = ram /\ pml4' = pml4 /\ phase' = phase /\ dirty' = dirty /\ expected' = expected
      BY <2>6 DEF tableVars
    <3>2. ASSUME phase # "boot" PROVE \E role, M : TablesOf(ram, pml4, expected, role, M)'
      <4>1. PICK role, M : TablesOf(ram', pml4', expected', role, M)
        BY <3>1, <3>2 DEF TablesInv
      <4>2. QED
        BY <3>1, <4>1, TablesPrimed
    <3>3. phase = "boot" => \A f \in Frames : Found(f)' = Found(f)
      BY <3>1 DEF Found
    <3>4. QED
      BY <3>1, <3>2, <3>3 DEF TablesInv
  <2>7. QED
    BY <2>1, <2>2, <2>3, <2>4, <2>5, <2>6 DEF TablesNext
<1>2. QED
  BY <1>1, TablesAtInit, PTL DEF TablesSpec

(* A process has a table only after init. *)
LEMMA ProcessTables ==
    ASSUME TablesInv, NEW p \in Processes
    PROVE  /\ p \in Pids /\ pml4[p] # 0
           /\ \E role, M : TablesOf(ram, pml4, expected, role, M)
BY DEF TablesInv, Processes

(* Every process finds what was mapped for it, unless junk became a table.   *)
THEOREM TranslationIsExact == TablesSpec => []TranslationExact
<1>1. TablesInv => TranslationExact
  <2> SUFFICES ASSUME TablesInv, ~ram.tainted, NEW p \in Processes, NEW v \in VUser
               PROVE  Walk(ram.mem, pml4[p], v) = expected[p][v]
    BY DEF TranslationExact
  <2>1. PICK role, M : TablesOf(ram, pml4, expected, role, M)
    BY ProcessTables
  <2>2. PICK root : root = pml4[p]
    OBVIOUS
  <2>3. /\ Good(ram, role, M) /\ root \in Frames /\ role[root] = Owned(p, <<>>)
        /\ p \in Pids /\ M[p] = expected[p] /\ role[root] # Nobodys /\ role[root].path = <<>>
    BY <2>1, <2>2, ProcessTables, ProcessRoot DEF TablesOf
  <2>4. p \in Owners /\ v \in PagesOf(p) /\ p \in Nat
    BY <2>3, Slots DEF Pids, Owners, PagesOf
  <2>5. role[root].of = p
    BY <2>3, <2>4, OwnedFacts
  <2>6. Walk(ram.mem, root, v) = M[p][v]
    BY <2>3, <2>4, <2>5, WalkFinds
  <2>7. QED
    BY <2>2, <2>3, <2>6
<1>2. QED
  BY <1>1, TablesInvariant, PTL

(* What the kernel maps is seen on every process's table. *)
THEOREM KernelIsSeenByAll == TablesSpec => []KernelSeenByAll
<1>1. TablesInv => KernelSeenByAll
  <2> SUFFICES ASSUME TablesInv, ~ram.tainted, NEW p \in Processes, NEW k \in DOMAIN ram.kmapped
               PROVE  Walk(ram.mem, pml4[p], KernelPages[k - 1]) = ram.kmapped[k]
    BY DEF KernelSeenByAll
  <2>1. PICK role, M : TablesOf(ram, pml4, expected, role, M)
    BY ProcessTables
  <2>2. PICK root, z, v : root = pml4[p] /\ z = 0 /\ v = KernelPages[k - 1]
    OBVIOUS
  <2>3. /\ Good(ram, role, M) /\ root \in Frames /\ role[root] # Nobodys
        /\ role[root].path = <<>> /\ KernelAt(ram, M)
    BY <2>1, <2>2, ProcessTables, ProcessRoot DEF TablesOf
  <2>4. /\ k \in 1..ram.kvirt /\ ram.kvirt \in Nat /\ ram.kvirt <= MaxFrames
        /\ M[0][v] = ram.kmapped[k]
    <3>1. /\ ram.kvirt = Len(ram.kmapped) /\ ram.kvirt <= ram.used /\ ram.kmapped \in Seq(Nat)
          /\ \A l \in 1..ram.kvirt : M[0][KernelPages[l - 1]] = ram.kmapped[l]
      BY <2>3 DEF KernelAt
    <3>2. ram.kvirt \in Nat /\ ram.used \in Nat /\ ram.used <= MaxFrames
      BY <2>3 DEF Good, Rams
    <3>3. k \in 1..ram.kvirt
      BY <3>1
    <3>4. QED
      BY <2>2, <3>1, <3>2, <3>3, Slots
  <2>5. v \in VKernel
    <3>1. k - 1 \in 0..(MaxFrames - 1)
      BY <2>4, Slots
    <3>2. QED
      BY <2>2, <3>1, KernelAssumption
  <2>6. z \in Owners /\ v \in PagesOf(z)
    BY <2>2, <2>5, Slots DEF Owners, PagesOf
  <2>7. Walk(ram.mem, root, v) = M[z][v]
    BY <2>2, <2>3, <2>6, WalkFinds
  <2>8. QED
    BY <2>2, <2>4, <2>7
<1>2. QED
  BY <1>1, TablesInvariant, PTL

(* No table for user pages is reached from two processes. *)
THEOREM TablesArePrivate == TablesSpec => []TablesPrivate
<1>1. TablesInv => TablesPrivate
  <2> SUFFICES ASSUME TablesInv, NEW p \in Processes, NEW q \in Processes, p # q,
                      NEW t \in TablePaths, NEW u \in TablePaths,
                      Walk(ram.mem, pml4[p], t) = Walk(ram.mem, pml4[q], u),
                      Walk(ram.mem, pml4[p], t) \in Frames
               PROVE  FALSE
    BY DEF TablesPrivate
  <2>1. PICK role, M : TablesOf(ram, pml4, expected, role, M)
    BY ProcessTables
  <2>2. PICK rp, rq, e : rp = pml4[p] /\ rq = pml4[q] /\ e = Walk(ram.mem, rp, t)
    OBVIOUS
  <2>3. /\ Good(ram, role, M) /\ rp \in Frames /\ role[rp] = Owned(p, <<>>) /\ p \in Pids
        /\ rq \in Frames /\ role[rq] = Owned(q, <<>>) /\ q \in Pids
    BY <2>1, <2>2, ProcessTables, ProcessRoot DEF TablesOf
  <2>4. LeadsTo(Walk(ram.mem, rp, t), role, p, t) /\ LeadsTo(Walk(ram.mem, rq, u), role, q, u)
    BY <2>3, WalkTable
  <2>5. e \in Frames /\ e # 0 /\ e # JUNK /\ e = Walk(ram.mem, rq, u)
    BY <2>2, Slots
  <2>6. role[e] = Owned(p, t) /\ role[e] = Owned(q, u)
    BY <2>2, <2>4, <2>5 DEF LeadsTo
  <2>7. role[e].of = p /\ role[e].of = q
    BY <2>6 DEF Owned
  <2>8. QED
    BY <2>7
<1>2. QED
  BY <1>1, TablesInvariant, PTL
=============================================================================
