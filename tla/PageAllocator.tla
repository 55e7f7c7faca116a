--------------------------- MODULE PageAllocator ---------------------------
(***************************************************************************)
(* Physical pages and kernel memory (sys/memory_helpers.c): the list of free *)
(* pages that make_pages builds and filter_out_pages thins at boot,          *)
(* get_free_page, kmalloc, and the allocation of the next kernel virtual     *)
(* page in get_new_page_v and get_new_page_table.                            *)
(*                                                                         *)
(* Pages are entries 1..NPages of _page_list, linked by their next fields;   *)
(* 0 ends a list, and entry 0 is the dummy init_pages makes.  A system call  *)
(* runs with interrupts on, so an allocation can be cut by a switch to a     *)
(* process that allocates, too: every process has its own place in           *)
(* get_free_page and kmalloc.  raced records which of the unprotected        *)
(* windows two allocations have met in; each property names the windows that *)
(* can break it, and holds whatever else overlaps.                           *)
(***************************************************************************)
EXTENDS Integers, Sequences, FiniteSets, Functions

CONSTANTS
    NPages,      \* pages of all memory regions
    MaxRegions,  \* regions in the memory map
    PAGESIZE,    \* bytes in a page
    Requests,    \* the sizes kmalloc is asked for
    Procs,
    MaxCalls     \* bound: allocations in a behaviour

ASSUME PagesAssumption == NPages \in Nat /\ NPages > 1 /\ MaxRegions \in Nat
ASSUME BytesAssumption == PAGESIZE \in Nat /\ PAGESIZE > 0
ASSUME RequestAssumption == Requests \subseteq Nat \ {0}
ASSUME CallsAssumption == MaxCalls \in Nat

Pages == 1..NPages
Links == 0..NPages
EmptyList == -1   \* read by queue_page instead of a tail

VARIABLES
    boot,        \* "make", "filter_head", "filter_rest", "done" or "panic"
    index,       \* the loop variable of make_pages and of filter_out_pages
    regions,     \* the lengths of the regions still to be added, 0 for the one
                 \* that starts at address 0
    linked,      \* history: the length of the region added last
    range,       \* the pages filter_out_pages takes out: from base to top
    next,        \* _page_list[].next
    free_head, free_tail, used_head, used_tail,
    virt,        \* _available_virt_mem, in pages
    kpage,       \* _kmalloc_page, as a virtual page; 0 for NULL
    kindex,      \* _kmalloc_index
    pc,          \* where a process is in an allocation
    want,        \* the bytes it asked kmalloc for, 0 if it wants a page
    taken,       \* what it holds in registers: list_index and page of get_free_page, the
                 \* tail queue_page has read, the virtual page it maps at
    granted,     \* the physical pages handed out, in order
    mapped,      \* the virtual pages handed out, in order
    blocks,      \* the blocks kmalloc returned, in order
    raced,       \* the kinds of race that have happened
    calls        \* number of allocations begun, for the bound

listVars == <<next, free_head, free_tail, used_head, used_tail>>
bootVars == <<boot, index, regions, linked, range>>
kVars == <<virt, kpage, kindex>>
procVars == <<pc, want, taken>>
logVars == <<granted, mapped, blocks>>
vars == <<listVars, bootVars, kVars, procVars, logVars, raced, calls>>

Total(lengths) == FoldFunction(+, 0, lengths)

(* init_pages, before make_pages.  The kernel is one range of pages. *)
Init ==
    /\ boot = "make"
    /\ index = 1
    /\ regions \in UNION {[1..n -> Links] : n \in 1..MaxRegions}
    /\ Total(regions) = NPages
    /\ linked = 0
    /\ range \in {r \in SUBSET Pages : \A a, b \in r : \A c \in a..b : c \in r}
    /\ next = [p \in Links |-> 0]
    /\ free_head = 0 /\ free_tail = 0 /\ used_head = 0 /\ used_tail = 0
    /\ virt = 1
    /\ kpage = 0
    /\ kindex = 0
    /\ pc = [p \in Procs |-> "out"]
    /\ want = [p \in Procs |-> 0]
    /\ taken = [p \in Procs |-> [index |-> 0, page |-> 0, tail |-> EmptyList, virt |-> 0]]
    /\ granted = <<>> /\ mapped = <<>> /\ blocks = <<>>
    /\ raced = {}
    /\ calls = 0
-----------------------------------------------------------------------------
(* start() calls make_pages for every region; the one at address 0 is not    *)
(* used, and after the last one setup_paging follows.                        *)
NextRegion ==
    /\ regions' = Tail(regions)
    /\ index' = 1
    /\ boot' = IF Len(regions) = 1 THEN "filter_head" ELSE "make"

SkipRegion ==
    /\ boot = "make" /\ Head(regions) = 0
    /\ NextRegion
    /\ UNCHANGED <<linked, range, listVars, kVars, procVars, logVars, raced, calls>>

(* make_pages: queue_page of every page of the region, in order.  The indices *)
(* start at 1 for every region, although its descriptors follow those of the *)
(* regions before: entries that are linked already are linked again.         *)
MakePage ==
    /\ boot = "make" /\ Head(regions) > 0
    /\ IF free_head = 0 /\ free_tail = 0
       THEN free_head' = index /\ next' = [next EXCEPT ![index] = 0]
       ELSE /\ next' = [next EXCEPT ![free_tail] = index, ![index] = 0]
            /\ UNCHANGED free_head
    /\ free_tail' = index
    /\ linked' = Head(regions)
    /\ IF index = Head(regions) THEN NextRegion
       ELSE index' = index + 1 /\ UNCHANGED <<regions, boot>>
    /\ UNCHANGED <<range, used_head, used_tail, kVars, procVars, logVars, raced, calls>>

(* The first loop of filter_out_pages: pages of the range at the head.  If   *)
(* no page is left the kernel panics.                                        *)
FilterHead ==
    /\ boot = "filter_head"
    /\ IF free_head \in range
       THEN /\ free_head' = next[free_head]
            /\ boot' = IF free_head' = 0 THEN "panic" ELSE boot
            /\ UNCHANGED index
       ELSE boot' = "filter_rest" /\ index' = free_head /\ UNCHANGED free_head
    /\ UNCHANGED <<regions, linked, range, next, free_tail, used_head, used_tail, kVars, procVars,
                   logVars, raced, calls>>

(* Variant: the page after one that was taken out is skipped. *)
M_FilterRest_skips ==
    /\ boot = "filter_rest"
    /\ IF index = 0
       THEN boot' = "done" /\ UNCHANGED <<index, next>>
       ELSE /\ next' = IF next[index] \in range
                       THEN [next EXCEPT ![index] = next[next[index]], ![next[index]] = 0]
                       ELSE next
            /\ index' = next'[index]
            /\ UNCHANGED boot
    /\ UNCHANGED <<regions, linked, range, free_head, free_tail, used_head, used_tail, kVars, procVars,
                   logVars, raced, calls>>

(* Its second loop: the successor of the current page, as long as it is in   *)
(* the range, is unlinked; then the next page.  free_tail stays as it was.   *)
FilterRest ==
    /\ boot = "filter_rest"
    /\ IF index = 0
       THEN boot' = "done" /\ UNCHANGED <<index, next>>
       ELSE /\ IF next[index] \in range
               THEN /\ next' = [next EXCEPT ![index] = next[next[index]],
                                            ![next[index]] = 0]
                    /\ UNCHANGED index
               ELSE index' = next[index] /\ UNCHANGED next
            /\ UNCHANGED boot
    /\ UNCHANGED <<regions, linked, range, free_head, free_tail, used_head, used_tail, kVars, procVars,
                   logVars, raced, calls>>
-----------------------------------------------------------------------------
Inside(p) == pc[p] # "out"
Goto(p, l) == pc' = [pc EXCEPT ![p] = l]

(* Another process is at one of these places: it has read what p is about to *)
(* change, and has not used it yet.                                          *)
Meets(p, places) == \E q \in Procs \ {p} : pc[q] \in places

Step(p) == boot = "done" /\ UNCHANGED bootVars

(* get_new_page_v, get_new_page_table or a page of page tables. *)
GetPage(p) ==
    /\ Step(p)
    /\ pc[p] = "out" /\ calls < MaxCalls
    /\ calls' = calls + 1
    /\ want' = [want EXCEPT ![p] = 0]
    /\ Goto(p, "index")
    /\ UNCHANGED <<listVars, kVars, taken, logVars, raced>>

(* The test of kmalloc for the current page. *)
Fits(n) == kpage # 0 /\ kindex + n < PAGESIZE

(* kmalloc: NULL for more than a page; a new page unless the block fits. *)
kmalloc(p, n) ==
    /\ Step(p)
    /\ pc[p] = "out" /\ calls < MaxCalls
    /\ n <= PAGESIZE
    /\ calls' = calls + 1
    /\ want' = [want EXCEPT ![p] = n]
    /\ Goto(p, IF Fits(n) THEN "carve" ELSE "index")
    /\ UNCHANGED <<listVars, kVars, taken, logVars, raced>>

(* get_free_page: list_index is read before dequeue_page is called, *)
ReadIndex(p) ==
    /\ Step(p)
    /\ pc[p] = "index"
    /\ taken' = [taken EXCEPT ![p].index = free_head]
    /\ Goto(p, "head")
    /\ UNCHANGED <<listVars, kVars, want, logVars, calls, raced>>

(* which reads the head again.  Its test for an empty list compares the      *)
(* address of the tail with 0 and so never succeeds: an empty list hands out *)
(* entry 0, physical page 0.                                                 *)
ReadHead(p) ==
    /\ Step(p)
    /\ pc[p] = "head"
    /\ taken' = [taken EXCEPT ![p].page = free_head]
    /\ Goto(p, "unlink")
    /\ UNCHANGED <<listVars, kVars, want, logVars, calls, raced>>

(* Variant: the head is not advanced past the last page. *)
M_Unlink_keeps_last(p) ==
    /\ Step(p)
    /\ pc[p] = "unlink"
    /\ free_head' = IF next[taken[p].page] = 0 THEN free_head ELSE next[taken[p].page]
    /\ free_tail' = IF next[taken[p].page] = 0 THEN 0 ELSE free_tail
    /\ raced' = raced \cup {w \in {"page"} : Meets(p, {"unlink"})}
                      \cup {w \in {"index"} : Meets(p, {"head"})}
    /\ granted' = Append(granted, taken[p].page)
    /\ Goto(p, "use")
    /\ UNCHANGED <<next, used_head, used_tail, kVars, want, taken, mapped, blocks, calls>>

Unlink(p) ==
    /\ Step(p)
    /\ pc[p] = "unlink"
    /\ free_head' = next[taken[p].page]
    /\ free_tail' = IF next[taken[p].page] = 0 THEN 0 ELSE free_tail
    /\ raced' = raced \cup {w \in {"page"} : Meets(p, {"unlink"})}
                      \cup {w \in {"index"} : Meets(p, {"head"})}
    /\ granted' = Append(granted, taken[p].page)
    /\ Goto(p, "use")
    /\ UNCHANGED <<next, used_head, used_tail, kVars, want, taken, mapped, blocks, calls>>

(* queue_page on the used list: its tail is read first, *)
ReadTail(p) ==
    /\ Step(p)
    /\ pc[p] = "use"
    /\ taken' = [taken EXCEPT ![p].tail =
                     IF used_head = 0 /\ used_tail = 0 THEN EmptyList ELSE used_tail]
    /\ Goto(p, "link")
    /\ UNCHANGED <<listVars, kVars, want, logVars, calls, raced>>

(* then the page is linked behind it, by the index read at the beginning.    *)
(* "file": another page is about to be linked behind the same one.  "zero":  *)
(* the tail becomes entry 0, and another page will be linked behind that.    *)
Link(p) ==
    LET k == taken[p].index
        tail == taken[p].tail
    IN
    /\ Step(p)
    /\ pc[p] = "link"
    /\ IF tail = EmptyList
       THEN used_head' = k /\ next' = [next EXCEPT ![k] = 0]
       ELSE next' = [next EXCEPT ![tail] = k, ![k] = 0] /\ UNCHANGED used_head
    /\ used_tail' = k
    /\ raced' = raced \cup {w \in {"file"} : Meets(p, {"link"})}
                      \cup {w \in {"zero"} : k = 0 /\ \E q \in Procs \ {p} :
                                 pc[q] \in {"head", "unlink", "use"} /\ taken[q].index # 0}
    /\ Goto(p, "map")
    /\ UNCHANGED <<free_head, free_tail, kVars, want, taken, logVars, calls>>

(* The page is mapped at _available_virt_mem, which map_page's caller reads   *)
(* before the call; kmalloc makes it the current page at once.               *)
MapAt(p) ==
    /\ Step(p)
    /\ pc[p] = "map"
    /\ taken' = [taken EXCEPT ![p].virt = virt]
    /\ IF want[p] = 0 THEN Goto(p, "move") /\ UNCHANGED kpage
       ELSE Goto(p, "kmove") /\ kpage' = virt
    /\ UNCHANGED <<listVars, virt, kindex, want, logVars, calls, raced>>

(* After the call it moves on by a page, and kmalloc starts the page.        *)
MoveOn(p) ==
    /\ Step(p)
    /\ pc[p] \in {"move", "kmove"}
    /\ mapped' = Append(mapped, taken[p].virt)
    /\ virt' = taken[p].virt + 1
    /\ raced' = raced \cup {w \in {"virt"} : Meets(p, {"move", "kmove"})}
    /\ IF want[p] = 0 THEN Goto(p, "out") /\ UNCHANGED kindex
       ELSE Goto(p, "carve") /\ kindex' = 0
    /\ UNCHANGED <<listVars, kpage, want, taken, granted, blocks, calls>>

(* Variant: _kmalloc_index is not advanced. *)
M_Carve_in_place(p) ==
    /\ Step(p)
    /\ pc[p] = "carve"
    /\ blocks' = Append(blocks, [page |-> kpage, from |-> kindex, bytes |-> want[p]])
    /\ raced' = raced \cup {w \in {"block"} : Meets(p, {"carve", "kmove"})}
    /\ Goto(p, "out")
    /\ UNCHANGED <<listVars, kVars, want, taken, granted, mapped, calls>>

(* The block is cut off the current page. *)
Carve(p) ==
    /\ Step(p)
    /\ pc[p] = "carve"
    /\ blocks' = Append(blocks, [page |-> kpage, from |-> kindex, bytes |-> want[p]])
    /\ kindex' = kindex + want[p]
    /\ raced' = raced \cup {w \in {"block"} : Meets(p, {"carve", "kmove"})}
    /\ Goto(p, "out")
    /\ UNCHANGED <<listVars, virt, kpage, want, taken, granted, mapped, calls>>

(* The panic loop, or nothing more to allocate within the bound. *)
Rest ==
    /\ boot = "panic" \/ (boot = "done" /\ calls = MaxCalls /\ ~\E p \in Procs : Inside(p))
    /\ UNCHANGED vars

Next ==
    \/ SkipRegion \/ MakePage \/ FilterHead \/ FilterRest
    \/ \E p \in Procs :
          \/ GetPage(p) \/ \E n \in Requests : kmalloc(p, n)
          \/ ReadIndex(p) \/ ReadHead(p) \/ Unlink(p) \/ ReadTail(p) \/ Link(p)
          \/ MapAt(p) \/ MoveOn(p) \/ Carve(p)
    \/ Rest

Spec == Init /\ [][Next]_vars
-----------------------------------------------------------------------------
(* The pages of a list, from its head, until 0 or a page seen before. *)
Chain(head) ==
    LET at[k \in 0..NPages] == IF k = 0 THEN head
                               ELSE IF at[k - 1] = 0 THEN 0 ELSE next[at[k - 1]]
    IN  {at[k] : k \in 0..NPages} \ {0}

Elements(s) == {s[k] : k \in DOMAIN s}
Distinct(s) == \A a, b \in DOMAIN s : s[a] = s[b] => a = b

(* The entries that are linked when all regions were added: as many as the    *)
(* last region has, all pages only if there is one region.                   *)
Usable == (1..linked) \ range

(* FilteredExactly: after filter_out_pages, and as long as nothing was        *)
(* allocated, the free list holds exactly the usable pages: the indices that  *)
(* restart with every region leave a sound list, of the last region's length. *)
FilteredExactly ==
    (boot = "done" /\ calls = 0) => Chain(free_head) = Usable

(* PagesGrantedOnce: unless two processes were between the read and the       *)
(* store of the head at once, no physical page is handed out twice, none of   *)
(* the kernel's own ever, and page 0 only when every other page is in use.   *)
(* Once page 0 was handed out this needs next[0] = 0, which is lost if a page *)
(* is queued behind page 0: one whose caller was still on its way to         *)
(* queue_page when page 0 was queued.                                        *)
PagesGrantedOnce ==
    raced \cap {"page", "zero"} = {} =>
        /\ Elements(granted) \cap range = {}
        /\ \A a, b \in DOMAIN granted : granted[a] = granted[b] /\ granted[a] # 0 => a = b
        /\ 0 \in Elements(granted) => Elements(granted) \ {0} = Usable

(* NothingLost: between two allocations every page outside the kernel is on  *)
(* the free list or on the used list, and on one of them only, unless two     *)
(* processes took their list_index from the same head, or read the same tail  *)
(* of the used list.                                                         *)
NothingLost ==
    (raced \subseteq {"block", "virt"} /\ boot = "done" /\ 0 \notin Elements(granted)
     /\ ~\E p \in Procs : Inside(p)) =>
        /\ Chain(free_head) \cup Chain(used_head) = Usable
        /\ Chain(free_head) \cap Chain(used_head) = {}
        /\ Chain(used_head) = Elements(granted)

(* BlocksApart: unless two processes had passed the test of kmalloc at once,  *)
(* or one passed it while the other was mapping a new current page, or two   *)
(* mapped at the same address, the blocks kmalloc returns are disjoint and    *)
(* each lies within one page; and no virtual page is mapped twice.           *)
BlocksApart ==
    /\ raced \cap {"block", "virt"} = {} =>
         \A a \in DOMAIN blocks :
            /\ blocks[a].from + blocks[a].bytes <= PAGESIZE
            /\ \A b \in DOMAIN blocks :
                  \/ a = b
                  \/ blocks[a].page # blocks[b].page
                  \/ blocks[a].from + blocks[a].bytes <= blocks[b].from
                  \/ blocks[b].from + blocks[b].bytes <= blocks[a].from
    /\ "virt" \notin raced => Distinct(mapped)
=============================================================================
