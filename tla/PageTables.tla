----------------------------- MODULE PageTables -----------------------------
(***************************************************************************)
(* The page tables of SBUnix: setup_paging and k_map_v at boot, map_page      *)
(* through the self-referencing entry afterwards, get_new_page_table for a    *)
(* new process, the tree copy of mark_COW in a fork, and execve dropping the  *)
(* first top-level entry.                                                    *)
(*                                                                         *)
(* A table is a frame of physical memory, an entry the number of the frame it *)
(* points to, 0 or, in a frame nobody has cleared, JUNK.  A virtual page is   *)
(* the sequence of its indices, LEVELS long (4 in the code).  The windows at  *)
(* 0xffffff7f... are paths through the entry SELF of the table that is active; *)
(* flags and the copying of pages are left to CowFork.  Calls are atomic here *)
(* (their races are those of the page lists: PageAllocator).                  *)
(***************************************************************************)
EXTENDS Integers, FiniteSets, Sequences

CONSTANTS
    LEVELS,      \* levels of tables: 4 in the code
    ENTRIES,     \* entries of a table: 512 in the code
    MaxProcs,    \* bound: processes
    MaxFrames,   \* bound: frames of physical memory
    UserPages,   \* the virtual pages programs touch
    KernelPages, \* the virtual pages from the kernel's first one upwards
    DirtySets    \* the sets of frames that may be other than zero at boot

(* The top level: user entries, then slots 509, 510 and 511. *)
Idx == 0..(ENTRIES - 1)
User == 0..(ENTRIES - 4)
CROSS == ENTRIES - 3
SELF == ENTRIES - 2
KERNEL == ENTRIES - 1

Pids == 1..MaxProcs
Idle == 1   \* runs in the kernel only
Frames == 1..MaxFrames
JUNK == -1
Zeros == [i \in Idx |-> 0]

(* Physical pages of the kernel and of the display: not in the free list. *)
KernelImage == MaxFrames + 1
Display == MaxFrames + 2

(* The virtual pages of programs and of the kernel, as their indices at each *)
(* level, and the paths of the tables programs' pages are found through.     *)
VUser == {v \in [1..LEVELS -> Idx] : v[1] \in User}
VKernel == {v \in [1..LEVELS -> Idx] : v[1] = KERNEL}
TablePaths == UNION {{t \in [1..n -> Idx] : t[1] \in User} : n \in 1..(LEVELS - 1)}

ASSUME TableAssumption ==
    /\ LEVELS \in Nat /\ LEVELS > 1
    /\ ENTRIES \in Nat /\ ENTRIES > 3
    /\ MaxProcs \in Nat /\ MaxProcs > 1 /\ MaxFrames \in Nat /\ MaxFrames > 0
    /\ UserPages \subseteq VUser
    /\ DirtySets \subseteq SUBSET Frames

(* One entry of the top level maps 512 GB: there are fewer frames than that.  *)
ASSUME KernelAssumption ==
    /\ KernelPages \in [0..(MaxFrames - 1) -> VKernel]
    /\ \A k, l \in 0..(MaxFrames - 1) : KernelPages[k] = KernelPages[l] => k = l

VARIABLES
    ram,      \* mem: the frames' contents; used: frames handed out;
              \* kvirt: _available_virt_mem, in pages from the kernel's first;
              \* kmapped: history, what was mapped there;
              \* tainted: history, a table was put to use with junk in it
    pml4,     \* pcb.pml4, 0 for no process
    phase,    \* "boot", "paged" (setup_paging is done), "up" (init is done)
    dirty,    \* the frames that were not zero at boot
    expected  \* history: what each process should find at its virtual pages

tableVars == <<ram, pml4, phase, dirty, expected>>

TablesInit ==
    /\ dirty \in DirtySets
    /\ ram = [mem |-> [f \in Frames |-> IF f \in dirty THEN [i \in Idx |-> JUNK] ELSE Zeros],
              used |-> 0, kvirt |-> 0, kmapped |-> <<>>, tainted |-> FALSE]
    /\ pml4 = [p \in Pids |-> 0]
    /\ phase = "boot"
    /\ expected = [p \in Pids |-> [v \in VUser |-> 0]]
-----------------------------------------------------------------------------
(* What the MMU finds on the path v from the table root: a frame, 0 or JUNK. *)
Walk(mem, root, v) ==
    LET at[n \in 0..Len(v)] ==
            IF n = 0 THEN root
            ELSE IF at[n - 1] \in Frames THEN mem[at[n - 1]][v[n]] ELSE at[n - 1]
    IN  at[Len(v)]

ZeroOut(r, t) == [r EXCEPT !.mem[t] = Zeros]

(* get_free_page for the table that entry i of t is to point to. *)
NewTable(r, t, i) == [r EXCEPT !.used = @ + 1, !.mem[t][i] = r.used + 1]

(* One turn of map_page's loop: the table made in the turn before is cleared *)
(* now, so the one made in the last turn is not.                             *)
map_step(w, i) ==
    LET r == IF w.fresh THEN ZeroOut(w.r, w.at) ELSE w.r
    IN  IF r.mem[w.at][i] = 0
        THEN [r |-> NewTable(r, w.at, i), at |-> r.used + 1, fresh |-> TRUE]
        ELSE [r |-> r, at |-> r.mem[w.at][i], fresh |-> FALSE]

map_page(r, root, v, frame) ==
    LET turn[n \in 0..(LEVELS - 1)] ==
            IF n = 0 THEN [r |-> r, at |-> root, fresh |-> FALSE] ELSE map_step(turn[n - 1], v[n])
        w == turn[LEVELS - 1]
    IN  [w.r EXCEPT !.mem[w.at][v[LEVELS]] = frame,
                    !.tainted = @ \/ (w.fresh /\ w.at \in dirty)]

(* k_map_v, before the kernel runs on its own tables: a table is cleared     *)
(* when it is made.                                                          *)
k_map_step(w, i) ==
    IF w.r.mem[w.at][i] = 0
    THEN [r |-> ZeroOut(NewTable(w.r, w.at, i), w.r.used + 1), at |-> w.r.used + 1]
    ELSE [r |-> w.r, at |-> w.r.mem[w.at][i]]

k_map_v(r, root, frame) ==
    LET v == KernelPages[r.kvirt]
        turn[n \in 0..(LEVELS - 1)] ==
            IF n = 0 THEN [r |-> r, at |-> root] ELSE k_map_step(turn[n - 1], v[n])
        w == turn[LEVELS - 1]
    IN  [w.r EXCEPT !.mem[w.at][v[LEVELS]] = frame,
                    !.kvirt = @ + 1, !.kmapped = Append(@, frame)]
-----------------------------------------------------------------------------
(* get_new_page_v: a page of the kernel's, mapped in the active tables; also *)
(* what kmalloc does for a new page.                                         *)
get_new_page_v(r, root) ==
    LET n == r.used + 1
    IN  [map_page([r EXCEPT !.used = n], root, KernelPages[r.kvirt], n)
            EXCEPT !.kvirt = @ + 1, !.kmapped = Append(@, n)]

(* All entries of the active table, whoever it belongs to. *)
copy_kernel_pml4(r, to, root) == [r EXCEPT !.mem[to] = r.mem[root]]

(* Variant: the self-referencing entry is left as it was copied. *)
M_get_new_page_table_self(r, root) ==
    copy_kernel_pml4(get_new_page_v(r, root), r.used + 1, root)

(* Variant: only the entries below slot 509 are copied. *)
M_get_new_page_table_user(r, root) ==
    LET w == get_new_page_v(r, root)
    IN  [w EXCEPT !.mem[r.used + 1] = [i \in Idx |->
            IF i \in User THEN w.mem[root][i] ELSE IF i = SELF THEN r.used + 1 ELSE 0]]

(* get_new_page_table: the new table, r.used + 1, is a copy of the active    *)
(* one, apart from its self-referencing entry.                               *)
get_new_page_table(r, root) ==
    [copy_kernel_pml4(get_new_page_v(r, root), r.used + 1, root)
        EXCEPT !.mem[r.used + 1][SELF] = r.used + 1]

(* As many frames as a call may take in the worst case: the bound.           *)
Room(n) == ram.used + n <= MaxFrames

(* setup_paging: the kernel's own table, with the kernel and the display. *)
setup_paging ==
    /\ phase = "boot" /\ phase' = "paged"
    /\ Room(2 * LEVELS)
    /\ LET pm == ram.used + 1
           w == ZeroOut([ram EXCEPT !.used = pm], pm)
       IN  ram' = k_map_v(k_map_v([w EXCEPT !.mem[pm][SELF] = pm], pm, KernelImage),
                          pm, Display)
    /\ UNCHANGED <<pml4, dirty, expected>>

(* init: pcbs (in one page of kmalloc), kernel stacks and tables of the idle  *)
(* process and the shell, made on the kernel's table.                        *)
init ==
    /\ phase = "paged" /\ phase' = "up"
    /\ Room(5 * LEVELS)
    /\ LET idle == get_new_page_v(get_new_page_v(ram, 1), 1)
           shell == get_new_page_v(get_new_page_table(idle, 1), 1)
       IN  /\ pml4' = [pml4 EXCEPT ![1] = idle.used + 1, ![2] = shell.used + 1]
           /\ ram' = get_new_page_table(shell, 1)
    /\ UNCHANGED <<dirty, expected>>
-----------------------------------------------------------------------------
(* The table at 0xffffff7fbfdfe000 while p runs. *)
Root(p) == ram.mem[pml4[p]][SELF]
Runs(p) == phase = "up" /\ p # Idle /\ pml4[p] # 0

(* add_physical_page_in: the first touch of a page faults. *)
add_physical_page_in(p, v) ==
    /\ Runs(p) /\ Room(LEVELS)
    /\ Walk(ram.mem, pml4[p], v) = 0
    /\ LET n == ram.used + 1
       IN  /\ ram' = map_page([ram EXCEPT !.used = n], Root(p), v, n)
           /\ expected' = [expected EXCEPT ![p][v] = n]
    /\ UNCHANGED <<pml4, phase, dirty>>

(* execve: ptr[0] = 0 in the active table; the new program is touched in.     *)
do_execve(p) ==
    /\ Runs(p)
    /\ ram' = [ram EXCEPT !.mem[Root(p)][0] = 0]
    /\ expected' = [expected EXCEPT ![p] = [v \in VUser |-> IF v[1] = 0 THEN 0 ELSE @[v]]]
    /\ UNCHANGED <<pml4, phase, dirty>>

(* mark_fork_cross_entry: each sees the other's table in slot 509. *)
mark_fork_cross_entry(r, parent, child) ==
    [r EXCEPT !.mem[parent][CROSS] = child, !.mem[child][CROSS] = parent]

(* Variant: the loop ends one entry early. *)
M_Copied_short(r, root) == {t \in TablePaths : t[1] # 1 /\ Walk(r.mem, root, t) # 0}

(* The paths of the tables _do_mark_COW copies: all below the cross entry, *)
Copied(r, root) == {t \in TablePaths : Walk(r.mem, root, t) # 0}

(* each before those below it, and those from its first entry on.            *)
Under(t, u) == Len(t) <= Len(u) /\ \A n \in 1..Len(t) : u[n] = t[n]
CopiedBefore(t, u) ==
    \/ Under(t, u)
    \/ \E n \in DOMAIN t \cap DOMAIN u : t[n] < u[n] /\ \A m \in 1..(n - 1) : t[m] = u[m]

(* mark_COW: every table of the parent gets a counterpart in a frame that is *)
(* not cleared; entries that are 0 in the parent are not stored to it.       *)
mark_COW(r, parent, child) ==
    LET paths == Copied(r, parent)
        at == [t \in paths |-> r.used + Cardinality({u \in paths : CopiedBefore(u, t)})]
        Filled(t) == [i \in Idx |->
            LET e == Walk(r.mem, parent, Append(t, i))
            IN  IF e = 0 THEN r.mem[at[t]][i]
                ELSE IF Len(t) < LEVELS - 1 THEN at[Append(t, i)] ELSE e]
    IN  [r EXCEPT
            !.used = @ + Cardinality(paths),
            !.mem = [f \in Frames |->
                IF \E t \in paths : at[t] = f THEN Filled(CHOOSE t \in paths : at[t] = f)
                ELSE IF f = child
                     THEN [i \in Idx |-> IF <<i>> \in paths THEN at[<<i>>] ELSE @[f][i]]
                     ELSE @[f]],
            !.tainted = @ \/ \E t \in paths : at[t] \in dirty]

(* get_forked_pcb: a stack, one table from _get_new_pcb that is not used any  *)
(* more, another one, and the copy.  With junk for a table it cannot go on.   *)
get_forked_pcb(p) ==
    LET w == get_new_page_table(get_new_page_v(ram, Root(p)), Root(p))
        child == w.used + 1
        x == mark_fork_cross_entry(get_new_page_table(w, Root(p)), Root(p), child)
    IN  /\ Runs(p)
        /\ Room(3 * LEVELS)
        /\ \A t \in TablePaths : Walk(x.mem, Root(p), t) # JUNK
        /\ x.used + Cardinality(Copied(x, Root(p))) <= MaxFrames
        /\ ram' = mark_COW(x, Root(p), child)
        /\ \E c \in Pids :
              /\ pml4[c] = 0 /\ \A d \in 1..(c - 1) : pml4[d] # 0
              /\ pml4' = [pml4 EXCEPT ![c] = child]
              /\ expected' = [expected EXCEPT ![c] = expected[p]]
        /\ UNCHANGED <<phase, dirty>>

TablesNext ==
    \/ setup_paging \/ init
    \/ \E p \in Pids :
          \/ do_execve(p) \/ get_forked_pcb(p)
          \/ \E v \in UserPages : add_physical_page_in(p, v)

TablesSpec == TablesInit /\ [][TablesNext]_tableVars
-----------------------------------------------------------------------------
Processes == {p \in Pids : pml4[p] # 0}

(* TranslationExact: as long as the frames of the tables that are never       *)
(* cleared (level 1 tables of map_page, all tables of mark_COW) happened to   *)
(* be zero, every process finds at every virtual page what was mapped there   *)
(* for it or what its parent had at the fork, and nothing else: no mapping    *)
(* disturbs another, neither in the same tree nor in a relative's.            *)
TranslationExact ==
    ~ram.tainted =>
        \A p \in Processes, v \in VUser : Walk(ram.mem, pml4[p], v) = expected[p][v]

(* KernelSeenByAll: pages the kernel maps while one process runs (stacks,     *)
(* tables, kmalloc) are seen on every other process's table, because all top  *)
(* levels were copied from one that had the kernel's entry already.           *)
KernelSeenByAll ==
    ~ram.tainted =>
        \A p \in Processes, k \in DOMAIN ram.kmapped :
            Walk(ram.mem, pml4[p], KernelPages[k - 1]) = ram.kmapped[k]

(* TablesPrivate: although a new top level starts as a copy of the running    *)
(* process's, user entries included, no table for user pages is reached from  *)
(* two processes once the fork is done, tainted or not.                       *)
TablesPrivate ==
    \A p, q \in Processes :
        p # q => {Walk(ram.mem, pml4[p], t) : t \in TablePaths}
                 \cap {Walk(ram.mem, pml4[q], t) : t \in TablePaths} \cap Frames = {}
=============================================================================
