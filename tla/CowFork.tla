------------------------------ MODULE CowFork ------------------------------
(***************************************************************************)
(* Copy on write in SBUnix: what fork does to the page tables of parent and  *)
(* child (get_forked_pcb, mark_fork_cross_entry, mark_COW), and how a write  *)
(* fault on a shared page is resolved (int_pgflt_srv, handle_COW, do_COW,    *)
(* cross_off_COW in sys/memory_helpers.c).                                  *)
(*                                                                         *)
(* There is no reference count.  Slot 509 of a process's top-level table     *)
(* (cross) points at the table of the last relative it got by a fork, and a  *)
(* fault copies the page for the writer and makes the original writable      *)
(* again in that one relative.                                              *)
(*                                                                         *)
(* The fault handler runs with interrupts off and is one step.  A page table *)
(* maps a page to a frame with the READ_WRITE bit; the COW bit is set and    *)
(* cleared by the code but never tested, so it is left out.  Frames are      *)
(* taken in order and never given back, as in get_free_page.  The content of *)
(* a page is abstracted to the process that stored to it last.               *)
(***************************************************************************)
EXTENDS Integers, FiniteSets

CONSTANTS
    MaxPid,    \* bound: processes ever created
    Pages,     \* user pages
    Low,       \* those of them below the first top-level entry: program and data
    Stack,     \* the page execve writes the arguments to
    MaxFrames, \* bound: physical pages
    MaxStores  \* bound: stores to user memory and execs

ASSUME CowAssumption ==
    /\ MaxPid \in Nat \ {0} /\ MaxFrames \in Nat
    /\ Low \subseteq Pages /\ Stack \in Pages \ Low
    /\ IsFiniteSet(Pages) /\ Cardinality(Pages) <= MaxFrames /\ MaxStores \in Nat

Pids == 1..MaxPid
Shell == 1
Frames == 1..MaxFrames
NoPid == 0
NoPage == "none"
Blank == 0     \* what an untouched frame holds

(* Some frames for the pages the shell has touched when it starts. *)
FirstFrame == CHOOSE f \in [Pages -> 1..Cardinality(Pages)] :
                  \A v, w \in Pages : f[v] = f[w] => v = w

Absent == [frame |-> 0, rw |-> FALSE]

VARIABLES
    state,     \* "live"; "killed": FINISHED and still in the queue; "gone"
    ppid,      \* pcb.ppid, 0 for a process made by init()
    table,     \* the level 1 page table entries of a process
    cross,     \* slot 509: whose table the cross window shows
    content,   \* what a frame holds
    used,      \* frames handed out
    stores,    \* stores so far
    writing,   \* the page a user program is about to store to
    wp,        \* CR0.WP, as the boot loader left it: the kernel never sets it
    halted,    \* while(1) in the page fault handler
    meant,     \* history: the memory a process should see
    leaks      \* history: events after which the memory is not private

vars == <<state, ppid, table, cross, content, used, stores, writing, wp, halted,
          meant, leaks>>

Live == {p \in Pids : state[p] = "live"}
Runs(p) == ~halted /\ p \in Live
(* A process between two instructions of its program, not at a store. *)
InUser(p) == Runs(p) /\ writing[p] = NoPage

Init ==
    /\ state = [p \in Pids |-> IF p = Shell THEN "live" ELSE "none"]
    /\ ppid = [p \in Pids |-> NoPid]
    /\ table = [p \in Pids |-> [v \in Pages |->
                  IF p = Shell THEN [frame |-> FirstFrame[v], rw |-> TRUE] ELSE Absent]]
    /\ cross = [p \in Pids |-> NoPid]
    /\ content = [f \in Frames |-> Blank]
    /\ used = Cardinality(Pages)
    /\ stores = 0
    /\ writing = [p \in Pids |-> NoPage]
    /\ wp \in BOOLEAN
    /\ halted = FALSE
    /\ meant = [p \in Pids |-> [v \in Pages |-> Blank]]
    /\ leaks = {}
-----------------------------------------------------------------------------
(* What p reads at v: the first touch of a page maps an untouched frame. *)
View(p, v) == IF table[p][v] = Absent THEN Blank ELSE content[table[p][v].frame]

(* Who else would see a store to the frame behind p's page v. *)
Sharers(p, v) ==
    {q \in Live \ {p} : \E w \in Pages : /\ table[q][w] # Absent
                                         /\ table[q][w].frame = table[p][v].frame}

(* get_free_page, as long as there are frames. *)
FrameLeft == used < MaxFrames
TakeFrame(x) ==
    /\ FrameLeft
    /\ used' = used + 1
    /\ content' = [content EXCEPT ![used + 1] = x]
-----------------------------------------------------------------------------
(* Variant: the parent keeps its pages writable. *)
M_mark_COW_child_only(t, p, c) ==
    [t EXCEPT ![c] = [v \in Pages |-> [t[p][v] EXCEPT !.rw = FALSE]]]

(* mark_COW: the READ_WRITE bit of every mapped page is cleared in the       *)
(* parent, and the child's table becomes a copy.                             *)
mark_COW(t, p, c) ==
    LET shared == [v \in Pages |-> [t[p][v] EXCEPT !.rw = FALSE]]
    IN  [t EXCEPT ![p] = shared, ![c] = shared]

(* The forks after which one relative in slot 509 is too few: by a process   *)
(* that was forked itself, or that has a child already.                      *)
ManyRelatives(p) == ppid[p] # NoPid \/ \E q \in Live : ppid[q] = p

(* get_forked_pcb: new table, cross entries both ways, mark_COW. *)
Fork(p) ==
    \E c \in Pids :
        /\ InUser(p)
        /\ state[c] = "none" /\ \A q \in 1..(c - 1) : state[q] # "none"
        /\ state' = [state EXCEPT ![c] = "live"]
        /\ ppid' = [ppid EXCEPT ![c] = p]
        /\ cross' = [cross EXCEPT ![p] = c, ![c] = p]
        /\ table' = mark_COW(table, p, c)
        /\ meant' = [meant EXCEPT ![c] = meant[p]]
        /\ leaks' = IF ManyRelatives(p) THEN leaks \cup {"relatives"} ELSE leaks
        /\ UNCHANGED <<content, used, stores, writing, wp, halted>>

(* One more store, by a program or by the kernel for it. *)
Another == stores < MaxStores /\ stores' = stores + 1

(* The program reaches a store. *)
StartWrite(p, v) ==
    /\ InUser(p)
    /\ Another
    /\ writing' = [writing EXCEPT ![p] = v]
    /\ UNCHANGED <<state, ppid, table, cross, content, used, wp, halted, meant, leaks>>

(* The store goes through: the page is mapped and writable. *)
Write(p) ==
    /\ Runs(p) /\ writing[p] # NoPage
    /\ LET v == writing[p]
       IN  /\ table[p][v].rw
           /\ content' = [content EXCEPT ![table[p][v].frame] = p]
           /\ meant' = [meant EXCEPT ![p][v] = p]
    /\ writing' = [writing EXCEPT ![p] = NoPage]
    /\ UNCHANGED <<state, ppid, table, cross, used, stores, wp, halted, leaks>>

(* The page is not mapped: add_physical_page_in, and the store is retried. *)
Touch(p) ==
    /\ Runs(p) /\ writing[p] # NoPage
    /\ LET v == writing[p]
       IN  /\ table[p][v] = Absent
           /\ TakeFrame(Blank)
           /\ table' = [table EXCEPT ![p][v] = [frame |-> used + 1, rw |-> TRUE]]
    /\ UNCHANGED <<state, ppid, cross, stores, writing, wp, halted, meant, leaks>>

(* find_pcb_by_ppid, find_pcb_by_pid: they search the run queue, in which a   *)
(* killed process stays until it would be its turn.                          *)
InQueue(q) == q \in Pids /\ state[q] \in {"live", "killed"}

(* Variant: everybody is looked up by its own pid. *)
M_RelativeFound_children(p) == \E c \in Pids : ppid[c] = p /\ InQueue(c)

RelativeFound(p) ==
    IF ppid[p] = NoPid THEN \E c \in Pids : ppid[c] = p /\ InQueue(c)
                       ELSE InQueue(ppid[p])

(* cross_off_COW: writable again in the table slot 509 points at.  An entry  *)
(* that is not mapped stays so.                                              *)
cross_off_COW(t, p, v) ==
    IF cross[p] = NoPid \/ t[cross[p]][v] = Absent THEN t
    ELSE [t EXCEPT ![cross[p]][v].rw = TRUE]

(* do_COW: a new frame with the page's content, writable, for the faulting   *)
(* process only.                                                             *)
do_COW(t, p, v) == [t EXCEPT ![p][v] = [frame |-> used + 1, rw |-> TRUE]]

(* Variant: the page is not copied when the relative may write it. *)
M_handle_COW_no_copy(p, v) ==
    /\ table' = cross_off_COW([table EXCEPT ![p][v].rw = TRUE], p, v)
    /\ UNCHANGED <<content, used>>

(* handle_COW.  Without a relative it crosses off and returns: the entry     *)
(* that is made writable is the relative's, not the one that faulted.        *)
handle_COW(p, v) ==
    IF RelativeFound(p)
    THEN /\ TakeFrame(content[table[p][v].frame])
         /\ table' = cross_off_COW(do_COW(table, p, v), p, v)
    ELSE /\ table' = cross_off_COW(table, p, v)
         /\ UNCHANGED <<content, used>>

(* A store to a read-only page: error code 7, then the store is retried. *)
WriteFault(p) ==
    /\ Runs(p) /\ writing[p] # NoPage
    /\ LET v == writing[p]
       IN  /\ table[p][v] # Absent /\ ~table[p][v].rw
           /\ handle_COW(p, v)
    /\ UNCHANGED <<state, ppid, cross, stores, writing, wp, halted, meant, leaks>>
-----------------------------------------------------------------------------
(* A store by the kernel to user memory, at v in p's table t: copy_input *)
(* and do_waitpid in read and wait4, the arguments in process_exec, the      *)
(* program text in map_elf.  Without WP the processor ignores the READ_WRITE *)
(* bit in ring 0; with it the fault has error code 3, which int_pgflt_srv    *)
(* does not handle.                                                          *)
KernelStore(t, p, v) ==
    /\ meant' = [meant EXCEPT ![p] = [w \in Pages |->
                    IF w = v THEN p ELSE IF t[p][w] = Absent THEN Blank ELSE meant[p][w]]]
    /\ \/ /\ t[p][v] = Absent
          /\ TakeFrame(p)
          /\ table' = [t EXCEPT ![p][v] = [frame |-> used + 1, rw |-> TRUE]]
          /\ UNCHANGED <<halted, leaks>>
       \/ /\ t[p][v] # Absent
          /\ t[p][v].rw \/ ~wp
          /\ content' = [content EXCEPT ![t[p][v].frame] = p]
          /\ table' = t
          /\ leaks' = IF Sharers(p, v) = {} THEN leaks ELSE leaks \cup {"kernel"}
          /\ UNCHANGED <<used, halted>>
       \/ /\ t[p][v] # Absent
          /\ ~t[p][v].rw /\ wp
          /\ halted' = TRUE
          /\ table' = t
          /\ UNCHANGED <<content, used, leaks>>

(* read or wait4 into a user buffer. *)
KernelWrite(p, v) ==
    /\ InUser(p)
    /\ Another
    /\ KernelStore(table, p, v)
    /\ UNCHANGED <<state, ppid, cross, writing, wp>>

(* execve: the first top-level entry is cleared, the arguments are stored on *)
(* the stack the process has shared since its fork.                          *)
Exec(p) ==
    /\ InUser(p)
    /\ Another
    /\ KernelStore([table EXCEPT ![p] = [v \in Pages |->
                        IF v \in Low THEN Absent ELSE table[p][v]]], p, Stack)
    /\ UNCHANGED <<state, ppid, cross, writing, wp>>

(* do_exit: the active process is in no queue and is gone at once. *)
Exit(p) ==
    /\ InUser(p)
    /\ state' = [state EXCEPT ![p] = "gone"]
    /\ UNCHANGED <<ppid, table, cross, content, used, stores, writing, wp, halted, meant, leaks>>

(* kill_pid: the victim is FINISHED but stays in the queue ... *)
Kill(p, q) ==
    /\ InUser(p) /\ q # p /\ q \in Live
    /\ state' = [state EXCEPT ![q] = "killed"]
    /\ UNCHANGED <<ppid, table, cross, content, used, stores, writing, wp, halted, meant, leaks>>

(* ... until get_next_context meets it. *)
Dequeue(q) ==
    /\ ~halted /\ state[q] = "killed"
    /\ state' = [state EXCEPT ![q] = "gone"]
    /\ UNCHANGED <<ppid, table, cross, content, used, stores, writing, wp, halted, meant, leaks>>

(* The store a process is at, executed, or taken to the fault handler. *)
StoreStep(p) == Write(p) \/ Touch(p) \/ WriteFault(p)

Next ==
    \E p \in Pids :
        \/ Fork(p) \/ StoreStep(p) \/ Exec(p) \/ Exit(p) \/ Dequeue(p)
        \/ \E q \in Pids : Kill(p, q)
        \/ \E v \in Pages : StartWrite(p, v) \/ KernelWrite(p, v)

Spec == Init /\ [][Next]_vars

(* A runnable process executes its next instruction eventually, which the    *)
(* scheduler guarantees (RunnableRuns in SchedulerLiveness).                 *)
FairSpec == Spec /\ \A p \in Pids : WF_vars(StoreStep(p))
-----------------------------------------------------------------------------
(* NoSharedWriter: as long as nobody has more than one relative, a page that *)
(* handle_COW or cross_off_COW made writable for one living process is       *)
(* mapped by no other.                                                       *)
NoSharedWriter ==
    "relatives" \notin leaks =>
        \A p \in Live, v \in Pages : table[p][v].rw => Sharers(p, v) = {}

(* MemoryIsPrivate: until one of the named leaks, what a process reads is    *)
(* what it wrote itself or had at its fork, whatever its relatives wrote,    *)
(* executed or left behind meanwhile.                                        *)
MemoryIsPrivate ==
    (leaks = {} /\ ~halted) =>
        \A p \in Live, v \in Pages : View(p, v) = meant[p][v]

(* StoreEnds: a store that faults goes through in the end as long as         *)
(* handle_COW has somebody to share with: a child for a process of init(),   *)
(* the parent for a forked one.  (Alone, a process faults forever.)          *)
Alone(p) == IF ppid[p] = NoPid THEN \A c \in Live : ppid[c] # p
            ELSE ppid[p] \notin Live
StoreEnds ==
    \A p \in Pids :
        (p \in Live /\ writing[p] # NoPage) ~>
            (writing[p] = NoPage \/ p \notin Live \/ Alone(p) \/ ~FrameLeft \/ halted)
=============================================================================
