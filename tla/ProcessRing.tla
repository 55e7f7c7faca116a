---------------------------- MODULE ProcessRing ----------------------------
(***************************************************************************)
(* The run queue as it is stored: processq is an array of SIZE slots with a  *)
(* head and a tail index and no test for a full ring.  Scheduler has a       *)
(* sequence in its place and takes enqueue_process and the choice of a pid   *)
(* for one step each; here they are cut at their loads and stores, as the    *)
(* build (-O1) orders them: the tail and _prev_pid are read once into a      *)
(* register (reg) and stored back from it.                                   *)
(*                                                                         *)
(* A process is known by its pcb; pid[p] is the number in it.  gnc is the    *)
(* place inside get_next_context, which a system call runs with interrupts   *)
(* on and the timer interrupt with interrupts off (masked).                  *)
(***************************************************************************)
EXTENDS Integers, FiniteSets

CONSTANTS
    SIZE,      \* PROCESS_QUEUE_SIZE: 100 in the code
    MaxProcs,  \* bound: pcbs ever made
    Killable   \* the pids kill is called with

ASSUME RingAssumption ==
    /\ SIZE \in Nat /\ SIZE > 2
    /\ MaxProcs \in Nat /\ MaxProcs > 1
    /\ Killable \subseteq Nat

Procs == 1..MaxProcs
Idle == 1
Shell == 2
NULL == 0
Slots == 0..(SIZE - 1)

VARIABLES
    list, head, tail,  \* processq
    active,            \* _active_pcb
    status,            \* pcb.status, "none" before the pcb is made
    pid,               \* pcb.pid
    prev_pid,
    pc,                \* where in do_fork a process is, or "user"
    reg,               \* the register that holds the tail or the new pid
    kid,               \* the pcb do_fork is making
    gnc,               \* where in get_next_context the CPU is, or "none"
    masked,            \* interrupts are off
    halted,            \* a dispatched NULL, or a nested schedule()
    cut,               \* history: places in which a slice has ended
    crowded            \* history: there were more processes than slots; a killed one
                       \* counts until its turn comes

ring == <<list, head, tail>>
procVars == <<status, pid, prev_pid, pc, reg, kid>>
vars == <<ring, active, procVars, gnc, masked, halted, cut, crowded>>

(* init(): both processes are queued, then the idle process is dequeued. *)
Init ==
    /\ list = [i \in Slots |-> CASE i = 0 -> Idle [] i = 1 -> Shell [] OTHER -> NULL]
    /\ head = 1 /\ tail = 2
    /\ active = Idle
    /\ status = [p \in Procs |-> IF p \in {Idle, Shell} THEN "RUNNING" ELSE "none"]
    /\ pid = [p \in Procs |-> IF p \in {Idle, Shell} THEN p ELSE 0]
    /\ prev_pid = 2
    /\ pc = [p \in Procs |-> "user"]
    /\ reg = [p \in Procs |-> 0]
    /\ kid = [p \in Procs |-> NULL]
    /\ gnc = "none" /\ masked = FALSE /\ halted = FALSE
    /\ cut = {} /\ crowded = FALSE
-----------------------------------------------------------------------------
(* The slots the loops from head to tail look at, in the order they do. *)
Length == (tail - head) % SIZE
Entry(i) == list[(head + i) % SIZE]
Seen == {Entry(i) : i \in 0..(Length - 1)}

Executes(p) == active = p /\ gnc = "none" /\ ~halted
InUser(p) == Executes(p) /\ pc[p] = "user"
Live == {p \in Procs : status[p] \in {"RUNNING", "WAITING"}}

(* schedule() from a system call. *)
EnterSchedule == gnc' = "enq" /\ UNCHANGED <<ring, active, masked, halted, cut, crowded>>

Yield(p) ==
    /\ InUser(p)
    /\ EnterSchedule
    /\ UNCHANGED procVars

(* status = WAITING or FINISHED; schedule() in the calls that block or end.  *)
Leave(p, s) ==
    /\ InUser(p) /\ p # Idle
    /\ status' = [status EXCEPT ![p] = s]
    /\ EnterSchedule
    /\ UNCHANGED <<pid, prev_pid, pc, reg, kid>>

(* kill_pid: the first one in the ring that has the pid. *)
Kill(p, n) ==
    /\ InUser(p) /\ p # Idle
    /\ \E i \in 0..(Length - 1) :
          /\ Entry(i) # NULL /\ pid[Entry(i)] = n
          /\ \A j \in 0..(i - 1) : Entry(j) = NULL \/ pid[Entry(j)] # n
          /\ status' = [status EXCEPT ![Entry(i)] = "FINISHED"]
    /\ UNCHANGED <<ring, active, pid, prev_pid, pc, reg, kid, gnc, masked, halted, cut, crowded>>
-----------------------------------------------------------------------------
(* do_fork.  _get_new_pcb loads _prev_pid ... *)
ForkLoad(p) ==
    /\ InUser(p) /\ p # Idle
    /\ \E c \in Procs : status[c] = "none"
    /\ reg' = [reg EXCEPT ![p] = prev_pid + 1]
    /\ pc' = [pc EXCEPT ![p] = "fork_pid"]
    /\ UNCHANGED <<ring, active, status, pid, prev_pid, kid, gnc, masked, halted, cut, crowded>>

(* Variant: _prev_pid is not stored back. *)
M_ForkPid_not_stored(p) ==
    /\ Executes(p) /\ pc[p] = "fork_pid"
    /\ \E c \in Procs :
          /\ status[c] = "none" /\ \A d \in 1..(c - 1) : status[d] # "none"
          /\ pid' = [pid EXCEPT ![c] = reg[p]]
          /\ status' = [status EXCEPT ![c] = "RUNNING"]
          /\ kid' = [kid EXCEPT ![p] = c]
    /\ pc' = [pc EXCEPT ![p] = "fork_run"]
    /\ UNCHANGED <<ring, active, prev_pid, reg, gnc, masked, halted, cut, crowded>>

(* ... and stores the number after it to _prev_pid and to the pcb. *)
ForkPid(p) ==
    /\ Executes(p) /\ pc[p] = "fork_pid"
    /\ \E c \in Procs :
          /\ status[c] = "none" /\ \A d \in 1..(c - 1) : status[d] # "none"
          /\ pid' = [pid EXCEPT ![c] = reg[p]]
          /\ status' = [status EXCEPT ![c] = "RUNNING"]
          /\ kid' = [kid EXCEPT ![p] = c]
    /\ prev_pid' = reg[p]
    /\ pc' = [pc EXCEPT ![p] = "fork_run"]
    /\ UNCHANGED <<ring, active, reg, gnc, masked, halted, cut, crowded>>

(* process_run, enqueue_process: the tail is loaded, the slot is stored to,  *)
(* the tail is stored back.                                                  *)
ForkRun(p) ==
    /\ Executes(p) /\ pc[p] = "fork_run"
    /\ reg' = [reg EXCEPT ![p] = tail]
    /\ pc' = [pc EXCEPT ![p] = "fork_store"]
    /\ UNCHANGED <<ring, active, status, pid, prev_pid, kid, gnc, masked, halted, cut, crowded>>

ForkStore(p) ==
    /\ Executes(p) /\ pc[p] = "fork_store"
    /\ list' = [list EXCEPT ![reg[p]] = kid[p]]
    /\ pc' = [pc EXCEPT ![p] = "fork_tail"]
    /\ UNCHANGED <<head, tail, active, status, pid, prev_pid, reg, kid, gnc, masked, halted, cut, crowded>>

ForkTail(p) ==
    /\ Executes(p) /\ pc[p] = "fork_tail"
    /\ tail' = (reg[p] + 1) % SIZE
    /\ pc' = [pc EXCEPT ![p] = "user"]
    /\ kid' = [kid EXCEPT ![p] = NULL]
    /\ crowded' = (crowded \/ Length + 2 > SIZE)   \* with the child and the active one
    /\ UNCHANGED <<list, head, active, status, pid, prev_pid, reg, gnc, masked, halted, cut>>
-----------------------------------------------------------------------------
(* get_next_context, statement by statement.  Nobody else can change the     *)
(* tail meanwhile, so its register is left out.                              *)
EnqStore ==
    /\ gnc = "enq" /\ ~halted
    /\ IF status[active] = "FINISHED"
       THEN gnc' = "take" /\ UNCHANGED list
       ELSE gnc' = "enq_tail" /\ list' = [list EXCEPT ![tail] = active]
    /\ UNCHANGED <<head, tail, active, procVars, masked, halted, cut, crowded>>

(* Variant: the last slot is never used. *)
M_EnqTail_short ==
    /\ gnc = "enq_tail" /\ ~halted
    /\ tail' = (tail + 1) % (SIZE - 1)
    /\ gnc' = "take"
    /\ UNCHANGED <<list, head, active, procVars, masked, halted, cut, crowded>>

EnqTail ==
    /\ gnc = "enq_tail" /\ ~halted
    /\ tail' = (tail + 1) % SIZE
    /\ gnc' = "take"
    /\ UNCHANGED <<list, head, active, procVars, masked, halted, cut, crowded>>

(* The head is taken off.  If it cannot run, get_next_context calls itself,   *)
(* otherwise schedule() switches to its stack, and with it to its IF.        *)
Take ==
    /\ gnc = "take" /\ ~halted
    /\ head' = (head + 1) % SIZE
    /\ LET res == list[head]
       IN  IF res = NULL
           THEN halted' = TRUE /\ UNCHANGED <<active, gnc, masked>>
           ELSE /\ active' = res
                /\ gnc' = IF status[res] = "RUNNING" THEN "none" ELSE "enq"
                /\ masked' = (masked /\ status[res] # "RUNNING")
                /\ UNCHANGED halted
    /\ UNCHANGED <<list, tail, procVars, cut, crowded>>
-----------------------------------------------------------------------------
(* Variant: the loop stops before the last entry. *)
M_notify_short ==
    /\ ~masked /\ ~halted
    /\ LET reached == {Entry(i) : i \in 0..(Length - 2)}
       IN  status' = [p \in Procs |->
              IF p \in reached /\ status[p] = "WAITING" THEN "RUNNING" ELSE status[p]]
    /\ UNCHANGED <<ring, active, pid, prev_pid, pc, reg, kid, gnc, masked, halted, cut, crowded>>

(* The notify loop of an interrupt: whoever is seen in the ring is woken. *)
notify_stdin ==
    /\ ~masked /\ ~halted
    /\ status' = [p \in Procs |->
          IF p \in Seen /\ status[p] = "WAITING" THEN "RUNNING" ELSE status[p]]
    /\ UNCHANGED <<ring, active, pid, prev_pid, pc, reg, kid, gnc, masked, halted, cut, crowded>>

(* What is being done when a slice ends. *)
PlaceOf(p) == CASE pc[p] = "fork_pid" -> {"pid"}
                [] pc[p] \in {"fork_store", "fork_tail"} -> {"enqueue"}
                [] OTHER -> {}

(* The tick that ends the slice: schedule() inside the handler. *)
preempt ==
    /\ gnc = "none" /\ ~halted
    /\ gnc' = "enq" /\ masked' = TRUE
    /\ cut' = cut \cup PlaceOf(active)
    /\ UNCHANGED <<ring, active, procVars, halted, crowded>>

(* The same inside get_next_context: two switches on one stack (see          *)
(* NestedSchedule of Scheduler), after which nothing is claimed.             *)
NestedSchedule ==
    /\ gnc # "none" /\ ~masked /\ ~halted
    /\ halted' = TRUE
    /\ UNCHANGED <<ring, active, procVars, gnc, masked, cut, crowded>>

Halted == halted /\ UNCHANGED vars

Next ==
    \/ \E p \in Procs :
          \/ Yield(p) \/ Leave(p, "WAITING") \/ Leave(p, "FINISHED")
          \/ ForkLoad(p) \/ ForkPid(p) \/ ForkRun(p) \/ ForkStore(p) \/ ForkTail(p)
          \/ \E n \in Killable : Kill(p, n)
    \/ EnqStore \/ EnqTail \/ Take
    \/ notify_stdin \/ preempt \/ NestedSchedule \/ Halted

Spec == Init /\ [][Next]_vars
-----------------------------------------------------------------------------
(* A ring that has just been filled to its last slot has head = tail, like an *)
(* empty one; only get_next_context, which takes one off next, tells them    *)
(* apart.                                                                    *)
FullTurn == gnc = "take" /\ head = tail
Entries == IF FullTurn THEN SIZE ELSE Length

(* How often p is in the ring or holds the CPU. *)
Places(p) ==
    Cardinality({i \in 0..(Entries - 1) : Entry(i) = p})
    + (IF active = p /\ gnc # "take" THEN 1 ELSE 0)

BeingMade(p) == \E q \in Procs : kid[q] = p

(* RingKeepsEveryone: as long as no slice ended between the load and the      *)
(* store of the tail in process_run, and there were never more processes than *)
(* slots, the wrapped indices lose nobody and double nobody, also in the     *)
(* turn in which the ring is completely full.                                *)
RingKeepsEveryone ==
    ("enqueue" \notin cut /\ ~crowded /\ ~halted) =>
        \A p \in Live : BeingMade(p) \/ Places(p) = 1

(* NotifyMissesOnlyTheActive: under the same conditions an interrupt's loop   *)
(* from head to tail reaches everybody that waits, except the process that   *)
(* get_next_context is carrying, and except in the full turn, in which it     *)
(* sees nobody.                                                              *)
NotifyMissesOnlyTheActive ==
    [][("enqueue" \notin cut /\ ~crowded /\ notify_stdin) =>
          \A p \in Procs : status'[p] = "WAITING" => p = active \/ FullTurn]_vars

(* PidsDistinct: two living processes have the same pid only if a slice ended *)
(* between the load and the store of _prev_pid.                              *)
PidsDistinct ==
    "pid" \notin cut =>
        \A p, q \in Live : p # q => pid[p] # pid[q]
=============================================================================
