----------------------------- MODULE Scheduler -----------------------------
(***************************************************************************)
(* The process scheduler of SBUnix: the run queue and context switch of     *)
(* sys/process_helpers.c, the system calls of sys/systemcall.c that block,  *)
(* wake, create or destroy processes, and the timer and keyboard            *)
(* interrupts that cut into them (include/sys/idt.h, sys/idt.s,             *)
(* sys/timer_helpers.c).                                                    *)
(*                                                                         *)
(* There is one CPU.  An interrupt handler enters with interrupts off, but  *)
(* syscall_interrupt_handler does "sti" before it calls into C, so every    *)
(* system call can be cut by a timer tick.  Each system call is therefore   *)
(* split at the points where a tick between two of its stores to shared     *)
(* scheduler state can be observed; pc[p] is where p is in it.              *)
(*                                                                         *)
(* The ring of PROCESS_QUEUE_SIZE pcb pointers is the sequence processq,    *)
(* which is what it stores as long as it does not overflow (MaxPid is       *)
(* assumed below the ring's capacity).                                      *)
(***************************************************************************)
EXTENDS Integers, Sequences

CONSTANTS
    MaxPid,             \* bound: the last pid _get_new_pcb may hand out
    PROCESS_QUEUE_SIZE, \* slots of the ring in pcb_list
    TIME_SLICE_LIMIT,   \* ticks a process may use before preempt() switches
    ALARM_TICK_DIVIDE,  \* notify_alarm runs on one tick out of this many
    SleepTicks,         \* bound: the tick counts do_alarm may be asked for
    MaxLines,           \* bound: lines waiting in the stdin buffer
    Awaited,            \* the pids a program may pass to waitpid
    Killable            \* the pids a program may pass to kill

ASSUME PidAssumption == MaxPid \in Nat /\ 2 <= MaxPid /\ MaxPid < PROCESS_QUEUE_SIZE
ASSUME QueueAssumption == PROCESS_QUEUE_SIZE \in Nat
ASSUME TickAssumption == /\ TIME_SLICE_LIMIT \in Nat
                         /\ ALARM_TICK_DIVIDE \in Nat /\ 2 <= ALARM_TICK_DIVIDE
                         /\ SleepTicks \subseteq Nat
ASSUME LineAssumption == MaxLines \in Nat
ASSUME TargetAssumption == Awaited \subseteq 1..MaxPid /\ Killable \subseteq 1..MaxPid

Pids == 1..MaxPid
Idle == 1       \* sys_idle, the first pcb init() makes
Shell == 2      \* the pcb of /bin/sbush, the second one

NoPid == 0      \* waiting_on_pid of a process that waits for nobody
NoAlarm == -1   \* waiting_on_clock = 0: no alarm is pending

(* enum process_status, and NONE for a pid that was not handed out yet *)
Statuses == {"NONE", "READY", "RUNNING", "WAITING", "FINISHED"}
Runnable == {"READY", "RUNNING"}

(* The places of the kernel a process can be at when another one runs.  A    *)
(* pc ending in "_sched" is the call of schedule() in that system call.      *)
Blocked == {"read_sched", "wait_sched", "alarm_sched", "exec_sched",
            "exec_stray", "exit_sched", "yield", "idle"}
PCs == Blocked \cup
       {"user", "ret", "read_test", "read_block", "read_flag", "read_copy",
        "wait_block", "wait_done", "alarm_block", "fork_run", "exec_plant",
        "kt_ready", "kt_prepare", "kt_check", "fault", "exit_notify",
        "kill_notify", "spin", "dead"}

VARIABLES
    processq,         \* pids in the run queue, head first
    active,           \* _active_pcb
    phase,            \* "run": active executes; "switch": inside get_next_context
    prev_pid,         \* _prev_pid
    status,           \* pcb.status
    waiting_on_stdin, \* pcb.waiting_on_stdin
    waiting_on_pid,   \* pcb.waiting_on_pid
    waiting_on_clock, \* pcb.waiting_on_clock - ticks, 0 once it is due
    pc,               \* where the process is in the kernel, or "user"
    arg,              \* the pid a wait, kill or fork in progress is about
    fresh,            \* pcb.kernel_sp is still the one do_fork computed
    tmr,              \* the process was switched out inside int_tmr_srv
    user_ie,          \* IF in the RFLAGS its user mode runs with
    ie,               \* the CPU's interrupt flag
    irq0,             \* the timer interrupt is in service: no EOI sent yet
    time_slice,       \* ticks used by the running process
    alarm_ticks,      \* ticks % ALARM_TICK_DIVIDE
    input_count,      \* complete lines in the stdin buffer
    halted            \* the kernel spins with interrupts off, or its stacks
                      \* are corrupt: nothing more is said about it

queueVars == <<processq, active, phase, prev_pid>>
pcbVars == <<status, waiting_on_stdin, waiting_on_pid, waiting_on_clock>>
flowVars == <<pc, arg, fresh, tmr, user_ie>>
irqVars == <<ie, irq0, time_slice, alarm_ticks>>
vars == <<queueVars, pcbVars, flowVars, irqVars, input_count, halted>>
-----------------------------------------------------------------------------
(* init() after process_init() and "sti": the idle process runs, the shell   *)
(* is queued and will enter k_thread_kernel.                                 *)
Init ==
    /\ processq = <<Shell>>
    /\ active = Idle
    /\ phase = "run"
    /\ prev_pid = Shell
    /\ status = [p \in Pids |-> CASE p = Idle -> "RUNNING"
                                  [] p = Shell -> "READY"
                                  [] OTHER -> "NONE"]
    /\ waiting_on_stdin = [p \in Pids |-> FALSE]
    /\ waiting_on_pid = [p \in Pids |-> NoPid]
    /\ waiting_on_clock = [p \in Pids |-> NoAlarm]
    /\ pc = [p \in Pids |-> CASE p = Idle -> "idle"
                              [] p = Shell -> "kt_ready"
                              [] OTHER -> "dead"]
    /\ arg = [p \in Pids |-> NoPid]
    /\ fresh = [p \in Pids |-> FALSE]
    /\ tmr = [p \in Pids |-> FALSE]
    /\ user_ie = [p \in Pids |-> TRUE]
    /\ ie = TRUE
    /\ irq0 = FALSE
    /\ time_slice = 0
    /\ alarm_ticks = 0
    /\ input_count = 0
    /\ halted = FALSE
-----------------------------------------------------------------------------
(* Helpers over the run queue. *)

Elems(q) == {q[i] : i \in DOMAIN q}
NoDuplicates(q) == \A i, j \in DOMAIN q : q[i] = q[j] => i = j

(* The processes the loops "ptr = head; ptr != tail" visit. *)
Queued == Elems(processq)

(* Variants (below and in the rest of the module, named M_...) are plausible   *)
(* mistakes in the definition they stand before.  No specification uses them: *)
(* they show that the properties can fail.                                   *)

(* Variant: the queue is a stack. *)
M_enqueue_front(q, p) == IF status[p] = "FINISHED" THEN q ELSE <<p>> \o q

(* enqueue_process: a FINISHED process is not queued again. *)
enqueue_process(q, p) == IF status[p] = "FINISHED" THEN q ELSE Append(q, p)

(* Variant: the notify loops do not look at the status. *)
M_WokenAnyStatus(S) == Queued \cap S

(* What notify_stdin, notify_exit_pid and notify_alarm have in common: the    *)
(* queued WAITING processes in S become RUNNING.                             *)
Woken(S) == {p \in Queued \cap S : status[p] = "WAITING"}
Wake(st, S) == [p \in Pids |-> IF p \in S THEN "RUNNING" ELSE st[p]]
Cleared(f, S, none) == [p \in Pids |-> IF p \in S THEN none ELSE f[p]]

(* Variant: whoever waits for a process is woken by any exit. *)
M_WaitingForAnyone(t) == {p \in Pids : waiting_on_pid[p] # NoPid}

WaitingFor(t) == {p \in Pids : waiting_on_pid[p] = t}
notify_exit_pid(t) ==
    /\ status' = Wake(status, Woken(WaitingFor(t)))
    /\ waiting_on_pid' = Cleared(waiting_on_pid, Woken(WaitingFor(t)), NoPid)

(* The process whose code the CPU executes, outside any timer frame. *)
Executes(p) == ~halted /\ phase = "run" /\ active = p /\ ~tmr[p]
At(p, l) == Executes(p) /\ pc[p] = l

Goto(p, l) == pc' = [pc EXCEPT ![p] = l]
SetStatus(p, s) == status' = [status EXCEPT ![p] = s]

(* "int 0x80": syscall_interrupt_handler enables interrupts on its way in. *)
Enter(p, l) == At(p, "user") /\ Goto(p, l) /\ ie' = TRUE
-----------------------------------------------------------------------------
(* The end of a system call: iretq brings back the RFLAGS of user mode.      *)
(* "wait_done" is do_waitpid after its schedule() returned.                  *)
Return(p) ==
    /\ \E l \in {"ret", "wait_done"} : At(p, l)
    /\ Goto(p, "user")
    /\ arg' = [arg EXCEPT ![p] = NoPid]
    /\ ie' = user_ie[p]
    /\ UNCHANGED <<queueVars, pcbVars, fresh, tmr, user_ie, irq0, time_slice,
                   alarm_ticks, input_count, halted>>

(* A system call that touches neither the queue nor a status: brk, getcwd,   *)
(* write, chdir, open, getdents, close, getps, read of a file, an execve      *)
(* whose file does not exist.                                                *)
OtherSyscall(p) ==
    /\ Enter(p, "ret")
    /\ UNCHANGED <<queueVars, pcbVars, arg, fresh, tmr, user_ie, irq0,
                   time_slice, alarm_ticks, input_count, halted>>

(* An unknown system call, or open with another mode: while(1) in the        *)
(* kernel, with interrupts on.                                               *)
BadSyscall(p) ==
    /\ Enter(p, "spin")
    /\ UNCHANGED <<queueVars, pcbVars, arg, fresh, tmr, user_ie, irq0,
                   time_slice, alarm_ticks, input_count, halted>>

(* The while(1) itself, the process only leaves the CPU if it is preempted. *)
Spin(p) == At(p, "spin") /\ UNCHANGED vars

(* A fault the kernel answers with while(1) inside an interrupt gate, with    *)
(* interrupts off: a user access to address 0, or a protection fault.        *)
Fault(p) ==
    /\ At(p, "user")
    /\ halted' = TRUE
    /\ UNCHANGED <<queueVars, pcbVars, flowVars, irqVars, input_count>>
-----------------------------------------------------------------------------
(* do_read on the terminal: while(!buffer_is_ready()) { status; flag;         *)
(* schedule(); } copy_input().                                               *)
DoRead(p) ==
    /\ Enter(p, "read_test")
    /\ UNCHANGED <<queueVars, pcbVars, arg, fresh, tmr, user_ie, irq0,
                   time_slice, alarm_ticks, input_count, halted>>

(* Variant: buffer_is_ready is off by one. *)
M_ReadTest_early(p) ==
    /\ At(p, "read_test")
    /\ Goto(p, IF input_count >= 0 THEN "read_copy" ELSE "read_block")
    /\ UNCHANGED <<queueVars, pcbVars, arg, fresh, tmr, user_ie, irqVars,
                   input_count, halted>>

ReadTest(p) ==
    /\ At(p, "read_test")
    /\ Goto(p, IF input_count > 0 THEN "read_copy" ELSE "read_block")
    /\ UNCHANGED <<queueVars, pcbVars, arg, fresh, tmr, user_ie, irqVars,
                   input_count, halted>>

ReadBlock(p) ==
    /\ At(p, "read_block")
    /\ SetStatus(p, "WAITING")
    /\ Goto(p, "read_flag")
    /\ UNCHANGED <<queueVars, waiting_on_stdin, waiting_on_pid,
                   waiting_on_clock, arg, fresh, tmr, user_ie, irqVars,
                   input_count, halted>>

ReadFlag(p) ==
    /\ At(p, "read_flag")
    /\ waiting_on_stdin' = [waiting_on_stdin EXCEPT ![p] = TRUE]
    /\ Goto(p, "read_sched")
    /\ UNCHANGED <<queueVars, status, waiting_on_pid, waiting_on_clock, arg,
                   fresh, tmr, user_ie, irqVars, input_count, halted>>

(* copy_input takes a whole line, or only its first characters when the      *)
(* caller's buffer is shorter than the line (the line then still counts).    *)
(* Nothing checks again that there is a line.                                *)
ReadCopy(p) ==
    /\ At(p, "read_copy")
    /\ input_count' \in {input_count - 1, input_count}
    /\ Goto(p, "ret")
    /\ UNCHANGED <<queueVars, pcbVars, arg, fresh, tmr, user_ie, irqVars,
                   halted>>
-----------------------------------------------------------------------------
(* do_waitpid: waiting_on_pid is stored before status. *)
DoWaitpid(p, t) ==
    /\ Enter(p, "wait_block")
    /\ arg' = [arg EXCEPT ![p] = t]
    /\ waiting_on_pid' = [waiting_on_pid EXCEPT ![p] = t]
    /\ UNCHANGED <<queueVars, status, waiting_on_stdin, waiting_on_clock,
                   fresh, tmr, user_ie, irq0, time_slice, alarm_ticks,
                   input_count, halted>>

WaitBlock(p) ==
    /\ At(p, "wait_block")
    /\ SetStatus(p, "WAITING")
    /\ Goto(p, "wait_sched")
    /\ UNCHANGED <<queueVars, waiting_on_stdin, waiting_on_pid,
                   waiting_on_clock, arg, fresh, tmr, user_ie, irqVars,
                   input_count, halted>>

(* do_alarm: the deadline is stored before status. *)
DoAlarm(p, n) ==
    /\ Enter(p, "alarm_block")
    /\ waiting_on_clock' = [waiting_on_clock EXCEPT ![p] = n]
    /\ UNCHANGED <<queueVars, status, waiting_on_stdin, waiting_on_pid, arg,
                   fresh, tmr, user_ie, irq0, time_slice, alarm_ticks,
                   input_count, halted>>

AlarmBlock(p) ==
    /\ At(p, "alarm_block")
    /\ SetStatus(p, "WAITING")
    /\ Goto(p, "alarm_sched")
    /\ UNCHANGED <<queueVars, waiting_on_stdin, waiting_on_pid,
                   waiting_on_clock, arg, fresh, tmr, user_ie, irqVars,
                   input_count, halted>>

DoYield(p) ==
    /\ Enter(p, "yield")
    /\ UNCHANGED <<queueVars, pcbVars, arg, fresh, tmr, user_ie, irq0,
                   time_slice, alarm_ticks, input_count, halted>>
-----------------------------------------------------------------------------
(* do_fork up to process_run: get_forked_pcb takes the next pid, and the     *)
(* child's kernel stack is a copy that returns to user mode through          *)
(* fork_return_from_child.                                                   *)
DoFork(p) ==
    LET child == prev_pid + 1 IN
    /\ prev_pid < MaxPid
    /\ At(p, "user")
    /\ ie' = TRUE
    /\ prev_pid' = child
    /\ status' = [status EXCEPT ![child] = "RUNNING"]
    /\ pc' = [pc EXCEPT ![p] = "fork_run", ![child] = "ret"]
    /\ arg' = [arg EXCEPT ![p] = child]
    /\ fresh' = [fresh EXCEPT ![child] = TRUE]
    /\ user_ie' = [user_ie EXCEPT ![child] = user_ie[p]]
    /\ UNCHANGED <<processq, active, phase, waiting_on_stdin, waiting_on_pid,
                   waiting_on_clock, tmr, irq0, time_slice, alarm_ticks,
                   input_count, halted>>

(* process_run(child) and the return of the child's pid. *)
ForkRun(p) ==
    /\ At(p, "fork_run")
    /\ processq' = enqueue_process(processq, arg[p])
    /\ Goto(p, "ret")
    /\ UNCHANGED <<active, phase, prev_pid, pcbVars, arg, fresh, tmr, user_ie,
                   irqVars, input_count, halted>>
-----------------------------------------------------------------------------
(* do_execve of an existing file, up to the first store of process_exec. *)
DoExecve(p) ==
    /\ Enter(p, "exec_plant")
    /\ UNCHANGED <<queueVars, pcbVars, arg, fresh, tmr, user_ie, irq0,
                   time_slice, alarm_ticks, input_count, halted>>

(* process_exec writes the address of k_thread_kernel at the pcb's saved      *)
(* kernel_sp.  In a child that was never switched out since its fork that is *)
(* the slot of do_system_call's return address, and execve ends in           *)
(* k_thread_kernel ("exec_sched").  Otherwise the saved kernel_sp is the one  *)
(* of an older frame: what the slot holds now depends on the build and on     *)
(* where that switch happened ("exec_stray": execve returns -1 into the old   *)
(* program, or the stack is damaged).                                        *)
ExecPlant(p) ==
    /\ At(p, "exec_plant")
    /\ SetStatus(p, "READY")
    /\ \E l \in {"exec_sched", "exec_stray"} : (fresh[p] => l = "exec_sched") /\ Goto(p, l)
    /\ UNCHANGED <<queueVars, waiting_on_stdin, waiting_on_pid,
                   waiting_on_clock, arg, fresh, tmr, user_ie, irqVars,
                   input_count, halted>>

(* The return through a damaged frame ends in such a fault, too. *)
StrayReturn(p) ==
    /\ At(p, "fault")
    /\ halted' = TRUE
    /\ UNCHANGED <<queueVars, pcbVars, flowVars, irqVars, input_count>>

(* Variant: prepare_user_memory is left out. *)
M_KtReady_unprepared(p) ==
    /\ At(p, "kt_ready")
    /\ Goto(p, "kt_check")
    /\ UNCHANGED <<queueVars, pcbVars, arg, fresh, tmr, user_ie, irqVars,
                   input_count, halted>>

(* k_thread_kernel, which every new program starts in. *)
KtReady(p) ==
    /\ At(p, "kt_ready")
    /\ Goto(p, IF status[p] = "READY" THEN "kt_prepare" ELSE "kt_check")
    /\ UNCHANGED <<queueVars, pcbVars, arg, fresh, tmr, user_ie, irqVars,
                   input_count, halted>>

(* prepare_user_memory *)
KtPrepare(p) ==
    /\ At(p, "kt_prepare")
    /\ SetStatus(p, "RUNNING")
    /\ Goto(p, "kt_check")
    /\ UNCHANGED <<queueVars, waiting_on_stdin, waiting_on_pid,
                   waiting_on_clock, arg, fresh, tmr, user_ie, irqVars,
                   input_count, halted>>

(* _switch_to_ring_3 pushes the current RFLAGS for iretq: user mode inherits *)
(* the interrupt flag.  Any other status ends in the PANIC loop.             *)
Panics(p) == At(p, "kt_check") /\ status[p] # "RUNNING"
KtCheck(p) ==
    /\ At(p, "kt_check")
    /\ Goto(p, "user")
    /\ user_ie' = [user_ie EXCEPT ![p] = ie]
    /\ halted' = Panics(p)
    /\ UNCHANGED <<queueVars, pcbVars, arg, fresh, tmr, irqVars, input_count>>
-----------------------------------------------------------------------------
(* do_exit: FINISHED, then notify_exit_pid, then schedule(). *)
DoExit(p) ==
    /\ Enter(p, "exit_notify")
    /\ SetStatus(p, "FINISHED")
    /\ UNCHANGED <<queueVars, waiting_on_stdin, waiting_on_pid,
                   waiting_on_clock, arg, fresh, tmr, user_ie, irq0,
                   time_slice, alarm_ticks, input_count, halted>>

(* Variant: do_exit does not call notify_exit_pid. *)
M_ExitNotify_silent(p) ==
    /\ At(p, "exit_notify")
    /\ Goto(p, "exit_sched")
    /\ UNCHANGED <<queueVars, pcbVars, arg, fresh, tmr, user_ie, irqVars,
                   input_count, halted>>

ExitNotify(p) ==
    /\ At(p, "exit_notify")
    /\ notify_exit_pid(p)
    /\ Goto(p, "exit_sched")
    /\ UNCHANGED <<queueVars, waiting_on_stdin, waiting_on_clock, arg, fresh,
                   tmr, user_ie, irqVars, input_count, halted>>

(* do_kill: kill_pid finds the target in the queue only, so never the        *)
(* caller; notify_exit_pid is a separate loop after it.                      *)
DoKill(p, t) ==
    /\ Enter(p, IF t \in Queued THEN "kill_notify" ELSE "ret")
    /\ arg' = [arg EXCEPT ![p] = t]
    /\ status' = IF t \in Queued THEN [status EXCEPT ![t] = "FINISHED"] ELSE status
    /\ UNCHANGED <<queueVars, waiting_on_stdin, waiting_on_pid,
                   waiting_on_clock, fresh, tmr, user_ie, irq0, time_slice,
                   alarm_ticks, input_count, halted>>

KillNotify(p) ==
    /\ At(p, "kill_notify")
    /\ notify_exit_pid(arg[p])
    /\ Goto(p, "ret")
    /\ UNCHANGED <<queueVars, waiting_on_stdin, waiting_on_clock, arg, fresh,
                   tmr, user_ie, irqVars, input_count, halted>>
-----------------------------------------------------------------------------
(* schedule(): kernel_sp is saved and get_next_context entered.  The place   *)
(* the process resumes at is where its caller goes on.                       *)
AfterSchedule(l) ==
    CASE l = "read_sched" -> {"read_test"}
      [] l = "wait_sched" -> {"wait_done"}
      [] l = "exec_sched" -> {"kt_ready"}
      [] l = "exec_stray" -> {"ret", "fault"}
      [] l = "exit_sched" -> {"dead"}
      [] l = "idle" -> {"idle"}
      [] OTHER -> {"ret"}

schedule(p) ==
    /\ Executes(p)
    /\ pc[p] \in Blocked
    /\ \E l \in AfterSchedule(pc[p]) : Goto(p, l)
    /\ fresh' = [fresh EXCEPT ![p] = FALSE]
    /\ phase' = "switch"
    /\ UNCHANGED <<processq, active, prev_pid, pcbVars, arg, tmr, user_ie,
                   irqVars, input_count, halted>>

(* One level of the recursion of get_next_context: the active process goes   *)
(* to the tail, the head becomes _active_pcb; unless it can run there is     *)
(* another level.  With an empty ring the slot read is stale.                *)
get_next_context ==
    LET q == enqueue_process(processq, active) IN
    /\ ~halted
    /\ phase = "switch"
    /\ IF q = <<>>
       THEN /\ halted' = TRUE
            /\ UNCHANGED <<processq, active, phase, time_slice>>
       ELSE /\ processq' = Tail(q)
            /\ active' = Head(q)
            /\ phase' = IF status[Head(q)] \in Runnable THEN "run" ELSE "switch"
            /\ time_slice' = IF status[Head(q)] \in Runnable THEN 0 ELSE time_slice
            /\ UNCHANGED halted
    /\ UNCHANGED <<prev_pid, pcbVars, flowVars, ie, irq0, alarm_ticks,
                   input_count>>
-----------------------------------------------------------------------------
(* The timer interrupt, delivered when IF is set and no IRQ0 is in service.  *)
TimerArrives == ~halted /\ ie /\ ~irq0

(* tick_count: ticks++, and notify_alarm on one tick out of                  *)
(* ALARM_TICK_DIVIDE.                                                        *)
AlarmTick == (alarm_ticks + 1) % ALARM_TICK_DIVIDE = 1
Elapsed == [p \in Pids |-> IF waiting_on_clock[p] > 0 THEN waiting_on_clock[p] - 1
                           ELSE waiting_on_clock[p]]
(* Variant: an alarm is only noticed on the very tick it is due. *)
M_Due_on_time == IF AlarmTick THEN {p \in Pids : waiting_on_clock[p] = 1} ELSE {}

Due == IF AlarmTick THEN {p \in Pids : Elapsed[p] = 0} ELSE {}
tick_count ==
    /\ alarm_ticks' = (alarm_ticks + 1) % ALARM_TICK_DIVIDE
    /\ status' = Wake(status, Woken(Due))
    /\ waiting_on_clock' = Cleared(Elapsed, Woken(Due), NoAlarm)
    /\ UNCHANGED <<waiting_on_stdin, waiting_on_pid>>

(* A tick within the slice: int_tmr_srv returns to what it interrupted. *)
Tick ==
    /\ TimerArrives
    /\ time_slice < TIME_SLICE_LIMIT
    /\ tick_count
    /\ time_slice' = time_slice + 1
    /\ UNCHANGED <<queueVars, flowVars, ie, irq0, input_count, halted>>

(* preempt() past the slice: schedule() inside the handler, interrupts off   *)
(* and the EOI still to be sent.  A process that is only just leaving an     *)
(* earlier timer frame has a new slice and leaves it before that one ends.   *)
Preempt(p) ==
    /\ TimerArrives
    /\ Executes(p)
    /\ time_slice = TIME_SLICE_LIMIT
    /\ tick_count
    /\ time_slice' = 0
    /\ tmr' = [tmr EXCEPT ![p] = TRUE]
    /\ fresh' = [fresh EXCEPT ![p] = FALSE]
    /\ irq0' = TRUE
    /\ ie' = FALSE
    /\ phase' = "switch"
    /\ UNCHANGED <<processq, active, prev_pid, pc, arg, user_ie, input_count,
                   halted>>

(* The slice runs out inside get_next_context, which is not reentrant: the   *)
(* inner schedule() saves this stack in the pcb of a process it does not     *)
(* belong to, or queues the outgoing process a second time.                  *)
NestedSchedule ==
    /\ TimerArrives
    /\ phase = "switch"
    /\ time_slice = TIME_SLICE_LIMIT
    /\ halted' = TRUE
    /\ UNCHANGED <<queueVars, pcbVars, flowVars, irqVars, input_count>>

(* Variant: the EOI is forgotten. *)
M_TimerReturn_no_eoi(p) ==
    /\ ~halted /\ phase = "run" /\ active = p /\ tmr[p]
    /\ tmr' = [tmr EXCEPT ![p] = FALSE]
    /\ ie' = TRUE
    /\ UNCHANGED <<queueVars, pcbVars, pc, arg, fresh, user_ie, irq0,
                   time_slice, alarm_ticks, input_count, halted>>

(* The preempted process is back in int_tmr_srv: outb(0x20,0x20), sti, iretq *)
TimerReturn(p) ==
    /\ ~halted /\ phase = "run" /\ active = p /\ tmr[p]
    /\ tmr' = [tmr EXCEPT ![p] = FALSE]
    /\ irq0' = FALSE
    /\ ie' = TRUE
    /\ UNCHANGED <<queueVars, pcbVars, pc, arg, fresh, user_ie, time_slice,
                   alarm_ticks, input_count, halted>>

(* Variant: notify_stdin leaves waiting_on_stdin set. *)
M_Newline_flag_kept ==
    /\ TimerArrives
    /\ input_count < MaxLines
    /\ input_count' = input_count + 1
    /\ status' = Wake(status, Woken({p \in Pids : waiting_on_stdin[p]}))
    /\ UNCHANGED <<queueVars, waiting_on_stdin, waiting_on_pid,
                   waiting_on_clock, flowVars, irqVars, halted>>

(* Variant: notify_stdin is not called. *)
M_Newline_silent ==
    /\ TimerArrives
    /\ input_count < MaxLines
    /\ input_count' = input_count + 1
    /\ UNCHANGED <<queueVars, pcbVars, flowVars, irqVars, halted>>

(* The keyboard interrupt that completes a line: _add_char and notify_stdin. *)
(* IRQ0 has the higher priority, so it also waits for the timer's EOI.       *)
Newline ==
    /\ TimerArrives
    /\ input_count < MaxLines
    /\ input_count' = input_count + 1
    /\ status' = Wake(status, Woken({p \in Pids : waiting_on_stdin[p]}))
    /\ waiting_on_stdin' = Cleared(waiting_on_stdin,
                                   Woken({p \in Pids : waiting_on_stdin[p]}), FALSE)
    /\ UNCHANGED <<queueVars, waiting_on_pid, waiting_on_clock, flowVars,
                   irqVars, halted>>

(* Nothing happens any more. *)
Halted == halted /\ UNCHANGED vars
-----------------------------------------------------------------------------
(* What a user program decides to do next. *)
UserStep(p) ==
    \/ DoRead(p) \/ DoYield(p) \/ DoFork(p) \/ DoExecve(p) \/ DoExit(p)
    \/ OtherSyscall(p) \/ BadSyscall(p) \/ Fault(p)
    \/ \E t \in Awaited : DoWaitpid(p, t)
    \/ \E t \in Killable : DoKill(p, t)
    \/ \E n \in SleepTicks : DoAlarm(p, n)

(* What the kernel does for a process without asking anybody: when no line   *)
(* was typed and nobody was killed, and for those two.                       *)
QuietStep(p) ==
    \/ Return(p) \/ ReadTest(p) \/ ReadBlock(p) \/ ReadFlag(p)
    \/ WaitBlock(p) \/ AlarmBlock(p) \/ ForkRun(p)
    \/ ExecPlant(p) \/ StrayReturn(p) \/ KtReady(p) \/ KtPrepare(p) \/ KtCheck(p)
    \/ ExitNotify(p) \/ schedule(p) \/ TimerReturn(p)

KernelStep(p) == QuietStep(p) \/ ReadCopy(p) \/ KillNotify(p)

Interrupt == Tick \/ NestedSchedule \/ Newline \/ \E p \in Pids : Preempt(p)

Next ==
    \/ \E p \in Pids : UserStep(p) \/ KernelStep(p) \/ Spin(p)
    \/ get_next_context
    \/ Interrupt
    \/ Halted

Spec == Init /\ [][Next]_vars
-----------------------------------------------------------------------------
(* TypeOK: every variable has its type. *)
TypeOK ==
    /\ processq \in Seq(Pids)
    /\ active \in Pids
    /\ phase \in {"run", "switch"}
    /\ prev_pid \in Pids
    /\ status \in [Pids -> Statuses]
    /\ waiting_on_stdin \in [Pids -> BOOLEAN]
    /\ waiting_on_pid \in [Pids -> Pids \cup {NoPid}]
    /\ waiting_on_clock \in [Pids -> Int]
    /\ pc \in [Pids -> PCs]
    /\ arg \in [Pids -> Pids \cup {NoPid}]
    /\ fresh \in [Pids -> BOOLEAN]
    /\ tmr \in [Pids -> BOOLEAN]
    /\ user_ie \in [Pids -> BOOLEAN]
    /\ ie \in BOOLEAN
    /\ irq0 \in BOOLEAN
    /\ time_slice \in 0..TIME_SLICE_LIMIT
    /\ alarm_ticks \in 0..(ALARM_TICK_DIVIDE - 1)
    /\ input_count \in Int
    /\ halted \in BOOLEAN

(* A child that do_fork has made and not yet passed to process_run. *)
Embryo(c) == \E p \in Pids : pc[p] = "fork_run" /\ arg[p] = c

(* OnePlace: no process is ever queued twice or queued while it is the       *)
(* active one, and a process that has not finished is never lost: it is in   *)
(* the run queue, active, or a child do_fork is still building.              *)
OnePlace ==
    /\ NoDuplicates(processq)
    /\ active \notin Queued
    /\ \A p \in Pids : \/ status[p] \in {"NONE", "FINISHED"}
                       \/ p \in Queued
                       \/ p = active
                       \/ Embryo(p)

(* NoPanic: the check in k_thread_kernel that "should always be true" is     *)
(* true, whatever happened between exec and the first dispatch.              *)
NoPanic == \A p \in Pids : ~Panics(p)

(* WaitReturnsAfterExit: waitpid returns only once the process it was asked  *)
(* about has exited or was killed.                                           *)
WaitReturnsAfterExit ==
    \A p \in Pids : At(p, "wait_done") => status[arg[p]] = "FINISHED"

(* AckOwed: while the timer interrupt is in service, blocking every further  *)
(* tick and key, some process is still inside int_tmr_srv and will send the  *)
(* EOI when it is resumed.                                                   *)
AckOwed == irq0 => \E p \in Pids : tmr[p]

(* OnlyLiveRun: a process that is given the CPU is runnable, except for the  *)
(* stores of do_read, do_waitpid, do_alarm and do_exit between the change of  *)
(* their own status and their call of schedule().                            *)
OnlyLiveRun ==
    phase = "run" =>
        \/ status[active] \in Runnable
        \/ /\ status[active] = "WAITING"
           /\ pc[active] \in {"read_flag", "read_sched", "wait_sched", "alarm_sched"}
        \/ /\ status[active] = "FINISHED"
           /\ pc[active] \in {"exit_notify", "exit_sched"}

(* FinishedForever: neither a wakeup, a prepare_user_memory nor a blocking   *)
(* call that was in progress brings a killed or exited process back.         *)
FinishedForever ==
    [][\A p \in Pids : status[p] = "FINISHED" => status'[p] = "FINISHED"]_vars
-----------------------------------------------------------------------------
(* The inductive invariant behind these properties, part by part. *)

(* A pid above _prev_pid has no pcb yet, one up to it has. *)
PidsInOrder ==
    /\ active <= prev_pid
    /\ \A p \in Pids : status[p] = "NONE" <=> p > prev_pid
    /\ \A p \in Pids : status[p] = "NONE" => pc[p] = "dead"
    /\ \A p \in Queued : p <= prev_pid

(* A child in the making is known to its parent only, and waits untouched    *)
(* for process_run.                                                          *)
EmbryosApart ==
    \A p \in Pids : pc[p] = "fork_run" =>
        /\ arg[p] \in Pids
        /\ arg[p] \notin Queued
        /\ arg[p] # active
        /\ status[arg[p]] = "RUNNING"
        /\ pc[arg[p]] = "ret"
        /\ \A r \in Pids \ {p} : pc[r] = "fork_run" => arg[r] # arg[p]

(* What the place a process is at says about its status. *)
StatusAt(p) ==
    status[p] # "FINISHED" =>
        /\ pc[p] \in {"exec_sched", "kt_ready", "kt_prepare"} => status[p] = "READY"
        /\ pc[p] = "kt_check" => status[p] = "RUNNING"
        /\ pc[p] = "read_flag" => status[p] = "WAITING"
        /\ pc[p] \notin {"exit_notify", "exit_sched"}
        /\ pc[p] = "dead" => status[p] = "NONE"
        /\ status[p] = "WAITING" =>
              pc[p] \in {"read_flag", "read_sched", "read_test", "wait_sched",
                        "wait_done", "alarm_sched", "ret"}
StatusAtPlace == \A p \in Pids : StatusAt(p)

(* Each reason to wait is only set inside the system call it belongs to, and *)
(* once that call has blocked it is set only as long as the process waits:   *)
(* no wakeup meant for one call can end another.                             *)
Blocks(p) == status[p] \in {"WAITING", "FINISHED"}
ReasonAt(p) ==
    /\ waiting_on_stdin[p] => pc[p] \in {"read_sched", "read_test"} /\ Blocks(p)
    /\ waiting_on_clock[p] # NoAlarm =>
          \/ pc[p] = "alarm_block"
          \/ pc[p] \in {"alarm_sched", "ret"} /\ Blocks(p)
    /\ waiting_on_pid[p] # NoPid =>
          /\ waiting_on_pid[p] = arg[p]
          /\ \/ pc[p] = "wait_block"
             \/ pc[p] \in {"wait_sched", "wait_done"} /\ Blocks(p)
    /\ pc[p] \in {"wait_block", "wait_sched", "wait_done", "kill_notify"} =>
          arg[p] \in Pids
ReasonsAtPlace == \A p \in Pids : ReasonAt(p)

(* Who is woken from do_waitpid, and who is announced dead, is dead. *)
DeathAt(p) ==
    /\ (pc[p] \in {"wait_sched", "wait_done"} /\ status[p] \in Runnable)
          => status[arg[p]] = "FINISHED"
    /\ pc[p] = "kill_notify" => status[arg[p]] = "FINISHED"
DeathsAnnounced == \A p \in Pids : DeathAt(p)

(* SchedInv: the conjunction that every step of the scheduler preserves. *)
SchedInv ==
    /\ OnePlace
    /\ PidsInOrder
    /\ EmbryosApart
    /\ StatusAtPlace
    /\ ReasonsAtPlace
    /\ DeathsAnnounced
    /\ OnlyLiveRun
-----------------------------------------------------------------------------
(* Scheduler implements ProcessLifecycle: a process lives from                *)
(* get_forked_pcb until do_exit or do_kill mark it FINISHED, it has the CPU   *)
(* between get_next_context and schedule(), and awaits its target inside      *)
(* do_waitpid.                                                               *)
lifeOf == [p \in Pids |-> IF status[p] = "NONE" THEN "none"
                          ELSE IF status[p] = "FINISHED" THEN "dead" ELSE "alive"]
runningPid == IF phase = "run" /\ ~halted THEN active ELSE 0
awaitsOf == [p \in Pids |-> IF pc[p] \in {"wait_block", "wait_sched", "wait_done"}
                            THEN arg[p] ELSE 0]

Life == INSTANCE ProcessLifecycle
            WITH life <- lifeOf, running <- runningPid, awaits <- awaitsOf

(* ImplementsLifecycle: with that mapping every step of the kernel is a step *)
(* of ProcessLifecycle or leaves it unchanged.                               *)
ImplementsLifecycle == Life!LifeSpec
=============================================================================
