------------------------- MODULE SchedulerLiveness -------------------------
(***************************************************************************)
(* What the scheduler must eventually do.  The fairness is that of one CPU   *)
(* that keeps executing, of a timer that keeps ticking and of programs that  *)
(* keep giving up the CPU; the escapes in the properties are the states the  *)
(* code cannot leave.                                                        *)
(***************************************************************************)
EXTENDS Scheduler

(* A session in which nobody is killed, since without the idle process        *)
(* get_next_context can recurse forever, and nothing is typed, to keep the    *)
(* graph small enough: readers block for good.                               *)
QuietNext ==
    \/ \E p \in Pids : UserStep(p) \/ QuietStep(p) \/ Spin(p) \/ Preempt(p)
    \/ get_next_context \/ Tick \/ NestedSchedule \/ Halted

(* The system calls after which the caller always reaches schedule(). *)
GivesUp(p) ==
    \/ DoYield(p) \/ DoExit(p)
    \/ \E t \in Awaited : DoWaitpid(p, t)
    \/ \E n \in SleepTicks : DoAlarm(p, n)

(* A tick outside get_next_context. *)
RunTick == phase = "run" /\ (Tick \/ \E p \in Pids : Preempt(p))

(* The CPU does not stop inside the kernel (weak fairness).  A program that  *)
(* gets the CPU again and again gives it up again and again (strong: it may   *)
(* make other calls in between).  A timer interrupt stays latched in the PIC  *)
(* until interrupts are on, so it is delivered if they are on again and       *)
(* again, and ticks do not always find the CPU inside get_next_context.       *)
Fairness ==
    /\ WF_vars(\E p \in Pids : QuietStep(p))
    /\ WF_vars(get_next_context)
    /\ \A p \in Pids : SF_vars(GivesUp(p))
    /\ SF_vars(RunTick)
    /\ SF_vars(RunTick /\ AlarmTick)

LiveSpec == Init /\ [][QuietNext]_vars /\ Fairness

(* The kernel halted, or spins in a bad system call with the timer in        *)
(* service so that no preemption can come.                                   *)
Hung == halted \/ (phase = "run" /\ pc[active] = "spin" /\ irq0)

(* The timer is in service and everybody who would acknowledge it is blocked *)
(* or dead: no tick comes any more unless one of them is woken otherwise.    *)
TimerLost == irq0 /\ \A p \in Pids : tmr[p] => status[p] \notin Runnable
-----------------------------------------------------------------------------
(* RunnableRuns: a queued process that can run gets the CPU, however the     *)
(* others fork, wait, sleep, exit or are preempted.                          *)
RunnableRuns ==
    \A p \in Pids :
        (p \in Queued /\ status[p] \in Runnable)
            ~> ((phase = "run" /\ active = p) \/ status[p] = "FINISHED" \/ Hung)

(* SleeperWakes: a process blocked in do_alarm is woken, also when its       *)
(* deadline passed before it was queued, as long as the timer is alive.      *)
SleeperWakes ==
    \A p \in Pids :
        (status[p] = "WAITING" /\ waiting_on_clock[p] # NoAlarm)
            ~> (status[p] # "WAITING" \/ Hung \/ TimerLost)
=============================================================================
