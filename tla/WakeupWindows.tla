--------------------------- MODULE WakeupWindows ---------------------------
(***************************************************************************)
(* Which wakeups the scheduler loses.  do_read and do_waitpid test, mark     *)
(* themselves WAITING and are queued in separate steps, and the notify loops *)
(* only see processes that are WAITING and queued at that moment.  Two       *)
(* history variables record the moments at which a wakeup can be missed; the *)
(* properties say that a process left waiting for something that has already *)
(* happened went through one of them, so the windows named here are all the  *)
(* windows there are.  A third one records two readers past the same test.   *)
(***************************************************************************)
EXTENDS Scheduler

VARIABLES
    missed_line,  \* a line was completed while the reader could not be notified
    missed_exit,  \* the awaited process died while the caller could not be notified
    two_readers   \* two readers were between buffer_is_ready and copy_input at once,
                  \* and their effect on input_count is not made up for yet

windowVars == <<vars, missed_line, missed_exit, two_readers>>

(* The moments a line goes unnoticed: after the test of buffer_is_ready and   *)
(* before both stores, or with the stores done but the reader not in the      *)
(* queue (before its schedule(), or while it passes through _active_pcb in    *)
(* get_next_context).                                                        *)
ReadWindow(p) ==
    \/ pc[p] \in {"read_block", "read_flag"}
    \/ waiting_on_stdin[p] /\ p \notin Queued

(* The process whose death notify_exit_pid is announcing in this step. *)
Announced(t) ==
    \/ pc[t] = "exit_notify" /\ pc'[t] = "exit_sched"
    \/ \E k \in Pids : pc[k] = "kill_notify" /\ pc'[k] = "ret" /\ arg[k] = t

(* Nobody announces it any more: the slice of the dying process ends between  *)
(* status = FINISHED and notify_exit_pid, and a finished process never gets  *)
(* another one; or a process is killed between its kill_pid and the           *)
(* announcement of the death it caused.                                      *)
Silenced(t) ==
    \/ pc[t] = "exit_notify" /\ active = t /\ phase = "run" /\ phase' = "switch"
    \/ \E k \in Pids : /\ pc[k] = "kill_notify" /\ arg[k] = t
                       /\ status[k] # "FINISHED" /\ status'[k] = "FINISHED"

(* do_waitpid entered for a process that is dead already (nothing records an *)
(* exit nobody waited for), the announcement between its two stores, or a     *)
(* death that goes unannounced.                                              *)
Awaiting == {"wait_block", "wait_sched", "wait_done"}
ExitMissed(p) ==
    \/ pc[p] = "user" /\ pc'[p] = "wait_block" /\ status[arg'[p]] = "FINISHED"
    \/ pc[p] = "wait_block" /\ pc'[p] = "wait_block" /\ Announced(arg[p])
    \/ pc[p] \in Awaiting /\ Silenced(arg[p])

WindowInit ==
    /\ Init
    /\ missed_line = [p \in Pids |-> FALSE]
    /\ missed_exit = [p \in Pids |-> FALSE]
    /\ two_readers = FALSE

WindowNext ==
    /\ Next
    /\ missed_line' = [p \in Pids |->
           IF input_count' > input_count /\ ReadWindow(p) THEN TRUE
           ELSE pc'[p] \in {"read_block", "read_flag", "read_sched", "read_test"}
                /\ missed_line[p]
                /\ ~(pc[p] = "read_test" /\ pc'[p] = "read_block")]
    /\ missed_exit' = [p \in Pids |->
           ExitMissed(p) \/ (pc'[p] # "user" /\ missed_exit[p])]
    /\ LET Copying == {p \in Pids : pc'[p] = "read_copy"}
       IN  two_readers' = \/ \E p, q \in Copying : p # q
                          \/ two_readers /\ (Copying # {} \/ input_count' < 0)

WindowSpec == WindowInit /\ [][WindowNext]_windowVars
-----------------------------------------------------------------------------
(* ReaderStrandedOnlyByWindow: a reader blocked in do_read while a complete   *)
(* line is in the buffer missed that line in one of the windows.             *)
ReaderStrandedOnlyByWindow ==
    \A p \in Pids :
        (/\ status[p] = "WAITING"
         /\ pc[p] \in {"read_flag", "read_sched", "read_test"}
         /\ input_count > 0)
        => missed_line[p]

(* The notification of t's death is still to come: from t's own do_exit, as   *)
(* long as its slice lasts, or from the do_kill of a process that lives.     *)
Announcing(t) ==
    \/ pc[t] = "exit_notify" /\ active = t /\ phase = "run"
    \/ \E k \in Pids : pc[k] = "kill_notify" /\ arg[k] = t /\ status[k] # "FINISHED"

(* WaiterStrandedOnlyByWindow: a process blocked in do_waitpid for a dead     *)
(* process, with no announcement left to come, missed it in one of the        *)
(* windows.                                                                  *)
WaiterStrandedOnlyByWindow ==
    \A p \in Pids :
        (/\ status[p] = "WAITING"
         /\ pc[p] \in {"wait_sched", "wait_done"}
         /\ status[arg[p]] = "FINISHED"
         /\ ~Announcing(arg[p]))
        => missed_exit[p]

(* LinesNotOverdrawn: buffer_is_ready promises a reader the line that         *)
(* copy_input takes; input_count only falls below the lines that were typed   *)
(* (and the next line is lost) after two readers passed one test together.    *)
LinesNotOverdrawn == input_count < 0 => two_readers
=============================================================================
