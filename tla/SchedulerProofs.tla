-------------------------- MODULE SchedulerProofs --------------------------
(***************************************************************************)
(* Proofs about modules Scheduler and WakeupWindows, for every value of the   *)
(* constants: the inductive invariant SchedInv, with one lemma per action,    *)
(* and from it the safety properties the runs check on small instances; that *)
(* Scheduler implements ProcessLifecycle; and that the windows named by       *)
(* WakeupWindows are the only ones in which a wakeup is missed.              *)
(***************************************************************************)
EXTENDS WakeupWindows, TLAPS

(* The pids in use are numbers from 1, so 0 is free to mean none. *)
LEMMA PidFacts ==
    /\ Idle \in Pids /\ Shell \in Pids /\ Idle # Shell
    /\ Pids \subseteq Nat /\ NoPid \notin Pids
  BY PidAssumption DEF Pids, Idle, Shell, NoPid

(* Only pids are queued. *)
LEMMA QueuedPids == TypeOK => Queued \subseteq Pids
  BY DEF TypeOK, Queued, Elems

(* Appending to a queue adds one element, at the end. *)
LEMMA AppendElems ==
    ASSUME NEW S, NEW q \in Seq(S), NEW x \in S
    PROVE  /\ Append(q, x) \in Seq(S)
           /\ Elems(Append(q, x)) = Elems(q) \cup {x}
           /\ (NoDuplicates(q) /\ x \notin Elems(q)) => NoDuplicates(Append(q, x))
           /\ Append(q, x) # << >>
  <1>1. /\ Append(q, x) \in Seq(S)
        /\ DOMAIN q = 1..Len(q) /\ Len(q) \in Nat
        /\ DOMAIN Append(q, x) = 1..(Len(q) + 1)
        /\ \A i \in 1..Len(q) : Append(q, x)[i] = q[i]
        /\ Append(q, x)[Len(q) + 1] = x
        /\ Append(q, x) # << >>
    OBVIOUS
  <1>2. Elems(Append(q, x)) \subseteq Elems(q) \cup {x}
    BY <1>1 DEF Elems
  <1>3. Elems(q) \cup {x} \subseteq Elems(Append(q, x))
    BY <1>1 DEF Elems
  <1>4. ASSUME NoDuplicates(q), x \notin Elems(q) PROVE NoDuplicates(Append(q, x))
    BY <1>1, <1>4 DEF Elems, NoDuplicates
  <1> QED BY <1>1, <1>2, <1>3, <1>4

(* Taking the head off a queue without duplicates removes exactly the head. *)
LEMMA TailElems ==
    ASSUME NEW S, NEW q \in Seq(S), q # << >>, NoDuplicates(q)
    PROVE  /\ Tail(q) \in Seq(S)
           /\ Head(q) \in S
           /\ Head(q) \in Elems(q)
           /\ Elems(Tail(q)) = Elems(q) \ {Head(q)}
           /\ NoDuplicates(Tail(q))
  <1>1. /\ Len(q) \in Nat \ {0}
        /\ DOMAIN q = 1..Len(q)
        /\ Tail(q) \in Seq(S)
        /\ DOMAIN Tail(q) = 1..(Len(q) - 1)
        /\ \A i \in 1..(Len(q) - 1) : Tail(q)[i] = q[i + 1]
        /\ Head(q) = q[1]
        /\ Head(q) \in S
    OBVIOUS
  <1>2. Head(q) \in Elems(q)
    BY <1>1 DEF Elems
  <1>3. \A x \in Elems(Tail(q)) : x \in Elems(q) /\ x # Head(q)
    BY <1>1 DEF Elems, NoDuplicates
  <1>4. ASSUME NEW x \in Elems(q), x # Head(q) PROVE x \in Elems(Tail(q))
    <2>1. PICK i \in 1..Len(q) : x = q[i]
      BY <1>1 DEF Elems
    <2>2. i # 1 /\ i - 1 \in 1..(Len(q) - 1)
      BY <2>1, <1>1, <1>4
    <2>3. Tail(q)[i - 1] = x
      BY <2>1, <2>2, <1>1
    <2> QED BY <2>2, <2>3, <1>1 DEF Elems
  <1>5. NoDuplicates(Tail(q))
    BY <1>1 DEF NoDuplicates
  <1> QED BY <1>1, <1>2, <1>3, <1>4, <1>5
-----------------------------------------------------------------------------
(* Steps that touch only the process that takes them. *)

(* A step of the running process p that changes nothing but its own pcb and   *)
(* its own place in the kernel.                                              *)
OwnOnly(p) ==
    /\ phase = "run" /\ active = p /\ UNCHANGED queueVars
    /\ pc[p] # "fork_run" /\ pc'[p] # "fork_run"
    /\ status'[p] # "NONE"
    /\ status[p] = "FINISHED" => status'[p] = "FINISHED"
    /\ \A q \in Pids \ {p} :
           /\ status'[q] = status[q] /\ pc'[q] = pc[q] /\ arg'[q] = arg[q]
           /\ waiting_on_stdin'[q] = waiting_on_stdin[q]
           /\ waiting_on_pid'[q] = waiting_on_pid[q]
           /\ waiting_on_clock'[q] = waiting_on_clock[q]

(* After such a step the invariant only has to be checked for that process:  *)
(* what it says about another one mentions this process only as a dead one,  *)
(* which it stays, or as a child in the making, which it is not.             *)
LEMMA OwnStep ==
    ASSUME TypeOK, TypeOK', SchedInv, NEW p \in Pids, OwnOnly(p),
           StatusAt(p)', ReasonAt(p)', DeathAt(p)', OnlyLiveRun'
    PROVE  SchedInv'
  <1> USE DEF queueVars
  <1>1. Queued' = Queued
    BY DEF Queued, OwnOnly
  <1>2. status[p] # "NONE"
    BY DEF SchedInv, OnlyLiveRun, Runnable, OwnOnly
  <1>3. OnePlace'
    <2>1. \A c \in Pids : Embryo(c) => Embryo(c)'
      BY DEF Embryo, OwnOnly
    <2> QED BY <1>1, <2>1 DEF SchedInv, OnePlace, OwnOnly
  <1>4. PidsInOrder'
    BY <1>1, <1>2 DEF SchedInv, PidsInOrder, OwnOnly
  <1>5. EmbryosApart'
    <2> SUFFICES ASSUME NEW q \in Pids, pc'[q] = "fork_run"
                 PROVE  /\ arg'[q] \in Pids
                        /\ arg'[q] \notin Queued'
                        /\ arg'[q] # active'
                        /\ status'[arg'[q]] = "RUNNING"
                        /\ pc'[arg'[q]] = "ret"
                        /\ \A r \in Pids \ {q} : pc'[r] = "fork_run" => arg'[r] # arg'[q]
      BY DEF EmbryosApart
    <2>1. q # p /\ pc[q] = "fork_run" /\ arg'[q] = arg[q]
      BY DEF OwnOnly
    <2>2. /\ arg[q] \in Pids /\ arg[q] \notin Queued /\ arg[q] # p
          /\ status[arg[q]] = "RUNNING" /\ pc[arg[q]] = "ret"
          /\ \A r \in Pids \ {q} : pc[r] = "fork_run" => arg[r] # arg[q]
      BY <2>1 DEF SchedInv, EmbryosApart, OwnOnly
    <2>3. \A r \in Pids \ {q} : pc'[r] = "fork_run" => pc[r] = "fork_run" /\ arg'[r] = arg[r]
      BY DEF OwnOnly
    <2> QED BY <1>1, <2>1, <2>2, <2>3 DEF OwnOnly
  <1>6. StatusAtPlace'
    <2> SUFFICES ASSUME NEW q \in Pids, q # p PROVE StatusAt(q)'
      BY DEF StatusAtPlace
    <2>1. StatusAt(q) /\ status'[q] = status[q] /\ pc'[q] = pc[q]
      BY DEF SchedInv, StatusAtPlace, OwnOnly
    <2> QED BY <2>1 DEF StatusAt
  <1>7. ReasonsAtPlace'
    <2> SUFFICES ASSUME NEW q \in Pids, q # p PROVE ReasonAt(q)'
      BY DEF ReasonsAtPlace
    <2>1. ReasonAt(q)
      BY DEF SchedInv, ReasonsAtPlace
    <2> QED BY <2>1 DEF ReasonAt, Blocks, OwnOnly
  <1>8. DeathsAnnounced'
    <2> SUFFICES ASSUME NEW q \in Pids, q # p PROVE DeathAt(q)'
      BY DEF DeathsAnnounced
    <2>1. DeathAt(q) /\ (pc[q] \in {"wait_sched", "wait_done", "kill_notify"} => arg[q] \in Pids)
      BY DEF SchedInv, DeathsAnnounced, ReasonsAtPlace, ReasonAt
    <2> QED BY <2>1 DEF DeathAt, OwnOnly
  <1> QED BY <1>3, <1>4, <1>5, <1>6, <1>7, <1>8 DEF SchedInv

(* The return to user mode ends the wait it was called for, so no reason to *)
(* wait is left behind.                                                     *)
LEMMA ReturnStep ==
    ASSUME TypeOK, SchedInv, NEW p \in Pids, Return(p)
    PROVE  TypeOK' /\ SchedInv'
  <1> USE DEF TypeOK, Return, At, Goto, queueVars, pcbVars, Executes
  <1>1. TypeOK'
    BY DEF PCs
  <1>2. StatusAt(p)' /\ ReasonAt(p)' /\ DeathAt(p)' /\ OnlyLiveRun'
    BY PidFacts
       DEF SchedInv, StatusAtPlace, StatusAt, ReasonsAtPlace, ReasonAt, Blocks,
           DeathsAnnounced, DeathAt, OnlyLiveRun, Runnable
  <1>3. OwnOnly(p)
    BY PidFacts DEF OwnOnly, SchedInv, OnlyLiveRun, Runnable, PidsInOrder
  <1> HIDE DEF TypeOK
  <1> QED BY <1>1, <1>2, <1>3, OwnStep

(* A call without scheduler state. *)
LEMMA OtherSyscallStep ==
    ASSUME TypeOK, SchedInv, NEW p \in Pids, OtherSyscall(p)
    PROVE  TypeOK' /\ SchedInv'
  <1> USE DEF TypeOK, OtherSyscall, Enter, queueVars, pcbVars, At, Goto, Executes
  <1>1. TypeOK'
    BY DEF PCs
  <1>2. StatusAt(p)' /\ ReasonAt(p)' /\ DeathAt(p)' /\ OnlyLiveRun'
    BY PidFacts
       DEF SchedInv, StatusAtPlace, StatusAt, ReasonsAtPlace, ReasonAt, Blocks,
           DeathsAnnounced, DeathAt, OnlyLiveRun, Runnable
  <1>3. OwnOnly(p)
    BY PidFacts DEF OwnOnly, SchedInv, OnlyLiveRun, Runnable, PidsInOrder
  <1> HIDE DEF TypeOK
  <1> QED BY <1>1, <1>2, <1>3, OwnStep

(* The entry of the while(1) of an unknown call. *)
LEMMA BadSyscallStep ==
    ASSUME TypeOK, SchedInv, NEW p \in Pids, BadSyscall(p)
    PROVE  TypeOK' /\ SchedInv'
  <1> USE DEF TypeOK, BadSyscall, Enter, queueVars, pcbVars, At, Goto, Executes
  <1>1. TypeOK'
    BY DEF PCs
  <1>2. StatusAt(p)' /\ ReasonAt(p)' /\ DeathAt(p)' /\ OnlyLiveRun'
    BY PidFacts
       DEF SchedInv, StatusAtPlace, StatusAt, ReasonsAtPlace, ReasonAt, Blocks,
           DeathsAnnounced, DeathAt, OnlyLiveRun, Runnable
  <1>3. OwnOnly(p)
    BY PidFacts DEF OwnOnly, SchedInv, OnlyLiveRun, Runnable, PidsInOrder
  <1> HIDE DEF TypeOK
  <1> QED BY <1>1, <1>2, <1>3, OwnStep

(* A user fault halts the kernel as it is. *)
LEMMA FaultStep ==
    ASSUME TypeOK, SchedInv, NEW p \in Pids, Fault(p)
    PROVE  TypeOK' /\ SchedInv'
  <1> USE DEF TypeOK, Fault, At, queueVars, pcbVars, flowVars, irqVars, Executes
  <1>1. TypeOK'
    OBVIOUS
  <1>2. StatusAt(p)' /\ ReasonAt(p)' /\ DeathAt(p)' /\ OnlyLiveRun'
    BY PidFacts
       DEF SchedInv, StatusAtPlace, StatusAt, ReasonsAtPlace, ReasonAt, Blocks,
           DeathsAnnounced, DeathAt, OnlyLiveRun, Runnable
  <1>3. OwnOnly(p)
    BY PidFacts DEF OwnOnly, SchedInv, OnlyLiveRun, Runnable, PidsInOrder
  <1> HIDE DEF TypeOK
  <1> QED BY <1>1, <1>2, <1>3, OwnStep

(* The entry of do_read. *)
LEMMA DoReadStep ==
    ASSUME TypeOK, SchedInv, NEW p \in Pids, DoRead(p)
    PROVE  TypeOK' /\ SchedInv'
  <1> USE DEF TypeOK, DoRead, Enter, queueVars, pcbVars, At, Goto, Executes
  <1>1. TypeOK'
    BY DEF PCs
  <1>2. StatusAt(p)' /\ ReasonAt(p)' /\ DeathAt(p)' /\ OnlyLiveRun'
    BY PidFacts
       DEF SchedInv, StatusAtPlace, StatusAt, ReasonsAtPlace, ReasonAt, Blocks,
           DeathsAnnounced, DeathAt, OnlyLiveRun, Runnable
  <1>3. OwnOnly(p)
    BY PidFacts DEF OwnOnly, SchedInv, OnlyLiveRun, Runnable, PidsInOrder
  <1> HIDE DEF TypeOK
  <1> QED BY <1>1, <1>2, <1>3, OwnStep

(* The test of buffer_is_ready: the process runs, so its stdin flag is      *)
(* clear.                                                                   *)
LEMMA ReadTestStep ==
    ASSUME TypeOK, SchedInv, NEW p \in Pids, ReadTest(p)
    PROVE  TypeOK' /\ SchedInv'
  <1> USE DEF TypeOK, ReadTest, At, Goto, queueVars, pcbVars, irqVars, Executes
  <1>1. TypeOK'
    BY DEF PCs
  <1>2. StatusAt(p)' /\ ReasonAt(p)' /\ DeathAt(p)' /\ OnlyLiveRun'
    BY PidFacts
       DEF SchedInv, StatusAtPlace, StatusAt, ReasonsAtPlace, ReasonAt, Blocks,
           DeathsAnnounced, DeathAt, OnlyLiveRun, Runnable
  <1>3. OwnOnly(p)
    BY PidFacts DEF OwnOnly, SchedInv, OnlyLiveRun, Runnable, PidsInOrder
  <1> HIDE DEF TypeOK
  <1> QED BY <1>1, <1>2, <1>3, OwnStep

(* do_read stores WAITING before its flag. *)
LEMMA ReadBlockStep ==
    ASSUME TypeOK, SchedInv, NEW p \in Pids, ReadBlock(p)
    PROVE  TypeOK' /\ SchedInv'
  <1> USE DEF TypeOK, ReadBlock, At, Goto, SetStatus, queueVars, irqVars, Executes
  <1>1. TypeOK'
    BY DEF PCs, Statuses
  <1>2. StatusAt(p)' /\ ReasonAt(p)' /\ DeathAt(p)' /\ OnlyLiveRun'
    BY PidFacts
       DEF SchedInv, StatusAtPlace, StatusAt, ReasonsAtPlace, ReasonAt, Blocks,
           DeathsAnnounced, DeathAt, OnlyLiveRun, Runnable
  <1>3. OwnOnly(p)
    BY PidFacts DEF OwnOnly, SchedInv, OnlyLiveRun, Runnable, PidsInOrder
  <1> HIDE DEF TypeOK
  <1> QED BY <1>1, <1>2, <1>3, OwnStep

(* do_read stores its flag. *)
LEMMA ReadFlagStep ==
    ASSUME TypeOK, SchedInv, NEW p \in Pids, ReadFlag(p)
    PROVE  TypeOK' /\ SchedInv'
  <1> USE DEF TypeOK, ReadFlag, At, Goto, queueVars, irqVars, Executes
  <1>1. TypeOK'
    BY DEF PCs, Blocked
  <1>2. StatusAt(p)' /\ ReasonAt(p)' /\ DeathAt(p)' /\ OnlyLiveRun'
    BY PidFacts
       DEF SchedInv, StatusAtPlace, StatusAt, ReasonsAtPlace, ReasonAt, Blocks,
           DeathsAnnounced, DeathAt, OnlyLiveRun, Runnable
  <1>3. OwnOnly(p)
    BY PidFacts DEF OwnOnly, SchedInv, OnlyLiveRun, Runnable, PidsInOrder
  <1> HIDE DEF TypeOK
  <1> QED BY <1>1, <1>2, <1>3, OwnStep

(* copy_input. *)
LEMMA ReadCopyStep ==
    ASSUME TypeOK, SchedInv, NEW p \in Pids, ReadCopy(p)
    PROVE  TypeOK' /\ SchedInv'
  <1> USE DEF TypeOK, ReadCopy, At, Goto, queueVars, pcbVars, irqVars, Executes
  <1>1. TypeOK'
    BY DEF PCs
  <1>2. StatusAt(p)' /\ ReasonAt(p)' /\ DeathAt(p)' /\ OnlyLiveRun'
    BY PidFacts
       DEF SchedInv, StatusAtPlace, StatusAt, ReasonsAtPlace, ReasonAt, Blocks,
           DeathsAnnounced, DeathAt, OnlyLiveRun, Runnable
  <1>3. OwnOnly(p)
    BY PidFacts DEF OwnOnly, SchedInv, OnlyLiveRun, Runnable, PidsInOrder
  <1> HIDE DEF TypeOK
  <1> QED BY <1>1, <1>2, <1>3, OwnStep

(* do_waitpid stores the pid it waits for. *)
LEMMA DoWaitpidStep ==
    ASSUME TypeOK, SchedInv, NEW p \in Pids, NEW t \in Awaited, DoWaitpid(p, t)
    PROVE  TypeOK' /\ SchedInv'
  <1> USE DEF TypeOK, DoWaitpid, Enter, queueVars, At, Goto, Executes
  <1>0. t \in Pids
    BY TargetAssumption DEF Pids
  <1>1. TypeOK'
    BY <1>0 DEF PCs
  <1>2. StatusAt(p)' /\ ReasonAt(p)' /\ DeathAt(p)' /\ OnlyLiveRun'
    BY <1>0, PidFacts
       DEF SchedInv, StatusAtPlace, StatusAt, ReasonsAtPlace, ReasonAt, Blocks,
           DeathsAnnounced, DeathAt, OnlyLiveRun, Runnable
  <1>3. OwnOnly(p)
    BY <1>0, PidFacts DEF OwnOnly, SchedInv, OnlyLiveRun, Runnable, PidsInOrder
  <1> HIDE DEF TypeOK
  <1> QED BY <1>1, <1>2, <1>3, OwnStep

(* do_waitpid stores WAITING. *)
LEMMA WaitBlockStep ==
    ASSUME TypeOK, SchedInv, NEW p \in Pids, WaitBlock(p)
    PROVE  TypeOK' /\ SchedInv'
  <1> USE DEF TypeOK, WaitBlock, At, Goto, SetStatus, queueVars, irqVars, Executes
  <1>1. TypeOK'
    BY DEF PCs, Statuses, Blocked
  <1>2. StatusAt(p)' /\ ReasonAt(p)' /\ DeathAt(p)' /\ OnlyLiveRun'
    BY PidFacts
       DEF SchedInv, StatusAtPlace, StatusAt, ReasonsAtPlace, ReasonAt, Blocks,
           DeathsAnnounced, DeathAt, OnlyLiveRun, Runnable
  <1>3. OwnOnly(p)
    BY PidFacts DEF OwnOnly, SchedInv, OnlyLiveRun, Runnable, PidsInOrder
  <1> HIDE DEF TypeOK
  <1> QED BY <1>1, <1>2, <1>3, OwnStep

(* do_alarm stores the deadline. *)
LEMMA DoAlarmStep ==
    ASSUME TypeOK, SchedInv, NEW p \in Pids, NEW n \in SleepTicks, DoAlarm(p, n)
    PROVE  TypeOK' /\ SchedInv'
  <1> USE DEF TypeOK, DoAlarm, Enter, queueVars, At, Goto, Executes
  <1>1. TypeOK'
    BY TickAssumption DEF PCs
  <1>2. StatusAt(p)' /\ ReasonAt(p)' /\ DeathAt(p)' /\ OnlyLiveRun'
    BY PidFacts
       DEF SchedInv, StatusAtPlace, StatusAt, ReasonsAtPlace, ReasonAt, Blocks,
           DeathsAnnounced, DeathAt, OnlyLiveRun, Runnable
  <1>3. OwnOnly(p)
    BY PidFacts DEF OwnOnly, SchedInv, OnlyLiveRun, Runnable, PidsInOrder
  <1> HIDE DEF TypeOK
  <1> QED BY <1>1, <1>2, <1>3, OwnStep

(* do_alarm stores WAITING. *)
LEMMA AlarmBlockStep ==
    ASSUME TypeOK, SchedInv, NEW p \in Pids, AlarmBlock(p)
    PROVE  TypeOK' /\ SchedInv'
  <1> USE DEF TypeOK, AlarmBlock, At, Goto, SetStatus, queueVars, irqVars, Executes
  <1>1. TypeOK'
    BY DEF PCs, Statuses, Blocked
  <1>2. StatusAt(p)' /\ ReasonAt(p)' /\ DeathAt(p)' /\ OnlyLiveRun'
    BY PidFacts
       DEF SchedInv, StatusAtPlace, StatusAt, ReasonsAtPlace, ReasonAt, Blocks,
           DeathsAnnounced, DeathAt, OnlyLiveRun, Runnable
  <1>3. OwnOnly(p)
    BY PidFacts DEF OwnOnly, SchedInv, OnlyLiveRun, Runnable, PidsInOrder
  <1> HIDE DEF TypeOK
  <1> QED BY <1>1, <1>2, <1>3, OwnStep

(* The entry of do_yield. *)
LEMMA DoYieldStep ==
    ASSUME TypeOK, SchedInv, NEW p \in Pids, DoYield(p)
    PROVE  TypeOK' /\ SchedInv'
  <1> USE DEF TypeOK, DoYield, Enter, queueVars, pcbVars, At, Goto, Executes
  <1>1. TypeOK'
    BY DEF PCs, Blocked
  <1>2. StatusAt(p)' /\ ReasonAt(p)' /\ DeathAt(p)' /\ OnlyLiveRun'
    BY PidFacts
       DEF SchedInv, StatusAtPlace, StatusAt, ReasonsAtPlace, ReasonAt, Blocks,
           DeathsAnnounced, DeathAt, OnlyLiveRun, Runnable
  <1>3. OwnOnly(p)
    BY PidFacts DEF OwnOnly, SchedInv, OnlyLiveRun, Runnable, PidsInOrder
  <1> HIDE DEF TypeOK
  <1> QED BY <1>1, <1>2, <1>3, OwnStep

(* The entry of do_execve. *)
LEMMA DoExecveStep ==
    ASSUME TypeOK, SchedInv, NEW p \in Pids, DoExecve(p)
    PROVE  TypeOK' /\ SchedInv'
  <1> USE DEF TypeOK, DoExecve, Enter, queueVars, pcbVars, At, Goto, Executes
  <1>1. TypeOK'
    BY DEF PCs
  <1>2. StatusAt(p)' /\ ReasonAt(p)' /\ DeathAt(p)' /\ OnlyLiveRun'
    BY PidFacts
       DEF SchedInv, StatusAtPlace, StatusAt, ReasonsAtPlace, ReasonAt, Blocks,
           DeathsAnnounced, DeathAt, OnlyLiveRun, Runnable
  <1>3. OwnOnly(p)
    BY PidFacts DEF OwnOnly, SchedInv, OnlyLiveRun, Runnable, PidsInOrder
  <1> HIDE DEF TypeOK
  <1> QED BY <1>1, <1>2, <1>3, OwnStep

(* process_exec makes the caller READY. *)
LEMMA ExecPlantStep ==
    ASSUME TypeOK, SchedInv, NEW p \in Pids, ExecPlant(p)
    PROVE  TypeOK' /\ SchedInv'
  <1> USE DEF TypeOK, ExecPlant, At, Goto, SetStatus, queueVars, irqVars, Executes
  <1>1. TypeOK'
    BY DEF PCs, Statuses, Blocked
  <1>2. StatusAt(p)' /\ ReasonAt(p)' /\ DeathAt(p)' /\ OnlyLiveRun'
    BY PidFacts
       DEF SchedInv, StatusAtPlace, StatusAt, ReasonsAtPlace, ReasonAt, Blocks,
           DeathsAnnounced, DeathAt, OnlyLiveRun, Runnable
  <1>3. OwnOnly(p)
    BY PidFacts DEF OwnOnly, SchedInv, OnlyLiveRun, Runnable, PidsInOrder
  <1> HIDE DEF TypeOK
  <1> QED BY <1>1, <1>2, <1>3, OwnStep

(* The return through a damaged frame halts the kernel. *)
LEMMA StrayReturnStep ==
    ASSUME TypeOK, SchedInv, NEW p \in Pids, StrayReturn(p)
    PROVE  TypeOK' /\ SchedInv'
  <1> USE DEF TypeOK, StrayReturn, At, queueVars, pcbVars, flowVars, irqVars, Executes
  <1>1. TypeOK'
    OBVIOUS
  <1>2. StatusAt(p)' /\ ReasonAt(p)' /\ DeathAt(p)' /\ OnlyLiveRun'
    BY PidFacts
       DEF SchedInv, StatusAtPlace, StatusAt, ReasonsAtPlace, ReasonAt, Blocks,
           DeathsAnnounced, DeathAt, OnlyLiveRun, Runnable
  <1>3. OwnOnly(p)
    BY PidFacts DEF OwnOnly, SchedInv, OnlyLiveRun, Runnable, PidsInOrder
  <1> HIDE DEF TypeOK
  <1> QED BY <1>1, <1>2, <1>3, OwnStep

(* k_thread_kernel tests for READY. *)
LEMMA KtReadyStep ==
    ASSUME TypeOK, SchedInv, NEW p \in Pids, KtReady(p)
    PROVE  TypeOK' /\ SchedInv'
  <1> USE DEF TypeOK, KtReady, At, Goto, queueVars, pcbVars, irqVars, Executes
  <1>1. TypeOK'
    BY DEF PCs
  <1>2. StatusAt(p)' /\ ReasonAt(p)' /\ DeathAt(p)' /\ OnlyLiveRun'
    BY PidFacts
       DEF SchedInv, StatusAtPlace, StatusAt, ReasonsAtPlace, ReasonAt, Blocks,
           DeathsAnnounced, DeathAt, OnlyLiveRun, Runnable
  <1>3. OwnOnly(p)
    BY PidFacts DEF OwnOnly, SchedInv, OnlyLiveRun, Runnable, PidsInOrder
  <1> HIDE DEF TypeOK
  <1> QED BY <1>1, <1>2, <1>3, OwnStep

(* prepare_user_memory makes the process RUNNING. *)
LEMMA KtPrepareStep ==
    ASSUME TypeOK, SchedInv, NEW p \in Pids, KtPrepare(p)
    PROVE  TypeOK' /\ SchedInv'
  <1> USE DEF TypeOK, KtPrepare, At, Goto, SetStatus, queueVars, irqVars, Executes
  <1>1. TypeOK'
    BY DEF PCs, Statuses
  <1>2. StatusAt(p)' /\ ReasonAt(p)' /\ DeathAt(p)' /\ OnlyLiveRun'
    BY PidFacts
       DEF SchedInv, StatusAtPlace, StatusAt, ReasonsAtPlace, ReasonAt, Blocks,
           DeathsAnnounced, DeathAt, OnlyLiveRun, Runnable
  <1>3. OwnOnly(p)
    BY PidFacts DEF OwnOnly, SchedInv, OnlyLiveRun, Runnable, PidsInOrder
  <1> HIDE DEF TypeOK
  <1> QED BY <1>1, <1>2, <1>3, OwnStep

(* k_thread_kernel's second test, and the switch to ring 3. *)
LEMMA KtCheckStep ==
    ASSUME TypeOK, SchedInv, NEW p \in Pids, KtCheck(p)
    PROVE  TypeOK' /\ SchedInv'
  <1> USE DEF TypeOK, KtCheck, At, Goto, queueVars, pcbVars, irqVars, Executes, Panics
  <1>1. TypeOK'
    BY DEF PCs
  <1>2. StatusAt(p)' /\ ReasonAt(p)' /\ DeathAt(p)' /\ OnlyLiveRun'
    BY PidFacts
       DEF SchedInv, StatusAtPlace, StatusAt, ReasonsAtPlace, ReasonAt, Blocks,
           DeathsAnnounced, DeathAt, OnlyLiveRun, Runnable
  <1>3. OwnOnly(p)
    BY PidFacts DEF OwnOnly, SchedInv, OnlyLiveRun, Runnable, PidsInOrder
  <1> HIDE DEF TypeOK
  <1> QED BY <1>1, <1>2, <1>3, OwnStep

(* do_exit stores FINISHED. *)
LEMMA DoExitStep ==
    ASSUME TypeOK, SchedInv, NEW p \in Pids, DoExit(p)
    PROVE  TypeOK' /\ SchedInv'
  <1> USE DEF TypeOK, DoExit, Enter, SetStatus, queueVars, At, Goto, Executes
  <1>1. TypeOK'
    BY DEF PCs, Statuses
  <1>2. StatusAt(p)' /\ ReasonAt(p)' /\ DeathAt(p)' /\ OnlyLiveRun'
    BY PidFacts
       DEF SchedInv, StatusAtPlace, StatusAt, ReasonsAtPlace, ReasonAt, Blocks,
           DeathsAnnounced, DeathAt, OnlyLiveRun, Runnable
  <1>3. OwnOnly(p)
    BY PidFacts DEF OwnOnly, SchedInv, OnlyLiveRun, Runnable, PidsInOrder
  <1> HIDE DEF TypeOK
  <1> QED BY <1>1, <1>2, <1>3, OwnStep

(* kill_pid finishes a queued process, which is neither the caller nor a    *)
(* child in the making.                                                     *)
LEMMA DoKillStep ==
    ASSUME TypeOK, SchedInv, NEW p \in Pids, NEW t \in Killable, DoKill(p, t)
    PROVE  TypeOK' /\ SchedInv'
  <1> USE DEF TypeOK, DoKill, Enter, At, Goto, Executes, queueVars
  <1>0. t \in Pids
    BY TargetAssumption DEF Pids
  <1>1. TypeOK'
    BY <1>0 DEF PCs, Statuses
  <1>2. Queued' = Queued
    BY DEF Queued
  <1>3. OnePlace'
    BY <1>0, <1>2 DEF SchedInv, OnePlace, Embryo
  <1>4. PidsInOrder'
    BY <1>0, <1>2 DEF SchedInv, PidsInOrder, OnlyLiveRun, Runnable, Pids
  <1>5. EmbryosApart'
    BY <1>0, <1>2 DEF SchedInv, EmbryosApart
  <1>6. StatusAtPlace'
    BY <1>0 DEF SchedInv, StatusAtPlace, StatusAt, OnlyLiveRun, Runnable
  <1>7. ReasonsAtPlace'
    BY <1>0 DEF SchedInv, ReasonsAtPlace, ReasonAt, Blocks
  <1>8. DeathsAnnounced'
    BY <1>0 DEF SchedInv, DeathsAnnounced, DeathAt, ReasonsAtPlace, ReasonAt, Runnable
  <1>9. OnlyLiveRun'
    BY <1>0 DEF SchedInv, OnePlace, OnlyLiveRun, Runnable
  <1> QED BY <1>1, <1>3, <1>4, <1>5, <1>6, <1>7, <1>8, <1>9 DEF SchedInv

(* The end of int_tmr_srv. *)
LEMMA TimerReturnStep ==
    ASSUME TypeOK, SchedInv, NEW p \in Pids, TimerReturn(p)
    PROVE  TypeOK' /\ SchedInv'
  <1> USE DEF TimerReturn, queueVars, pcbVars, flowVars, irqVars
  <1>1. TypeOK'
    BY DEF TypeOK
  <1>2. OnePlace' /\ PidsInOrder' /\ EmbryosApart'
    BY DEF SchedInv, OnePlace, Embryo, PidsInOrder, EmbryosApart, Queued
  <1>3. StatusAtPlace' /\ ReasonsAtPlace' /\ DeathsAnnounced' /\ OnlyLiveRun'
    BY
       DEF SchedInv, StatusAtPlace, StatusAt, ReasonsAtPlace, ReasonAt, Blocks,
           DeathsAnnounced, DeathAt, OnlyLiveRun
  <1> QED BY <1>1, <1>2, <1>3 DEF SchedInv

(* The nested switch halts the model. *)
LEMMA NestedScheduleStep ==
    ASSUME TypeOK, SchedInv, NestedSchedule
    PROVE  TypeOK' /\ SchedInv'
  <1> USE DEF NestedSchedule, queueVars, pcbVars, flowVars, irqVars
  <1>1. TypeOK'
    BY DEF TypeOK
  <1>2. OnePlace' /\ PidsInOrder' /\ EmbryosApart'
    BY DEF SchedInv, OnePlace, Embryo, PidsInOrder, EmbryosApart, Queued
  <1>3. StatusAtPlace' /\ ReasonsAtPlace' /\ DeathsAnnounced' /\ OnlyLiveRun'
    BY
       DEF SchedInv, StatusAtPlace, StatusAt, ReasonsAtPlace, ReasonAt, Blocks,
           DeathsAnnounced, DeathAt, OnlyLiveRun
  <1> QED BY <1>1, <1>2, <1>3 DEF SchedInv
-----------------------------------------------------------------------------
(* The notify loops and the interrupts that run them. *)

(* What a notify loop over the processes in S does to the statuses, and to   *)
(* the flag f that it clears.                                                *)
LEMMA WakeFacts ==
    ASSUME TypeOK, SchedInv, NEW S
    PROVE  /\ Woken(S) \subseteq Queued \cap S
           /\ active \notin Woken(S)
           /\ \A q \in Woken(S) : status[q] = "WAITING"
           /\ Wake(status, Woken(S)) \in [Pids -> Statuses]
           /\ \A q \in Pids : Wake(status, Woken(S))[q] =
                                 IF q \in Woken(S) THEN "RUNNING" ELSE status[q]
  BY DEF TypeOK, SchedInv, OnePlace, Wake, Woken, Statuses

(* The announcement of a death, by process p for the dead process t. *)
LEMMA AnnounceStep ==
    ASSUME TypeOK, SchedInv, NEW p \in Pids, NEW t \in Pids, NEW l \in PCs,
           status[t] = "FINISHED", notify_exit_pid(t),
           Executes(p), Goto(p, l),
           \/ pc[p] = "exit_notify" /\ l = "exit_sched"
           \/ pc[p] = "kill_notify" /\ l = "ret",
           UNCHANGED <<queueVars, waiting_on_stdin, waiting_on_clock, arg>>
    PROVE  SchedInv' /\ status' \in [Pids -> Statuses]
                     /\ waiting_on_pid' \in [Pids -> Pids \cup {NoPid}]
  <1> DEFINE W == Woken(WaitingFor(t))
  <1>0. Queued \subseteq Pids
    BY QueuedPids
  <1>1. /\ W \subseteq Queued /\ p \notin W
        /\ \A q \in W : status[q] = "WAITING"
        /\ status' \in [Pids -> Statuses]
        /\ \A q \in Pids : status'[q] = IF q \in W THEN "RUNNING" ELSE status[q]
    BY WakeFacts DEF notify_exit_pid, Executes
  <1>2. \A q \in W : waiting_on_pid[q] = t
    BY DEF Woken, WaitingFor
  <1>3. \A q \in Pids : waiting_on_pid'[q] = IF q \in W THEN NoPid ELSE waiting_on_pid[q]
    BY DEF notify_exit_pid, Cleared
  <1>4. waiting_on_pid' \in [Pids -> Pids \cup {NoPid}]
    BY DEF notify_exit_pid, Cleared, TypeOK
  <1>5. /\ Queued' = Queued
        /\ \A q \in Pids : pc'[q] = IF q = p THEN l ELSE pc[q]
    BY DEF Queued, queueVars, Goto, TypeOK
  <1> HIDE DEF W
  <1>6. \A q \in W : pc[q] \in {"wait_sched", "wait_done"} /\ arg[q] = t
    BY <1>0, <1>1, <1>2, PidFacts DEF SchedInv, ReasonsAtPlace, ReasonAt, StatusAtPlace, StatusAt
  <1> USE DEF TypeOK, queueVars, Executes
  <1>7. OnePlace'
    <2>1. \A c \in Pids : Embryo(c) => Embryo(c)'
      BY <1>5 DEF Embryo
    <2> QED BY <2>1, <1>1, <1>5 DEF SchedInv, OnePlace
  <1>8. PidsInOrder'
    BY <1>1, <1>5, <1>6 DEF SchedInv, PidsInOrder
  <1>9. EmbryosApart'
    BY <1>1, <1>5, <1>6 DEF SchedInv, EmbryosApart
  <1>10. StatusAtPlace'
    BY <1>1, <1>5, <1>6 DEF SchedInv, StatusAtPlace, StatusAt, OnlyLiveRun, Runnable
  <1>11. ReasonsAtPlace'
    BY <1>1, <1>3, <1>5, <1>6 DEF SchedInv, ReasonsAtPlace, ReasonAt, Blocks
  <1>12. DeathsAnnounced'
    BY <1>1, <1>5, <1>6 DEF SchedInv, DeathsAnnounced, DeathAt, ReasonsAtPlace, ReasonAt, Runnable
  <1>13. OnlyLiveRun'
    BY <1>1, <1>5, <1>6 DEF SchedInv, OnlyLiveRun, Runnable
  <1> QED BY <1>1, <1>4, <1>7, <1>8, <1>9, <1>10, <1>11, <1>12, <1>13 DEF SchedInv

(* do_exit announces the caller's death. *)
LEMMA ExitNotifyStep ==
    ASSUME TypeOK, SchedInv, NEW p \in Pids, ExitNotify(p)
    PROVE  TypeOK' /\ SchedInv'
  <1>1. status[p] = "FINISHED"
    BY DEF ExitNotify, At, SchedInv, StatusAtPlace, StatusAt
  <1>2. /\ SchedInv' /\ status' \in [Pids -> Statuses]
        /\ waiting_on_pid' \in [Pids -> Pids \cup {NoPid}]
    BY <1>1, AnnounceStep, "exit_sched" \in PCs DEF ExitNotify, At, PCs, Blocked
  <1>3. TypeOK'
    BY <1>2 DEF ExitNotify, At, Goto, TypeOK, PCs, Blocked, queueVars, irqVars
  <1> QED BY <1>2, <1>3

(* do_kill announces the target's death. *)
LEMMA KillNotifyStep ==
    ASSUME TypeOK, SchedInv, NEW p \in Pids, KillNotify(p)
    PROVE  TypeOK' /\ SchedInv'
  <1>1. arg[p] \in Pids /\ status[arg[p]] = "FINISHED"
    BY DEF KillNotify, At, SchedInv, ReasonsAtPlace, ReasonAt, DeathsAnnounced, DeathAt
  <1>2. /\ SchedInv' /\ status' \in [Pids -> Statuses]
        /\ waiting_on_pid' \in [Pids -> Pids \cup {NoPid}]
    BY <1>1, AnnounceStep, "ret" \in PCs DEF KillNotify, At, PCs
  <1>3. TypeOK'
    BY <1>2 DEF KillNotify, At, Goto, TypeOK, PCs, queueVars, irqVars
  <1> QED BY <1>2, <1>3

(* A wakeup by an interrupt changes no place: what is left to check for one  *)
(* is that the woken processes W were in a call that may be woken by it.     *)
LEMMA InterruptWakes ==
    ASSUME TypeOK, SchedInv, NEW W, W \subseteq Queued,
           \A q \in W : /\ status[q] = "WAITING"
                        /\ pc[q] \in {"read_sched", "read_test", "alarm_sched", "ret"},
           \A q \in Pids : status'[q] = IF q \in W THEN "RUNNING" ELSE status[q],
           UNCHANGED <<processq, active, prev_pid, pc, arg>>,
           phase' \in {phase, "switch"}
    PROVE  /\ OnePlace' /\ PidsInOrder' /\ EmbryosApart' /\ StatusAtPlace'
           /\ DeathsAnnounced' /\ OnlyLiveRun'
  <1> USE DEF TypeOK
  <1>1. Queued' = Queued
    BY DEF Queued
  <1>2. OnePlace'
    BY <1>1 DEF SchedInv, OnePlace, Embryo
  <1>3. PidsInOrder'
    BY <1>1 DEF SchedInv, PidsInOrder
  <1>4. EmbryosApart'
    BY <1>1 DEF SchedInv, EmbryosApart
  <1>5. StatusAtPlace'
    BY DEF SchedInv, StatusAtPlace, StatusAt
  <1>6. DeathsAnnounced'
    BY ZenonT(30) DEF SchedInv, DeathsAnnounced, DeathAt, ReasonsAtPlace, ReasonAt, Runnable
  <1>7. OnlyLiveRun'
    BY DEF SchedInv, OnlyLiveRun, OnePlace, Runnable
  <1> QED BY <1>2, <1>3, <1>4, <1>5, <1>6, <1>7

(* tick_count, whether or not preempt() then switches. *)
LEMMA TickCountStep ==
    ASSUME TypeOK, SchedInv, tick_count,
           UNCHANGED <<processq, active, prev_pid, pc, arg>>,
           phase' \in {phase, "switch"}
    PROVE  /\ SchedInv'
           /\ status' \in [Pids -> Statuses]
           /\ waiting_on_clock' \in [Pids -> Int]
           /\ alarm_ticks' \in 0..(ALARM_TICK_DIVIDE - 1)
  <1> DEFINE W == Woken(Due)
  <1>0. Queued \subseteq Pids
    BY QueuedPids
  <1>1. /\ W \subseteq Queued
        /\ \A q \in W : status[q] = "WAITING"
        /\ status' \in [Pids -> Statuses]
        /\ \A q \in Pids : status'[q] = IF q \in W THEN "RUNNING" ELSE status[q]
    BY WakeFacts DEF tick_count
  <1>2. \A q \in W : q \in Pids /\ Elapsed[q] = 0
    BY DEF Woken, Due
  <1>3. \A q \in Pids : /\ Elapsed[q] \in Int
                        /\ Elapsed[q] # NoAlarm => waiting_on_clock[q] # NoAlarm
    BY DEF Elapsed, TypeOK, NoAlarm
  <1>4. \A q \in Pids : waiting_on_clock'[q] = IF q \in W THEN NoAlarm ELSE Elapsed[q]
    BY DEF tick_count, Cleared
  <1>5. waiting_on_clock' \in [Pids -> Int]
    BY <1>3 DEF tick_count, Cleared, NoAlarm
  <1>6. alarm_ticks' \in 0..(ALARM_TICK_DIVIDE - 1)
    BY TickAssumption DEF tick_count, TypeOK
  <1> HIDE DEF W
  <1>7. \A q \in W : pc[q] \in {"alarm_sched", "ret"}
    BY <1>1, <1>2, <1>3 DEF NoAlarm, SchedInv, ReasonsAtPlace, ReasonAt, StatusAtPlace, StatusAt
  <1>8. /\ OnePlace' /\ PidsInOrder' /\ EmbryosApart' /\ StatusAtPlace'
        /\ DeathsAnnounced' /\ OnlyLiveRun'
    BY <1>1, <1>7, InterruptWakes
  <1>9. ReasonsAtPlace'
    BY <1>0, <1>1, <1>3, <1>4, <1>7, ZenonT(30)
       DEF tick_count, SchedInv, ReasonsAtPlace, ReasonAt, Blocks, TypeOK
  <1> QED BY <1>1, <1>5, <1>6, <1>8, <1>9 DEF SchedInv

(* A tick that returns. *)
LEMMA TickStep ==
    ASSUME TypeOK, SchedInv, Tick
    PROVE  TypeOK' /\ SchedInv'
  <1>1. /\ SchedInv'
        /\ status' \in [Pids -> Statuses]
        /\ waiting_on_clock' \in [Pids -> Int]
        /\ alarm_ticks' \in 0..(ALARM_TICK_DIVIDE - 1)
    BY TickCountStep DEF Tick, queueVars, flowVars
  <1>2. TypeOK'
    BY <1>1, TickAssumption DEF Tick, tick_count, TypeOK, queueVars, flowVars
  <1> QED BY <1>1, <1>2

(* A tick that switches. *)
LEMMA PreemptStep ==
    ASSUME TypeOK, SchedInv, NEW p \in Pids, Preempt(p)
    PROVE  TypeOK' /\ SchedInv'
  <1>1. /\ SchedInv'
        /\ status' \in [Pids -> Statuses]
        /\ waiting_on_clock' \in [Pids -> Int]
        /\ alarm_ticks' \in 0..(ALARM_TICK_DIVIDE - 1)
    BY TickCountStep DEF Preempt
  <1>2. UNCHANGED <<waiting_on_stdin, waiting_on_pid>>
    BY DEF Preempt, tick_count
  <1>3. /\ tmr' = [tmr EXCEPT ![p] = TRUE] /\ fresh' = [fresh EXCEPT ![p] = FALSE]
        /\ irq0' = TRUE /\ ie' = FALSE /\ time_slice' = 0 /\ phase' = "switch"
        /\ UNCHANGED <<processq, active, prev_pid, pc, arg, user_ie, input_count, halted>>
    BY DEF Preempt
  <1>4. TypeOK'
    <2>1. tmr' \in [Pids -> BOOLEAN] /\ fresh' \in [Pids -> BOOLEAN]
      BY <1>3 DEF TypeOK
    <2>2. irq0' \in BOOLEAN /\ ie' \in BOOLEAN
      BY <1>3
    <2>3. time_slice' \in 0..TIME_SLICE_LIMIT /\ phase' \in {"run", "switch"}
      BY <1>3, TickAssumption
    <2> QED BY <1>1, <1>2, <1>3, <2>1, <2>2, <2>3 DEF TypeOK
  <1> QED BY <1>1, <1>4

(* The end of an input line. *)
LEMMA NewlineStep ==
    ASSUME TypeOK, SchedInv, Newline
    PROVE  TypeOK' /\ SchedInv'
  <1> DEFINE W == Woken({p \in Pids : waiting_on_stdin[p]})
  <1>0. Queued \subseteq Pids
    BY QueuedPids
  <1>1. /\ W \subseteq Queued
        /\ \A q \in W : status[q] = "WAITING"
        /\ status' \in [Pids -> Statuses]
        /\ \A q \in Pids : status'[q] = IF q \in W THEN "RUNNING" ELSE status[q]
    BY WakeFacts DEF Newline
  <1>2. \A q \in W : waiting_on_stdin[q]
    BY DEF Woken
  <1>3. \A q \in Pids : waiting_on_stdin'[q] = IF q \in W THEN FALSE ELSE waiting_on_stdin[q]
    BY DEF Newline, Cleared
  <1>4. waiting_on_stdin' \in [Pids -> BOOLEAN]
    BY DEF Newline, Cleared, TypeOK
  <1> HIDE DEF W
  <1>5. \A q \in W : pc[q] \in {"read_sched", "read_test"}
    BY <1>0, <1>1, <1>2 DEF SchedInv, ReasonsAtPlace, ReasonAt
  <1>6. /\ OnePlace' /\ PidsInOrder' /\ EmbryosApart' /\ StatusAtPlace'
        /\ DeathsAnnounced' /\ OnlyLiveRun'
    BY <1>1, <1>5, InterruptWakes DEF Newline, queueVars, flowVars
  <1>7. ReasonsAtPlace'
    BY <1>0, <1>1, <1>3, <1>5
       DEF Newline, flowVars, SchedInv, ReasonsAtPlace, ReasonAt, Blocks
  <1>8. /\ input_count' = input_count + 1
        /\ UNCHANGED <<queueVars, waiting_on_pid, waiting_on_clock, flowVars, irqVars, halted>>
    BY DEF Newline
  <1>9. TypeOK'
    BY <1>1, <1>4, <1>8 DEF TypeOK, queueVars, flowVars, irqVars
  <1> QED BY <1>6, <1>7, <1>9 DEF SchedInv
-----------------------------------------------------------------------------
(* The steps that change the queue or move a process in or out of it. *)

(* fork takes the next pid for the child. *)
LEMMA DoForkStep ==
    ASSUME TypeOK, SchedInv, NEW p \in Pids, DoFork(p)
    PROVE  TypeOK' /\ SchedInv'
  <1> DEFINE child == prev_pid + 1
  <1>1. child \in Pids /\ child # p /\ p <= prev_pid /\ active = p
    BY PidAssumption DEF DoFork, At, Executes, TypeOK, SchedInv, PidsInOrder, Pids
  <1>2. status[child] = "NONE" /\ pc[child] = "dead" /\ child \notin Queued
    BY <1>1 DEF SchedInv, PidsInOrder, TypeOK, Pids
  <1>3. /\ ~waiting_on_stdin[child]
        /\ waiting_on_pid[child] = NoPid
        /\ waiting_on_clock[child] = NoAlarm
    BY <1>1, <1>2 DEF SchedInv, ReasonsAtPlace, ReasonAt
  <1>4. /\ prev_pid' = child /\ Queued' = Queued /\ active' = active /\ phase' = phase
        /\ processq' = processq
        /\ \A q \in Pids : status'[q] = IF q = child THEN "RUNNING" ELSE status[q]
        /\ \A q \in Pids : pc'[q] = IF q = child THEN "ret"
                                    ELSE IF q = p THEN "fork_run" ELSE pc[q]
        /\ \A q \in Pids : arg'[q] = IF q = p THEN child ELSE arg[q]
        /\ pc[p] = "user"
        /\ UNCHANGED <<waiting_on_stdin, waiting_on_pid, waiting_on_clock>>
    BY <1>1 DEF DoFork, At, TypeOK, Queued
  <1>5. \A q \in Pids : pc[q] = "fork_run" => arg[q] \in Pids /\ arg[q] # child
    BY <1>1, <1>2 DEF SchedInv, EmbryosApart
  <1>6. TypeOK'
    BY <1>1 DEF DoFork, At, TypeOK, Statuses, PCs
  <1>7. OnePlace'
    <2>1. \A c \in Pids : (c = child \/ Embryo(c)) => Embryo(c)'
      BY <1>1, <1>2, <1>4 DEF Embryo
    <2> QED BY <2>1, <1>1, <1>4 DEF SchedInv, OnePlace
  <1>8. PidsInOrder'
    <2>1. Queued \subseteq Pids
      BY QueuedPids
    <2>2. active' <= prev_pid'
      BY <1>1, <1>4 DEF TypeOK, Pids
    <2>3. \A x \in Pids : status'[x] = "NONE" <=> x > prev_pid'
      BY <1>1, <1>4 DEF SchedInv, PidsInOrder, TypeOK, Pids
    <2>4. \A x \in Pids : status'[x] = "NONE" => pc'[x] = "dead"
      BY <1>1, <1>4 DEF SchedInv, PidsInOrder, TypeOK, Pids
    <2>5. \A x \in Queued' : x <= prev_pid'
      BY <2>1, <1>4 DEF SchedInv, PidsInOrder, TypeOK, Pids
    <2> QED BY <2>2, <2>3, <2>4, <2>5 DEF PidsInOrder
  <1>9. EmbryosApart'
    BY <1>1, <1>2, <1>4, <1>5 DEF SchedInv, EmbryosApart
  <1>10. StatusAtPlace'
    BY <1>1, <1>2, <1>4 DEF SchedInv, StatusAtPlace, StatusAt, OnlyLiveRun, Runnable
  <1>11. ReasonsAtPlace'
    BY <1>1, <1>2, <1>3, <1>4 DEF SchedInv, ReasonsAtPlace, ReasonAt, Blocks
  <1>12. DeathsAnnounced'
    BY <1>1, <1>2, <1>4 DEF SchedInv, DeathsAnnounced, DeathAt, ReasonsAtPlace, ReasonAt, Runnable
  <1>13. OnlyLiveRun'
    BY <1>1, <1>2, <1>4 DEF SchedInv, OnlyLiveRun, Runnable
  <1> QED BY <1>6, <1>7, <1>8, <1>9, <1>10, <1>11, <1>12, <1>13 DEF SchedInv

(* process_run queues the child, which was nowhere before. *)
LEMMA ForkRunStep ==
    ASSUME TypeOK, SchedInv, NEW p \in Pids, ForkRun(p)
    PROVE  TypeOK' /\ SchedInv'
  <1> DEFINE child == arg[p]
  <1>1. /\ child \in Pids /\ child \notin Queued /\ child # active
        /\ status[child] = "RUNNING"
        /\ \A r \in Pids \ {p} : pc[r] = "fork_run" => arg[r] # child
        /\ child <= prev_pid /\ active = p
    BY DEF ForkRun, At, Executes, SchedInv, EmbryosApart, PidsInOrder, TypeOK, Pids
  <1>2. processq' = Append(processq, child)
    BY <1>1 DEF ForkRun, enqueue_process
  <1>3. /\ processq' \in Seq(Pids)
        /\ Queued' = Queued \cup {child}
        /\ NoDuplicates(processq')
    BY <1>1, <1>2, AppendElems DEF Queued, TypeOK, SchedInv, OnePlace
  <1>4. /\ \A q \in Pids : pc'[q] = IF q = p THEN "ret" ELSE pc[q]
        /\ UNCHANGED <<active, phase, prev_pid, status, waiting_on_stdin,
                       waiting_on_pid, waiting_on_clock, arg>>
        /\ pc[p] = "fork_run"
    BY DEF ForkRun, At, Goto, pcbVars, TypeOK
  <1>5. TypeOK'
    BY <1>3 DEF ForkRun, Goto, TypeOK, pcbVars, irqVars, PCs
  <1> HIDE DEF child
  <1>6. OnePlace'
    <2>1. \A c \in Pids : Embryo(c) => (c = child \/ Embryo(c)')
      BY <1>4 DEF Embryo, child
    <2> QED BY <2>1, <1>1, <1>3, <1>4 DEF SchedInv, OnePlace
  <1>7. PidsInOrder'
    BY <1>1, <1>3, <1>4 DEF SchedInv, PidsInOrder
  <1>8. EmbryosApart'
    BY <1>1, <1>3, <1>4 DEF SchedInv, EmbryosApart, child
  <1>9. StatusAtPlace'
    BY <1>4 DEF SchedInv, StatusAtPlace, StatusAt
  <1>10. ReasonsAtPlace'
    BY <1>4 DEF SchedInv, ReasonsAtPlace, ReasonAt, Blocks
  <1>11. DeathsAnnounced'
    BY <1>4 DEF SchedInv, DeathsAnnounced, DeathAt
  <1>12. OnlyLiveRun'
    BY <1>1, <1>4 DEF SchedInv, OnlyLiveRun
  <1> QED BY <1>5, <1>6, <1>7, <1>8, <1>9, <1>10, <1>11, <1>12 DEF SchedInv

(* schedule() leaves the caller at the place its system call goes on from. *)
LEMMA scheduleStep ==
    ASSUME TypeOK, SchedInv, NEW p \in Pids, schedule(p)
    PROVE  TypeOK' /\ SchedInv'
  <1>1. PICK l \in AfterSchedule(pc[p]) : pc' = [pc EXCEPT ![p] = l]
    BY DEF schedule, Goto
  <1>2. /\ pc[p] = "read_sched" => l = "read_test"
        /\ pc[p] = "wait_sched" => l = "wait_done"
        /\ pc[p] = "exec_sched" => l = "kt_ready"
        /\ pc[p] = "exec_stray" => l \in {"ret", "fault"}
        /\ pc[p] = "exit_sched" => l = "dead"
        /\ pc[p] = "idle" => l = "idle"
        /\ pc[p] \in {"alarm_sched", "yield"} => l = "ret"
        /\ pc[p] \in Blocked
    BY <1>1 DEF AfterSchedule, schedule
  <1>3. l \in PCs /\ pc[p] # "fork_run" /\ l # "fork_run"
    BY <1>2 DEF Blocked, PCs
  <1>4. /\ \A q \in Pids : pc'[q] = IF q = p THEN l ELSE pc[q]
        /\ UNCHANGED <<processq, active, prev_pid, status, waiting_on_stdin,
                       waiting_on_pid, waiting_on_clock, arg>>
        /\ phase' = "switch" /\ phase = "run" /\ active = p
        /\ Queued' = Queued
    BY <1>1 DEF schedule, Executes, Queued, TypeOK, pcbVars
  <1>5. TypeOK'
    BY <1>1, <1>3 DEF schedule, TypeOK, pcbVars, irqVars
  <1>6. OnePlace'
    BY <1>3, <1>4 DEF SchedInv, OnePlace, Embryo
  <1>7. PidsInOrder'
    BY <1>2, <1>4 DEF SchedInv, PidsInOrder, OnlyLiveRun, Runnable
  <1>8. EmbryosApart'
    BY <1>3, <1>4 DEF SchedInv, EmbryosApart
  <1>9. StatusAtPlace'
    BY <1>2, <1>4 DEF SchedInv, StatusAtPlace, StatusAt, OnlyLiveRun, Blocked, Runnable
  <1>10. ReasonsAtPlace'
    BY <1>2, <1>4 DEF SchedInv, ReasonsAtPlace, ReasonAt, Blocks, Blocked
  <1>11. DeathsAnnounced'
    BY <1>2, <1>4 DEF SchedInv, DeathsAnnounced, DeathAt, Blocked
  <1>12. OnlyLiveRun'
    BY <1>4 DEF OnlyLiveRun
  <1> QED BY <1>5, <1>6, <1>7, <1>8, <1>9, <1>10, <1>11, <1>12 DEF SchedInv

(* One level of get_next_context moves the active process to the tail and   *)
(* the head out of the queue.                                               *)
LEMMA get_next_contextStep ==
    ASSUME TypeOK, SchedInv, get_next_context
    PROVE  TypeOK' /\ SchedInv'
  <1> DEFINE q == enqueue_process(processq, active)
  <1>1. /\ q \in Seq(Pids)
        /\ NoDuplicates(q)
        /\ Elems(q) = IF status[active] = "FINISHED" THEN Queued ELSE Queued \cup {active}
    BY AppendElems DEF enqueue_process, Queued, TypeOK, SchedInv, OnePlace
  <1>2. UNCHANGED <<prev_pid, status, waiting_on_stdin, waiting_on_pid, waiting_on_clock,
                    pc, arg, fresh, tmr, user_ie, ie, irq0, alarm_ticks, input_count>>
    BY DEF get_next_context, pcbVars, flowVars
  <1>3. CASE q = << >>
    <2>1. halted' = TRUE /\ UNCHANGED <<processq, active, phase, time_slice>>
      BY <1>3 DEF get_next_context
    <2>2. TypeOK'
      BY <1>2, <2>1 DEF TypeOK
    <2>3. Queued' = Queued
      BY <2>1 DEF Queued
    <2>4. OnePlace' /\ PidsInOrder' /\ EmbryosApart'
      BY <1>2, <2>1, <2>3 DEF SchedInv, OnePlace, Embryo, PidsInOrder, EmbryosApart
    <2>5. StatusAtPlace' /\ ReasonsAtPlace' /\ DeathsAnnounced' /\ OnlyLiveRun'
      BY <1>2, <2>1 DEF SchedInv, StatusAtPlace, StatusAt, ReasonsAtPlace, ReasonAt, Blocks,
                        DeathsAnnounced, DeathAt, OnlyLiveRun
    <2> QED BY <2>2, <2>4, <2>5 DEF SchedInv
  <1>4. CASE q # << >>
    <2>1. /\ processq' = Tail(q) /\ active' = Head(q) /\ halted' = halted
          /\ phase' = IF status[Head(q)] \in Runnable THEN "run" ELSE "switch"
          /\ time_slice' = IF status[Head(q)] \in Runnable THEN 0 ELSE time_slice
      BY <1>4 DEF get_next_context
    <2>2. /\ processq' \in Seq(Pids) /\ active' \in Pids
          /\ NoDuplicates(processq')
          /\ active' \in Elems(q) /\ Queued' = Elems(q) \ {active'}
      BY <1>1, <1>4, <2>1, TailElems DEF Queued
    <2> HIDE DEF q
    <2>3. TypeOK'
      BY <1>2, <2>1, <2>2, TickAssumption DEF TypeOK
    <2>4. OnePlace'
      <3>1. \A c \in Pids : Embryo(c) => Embryo(c)'
        BY <1>2 DEF Embryo
      <3> QED BY <1>1, <1>2, <2>2, <3>1 DEF SchedInv, OnePlace
    <2>5. PidsInOrder'
      BY <1>1, <1>2, <2>2 DEF SchedInv, PidsInOrder
    <2>6. EmbryosApart'
      BY <1>1, <1>2, <2>2 DEF SchedInv, EmbryosApart
    <2>7. StatusAtPlace' /\ ReasonsAtPlace' /\ DeathsAnnounced'
      BY <1>2
         DEF SchedInv, StatusAtPlace, StatusAt, ReasonsAtPlace, ReasonAt, Blocks,
             DeathsAnnounced, DeathAt
    <2>8. OnlyLiveRun'
      BY <1>2, <2>1 DEF OnlyLiveRun
    <2> QED BY <2>3, <2>4, <2>5, <2>6, <2>7, <2>8 DEF SchedInv
  <1> QED BY <1>3, <1>4
-----------------------------------------------------------------------------
(* The invariant holds after init(). *)
LEMMA InitInv == Init => TypeOK /\ SchedInv
  <1> SUFFICES ASSUME Init PROVE TypeOK /\ SchedInv
    OBVIOUS
  <1> USE PidFacts DEF Init
  <1>1. /\ processq \in Seq(Pids) /\ Queued = {Shell} /\ NoDuplicates(processq)
    BY DEF Queued, Elems, NoDuplicates
  <1>2. TypeOK
    <2>1. status \in [Pids -> Statuses] /\ pc \in [Pids -> PCs]
      BY DEF Statuses, PCs, Blocked
    <2>2. /\ waiting_on_stdin \in [Pids -> BOOLEAN] /\ fresh \in [Pids -> BOOLEAN]
          /\ tmr \in [Pids -> BOOLEAN] /\ user_ie \in [Pids -> BOOLEAN]
      OBVIOUS
    <2>3. /\ waiting_on_clock \in [Pids -> Int]
          /\ time_slice \in 0..TIME_SLICE_LIMIT
          /\ alarm_ticks \in 0..(ALARM_TICK_DIVIDE - 1)
          /\ input_count \in Int
      BY TickAssumption DEF NoAlarm
    <2> QED BY <1>1, <2>1, <2>2, <2>3 DEF TypeOK
  <1>3. OnePlace
    BY <1>1 DEF OnePlace
  <1>4. PidsInOrder
    BY <1>1, PidAssumption DEF PidsInOrder, Pids, Idle, Shell
  <1>5. EmbryosApart /\ StatusAtPlace
    BY DEF EmbryosApart, StatusAtPlace, StatusAt
  <1>6. ReasonsAtPlace /\ DeathsAnnounced /\ OnlyLiveRun
    BY DEF ReasonsAtPlace, ReasonAt, DeathsAnnounced, DeathAt, OnlyLiveRun, Runnable
  <1> QED BY <1>2, <1>3, <1>4, <1>5, <1>6 DEF SchedInv

(* Nothing changes. *)
LEMMA StutterStep ==
    ASSUME TypeOK, SchedInv, UNCHANGED vars
    PROVE  TypeOK' /\ SchedInv'
  <1> USE DEF vars, queueVars, pcbVars, flowVars, irqVars
  <1>1. TypeOK'
    BY DEF TypeOK
  <1>2. OnePlace' /\ PidsInOrder' /\ EmbryosApart'
    BY DEF SchedInv, OnePlace, Embryo, PidsInOrder, EmbryosApart, Queued
  <1>3. StatusAtPlace' /\ ReasonsAtPlace' /\ DeathsAnnounced' /\ OnlyLiveRun'
    BY
       DEF SchedInv, StatusAtPlace, StatusAt, ReasonsAtPlace, ReasonAt, Blocks,
           DeathsAnnounced, DeathAt, OnlyLiveRun
  <1> QED BY <1>1, <1>2, <1>3 DEF SchedInv

(* Every step preserves the invariant. *)
LEMMA NextInv == TypeOK /\ SchedInv /\ [Next]_vars => TypeOK' /\ SchedInv'
  <1> SUFFICES ASSUME TypeOK, SchedInv, [Next]_vars PROVE TypeOK' /\ SchedInv'
    OBVIOUS
  <1>1. ASSUME NEW p \in Pids, UserStep(p) PROVE TypeOK' /\ SchedInv'
    BY <1>1, DoReadStep, DoYieldStep, DoForkStep, DoExecveStep, DoExitStep,
       OtherSyscallStep, BadSyscallStep, FaultStep, DoWaitpidStep, DoKillStep,
       DoAlarmStep DEF UserStep
  <1>2. ASSUME NEW p \in Pids, KernelStep(p) PROVE TypeOK' /\ SchedInv'
    BY <1>2, ReturnStep, ReadTestStep, ReadBlockStep, ReadFlagStep, ReadCopyStep,
       WaitBlockStep, AlarmBlockStep, ForkRunStep, ExecPlantStep, StrayReturnStep,
       KtReadyStep, KtPrepareStep, KtCheckStep, ExitNotifyStep, KillNotifyStep,
       scheduleStep, TimerReturnStep DEF KernelStep, QuietStep
  <1>3. ASSUME NEW p \in Pids, Spin(p) PROVE TypeOK' /\ SchedInv'
    BY <1>3, StutterStep DEF Spin
  <1>4. CASE get_next_context
    BY <1>4, get_next_contextStep
  <1>5. CASE Interrupt
    <2>1. ASSUME NEW p \in Pids, Preempt(p) PROVE TypeOK' /\ SchedInv'
      BY <2>1, PreemptStep
    <2>2. CASE Tick
      BY <2>2, TickStep
    <2>3. CASE NestedSchedule
      BY <2>3, NestedScheduleStep
    <2>4. CASE Newline
      BY <2>4, NewlineStep
    <2> QED BY <1>5, <2>1, <2>2, <2>3, <2>4 DEF Interrupt
  <1>6. CASE Halted \/ UNCHANGED vars
    BY <1>6, StutterStep DEF Halted
  <1> QED BY <1>1, <1>2, <1>3, <1>4, <1>5, <1>6 DEF Next

(* Every reachable state of the scheduler satisfies the inductive invariant, *)
(* for any number of processes, slice length, alarm period and set of        *)
(* targets.                                                                  *)
THEOREM SchedulerInvariant == Spec => [](TypeOK /\ SchedInv)
  BY InitInv, NextInv, PTL DEF Spec

(* TypeOK: the variables keep their types. *)
THEOREM TypeCorrect == Spec => []TypeOK
  BY SchedulerInvariant, PTL

(* OnePlace: enqueue_process, get_next_context, do_fork and do_exit never    *)
(* lose a process or queue it twice.                                         *)
THEOREM OnePlaceAlways == Spec => []OnePlace
  <1>1. SchedInv => OnePlace
    BY DEF SchedInv
  <1> QED BY <1>1, SchedulerInvariant, PTL

(* OnlyLiveRun: the CPU is given to runnable processes only. *)
THEOREM OnlyLiveRunAlways == Spec => []OnlyLiveRun
  <1>1. SchedInv => OnlyLiveRun
    BY DEF SchedInv
  <1> QED BY <1>1, SchedulerInvariant, PTL

(* NoPanic: the "extra check" of k_thread_kernel never fails. *)
THEOREM NoPanicAlways == Spec => []NoPanic
  <1>1. TypeOK /\ SchedInv => NoPanic
    BY
       DEF TypeOK, SchedInv, OnlyLiveRun, StatusAtPlace, StatusAt, NoPanic, Panics, At,
           Executes, Runnable
  <1> QED BY <1>1, SchedulerInvariant, PTL

(* WaitReturnsAfterExit: do_waitpid returns only after the death of the       *)
(* process it was asked about.                                               *)
THEOREM WaitReturnsAfterExitAlways == Spec => []WaitReturnsAfterExit
  <1>1. TypeOK /\ SchedInv => WaitReturnsAfterExit
    BY
       DEF TypeOK, SchedInv, OnlyLiveRun, DeathsAnnounced, DeathAt, WaitReturnsAfterExit,
           At, Executes
  <1> QED BY <1>1, SchedulerInvariant, PTL

-----------------------------------------------------------------------------
(* FinishedForever: no step changes the status of a FINISHED process.  A     *)
(* system call stores its own status only while it executes, and then it is  *)
(* not FINISHED; the notify loops only touch WAITING ones.                   *)
LEMMA FinishedStep ==
    ASSUME TypeOK, SchedInv, [Next]_vars, NEW q \in Pids, status[q] = "FINISHED"
    PROVE  status'[q] = "FINISHED"
  <1> USE DEF TypeOK
  <1>1. \A S : Wake(status, Woken(S))[q] = "FINISHED"
    BY WakeFacts
  <1>2. \A p \in Pids : \A l \in PCs \ {"exit_notify", "exit_sched"} : At(p, l) => p # q
    BY DEF At, Executes, SchedInv, OnlyLiveRun, Runnable
  <1>3. prev_pid + 1 # q
    BY DEF SchedInv, PidsInOrder, Pids
  <1>4. ASSUME NEW p \in Pids,
               \/ ReadBlock(p) \/ WaitBlock(p) \/ AlarmBlock(p) \/ ExecPlant(p) \/ KtPrepare(p)
        PROVE  status'[q] = "FINISHED"
    BY <1>2, <1>4 DEF ReadBlock, WaitBlock, AlarmBlock, ExecPlant, KtPrepare, SetStatus, PCs
  <1>5. ASSUME NEW p \in Pids, DoFork(p) \/ DoExit(p) PROVE status'[q] = "FINISHED"
    BY <1>3, <1>5 DEF DoFork, DoExit, SetStatus
  <1>6. ASSUME NEW p \in Pids, NEW t \in Killable, DoKill(p, t) PROVE status'[q] = "FINISHED"
    BY <1>6 DEF DoKill
  <1>7. ASSUME NEW p \in Pids, ExitNotify(p) \/ KillNotify(p) PROVE status'[q] = "FINISHED"
    BY <1>1, <1>7 DEF ExitNotify, KillNotify, notify_exit_pid
  <1>8. ASSUME Tick \/ Newline \/ \E p \in Pids : Preempt(p) PROVE status'[q] = "FINISHED"
    BY <1>1, <1>8 DEF Tick, Newline, Preempt, tick_count
  <1>9. ASSUME NEW p \in Pids,
               \/ Return(p) \/ ReadTest(p) \/ ReadFlag(p) \/ ReadCopy(p) \/ ForkRun(p)
               \/ StrayReturn(p) \/ KtReady(p) \/ KtCheck(p) \/ schedule(p) \/ TimerReturn(p)
               \/ DoRead(p) \/ DoYield(p) \/ DoExecve(p) \/ OtherSyscall(p) \/ BadSyscall(p)
               \/ Fault(p) \/ Spin(p)
               \/ \E t \in Awaited : DoWaitpid(p, t)
               \/ \E n \in SleepTicks : DoAlarm(p, n)
        PROVE  UNCHANGED status
    BY <1>9 DEF Return, ReadTest, ReadFlag, ReadCopy, ForkRun, StrayReturn, KtReady, KtCheck,
                schedule, TimerReturn, DoRead, DoYield, DoExecve, OtherSyscall, BadSyscall,
                Fault, Spin, DoWaitpid, DoAlarm, pcbVars, vars
  <1>10. ASSUME get_next_context \/ NestedSchedule \/ Halted \/ UNCHANGED vars
         PROVE  UNCHANGED status
    BY <1>10 DEF get_next_context, NestedSchedule, Halted, pcbVars, vars
  <1> QED BY <1>4, <1>5, <1>6, <1>7, <1>8, <1>9, <1>10
          DEF Next, UserStep, KernelStep, QuietStep, Interrupt

(* No handler, tick or notification gives a finished process another status. *)
THEOREM FinishedForeverHolds == Spec => FinishedForever
  <1>1. TypeOK /\ SchedInv /\ [Next]_vars =>
            [\A p \in Pids : status[p] = "FINISHED" => status'[p] = "FINISHED"]_vars
    BY FinishedStep
  <1> QED BY <1>1, SchedulerInvariant, PTL DEF Spec, FinishedForever

(* AckOwed: whoever is preempted owes the acknowledgement of the tick that   *)
(* preempted it, and the interrupt is in service no longer than the last of  *)
(* these debts.                                                              *)
LEMMA AckStep == TypeOK /\ AckOwed /\ [Next]_vars => AckOwed'
  <1> SUFFICES ASSUME TypeOK, AckOwed, [Next]_vars PROVE AckOwed'
    OBVIOUS
  <1>1. ASSUME NEW p \in Pids, Preempt(p) PROVE AckOwed'
    BY <1>1 DEF Preempt, AckOwed, TypeOK
  <1>2. ASSUME NEW p \in Pids, TimerReturn(p) PROVE AckOwed'
    BY <1>2 DEF TimerReturn, AckOwed
  <1>3. ASSUME NEW p \in Pids, UserStep(p) PROVE UNCHANGED <<irq0, tmr>>
    BY <1>3 DEF UserStep, DoRead, DoYield, DoFork, DoExecve, DoExit, OtherSyscall, BadSyscall,
                Fault, DoWaitpid, DoKill, DoAlarm, flowVars, irqVars
  <1>4. ASSUME NEW p \in Pids, KernelStep(p), ~TimerReturn(p) PROVE UNCHANGED <<irq0, tmr>>
    BY <1>4 DEF KernelStep, QuietStep, Return, ReadTest, ReadBlock, ReadFlag, ReadCopy, WaitBlock,
                AlarmBlock, ForkRun, ExecPlant, StrayReturn, KtReady, KtPrepare, KtCheck,
                ExitNotify, KillNotify, schedule, flowVars, irqVars
  <1>5. ASSUME \/ Tick \/ Newline \/ NestedSchedule \/ get_next_context \/ Halted
               \/ UNCHANGED vars \/ \E p \in Pids : Spin(p)
        PROVE  UNCHANGED <<irq0, tmr>>
    BY <1>5 DEF Tick, Newline, NestedSchedule, get_next_context, Halted, Spin, vars,
                flowVars, irqVars
  <1>6. ASSUME UNCHANGED <<irq0, tmr>> PROVE AckOwed'
    BY <1>6 DEF AckOwed
  <1> QED BY <1>1, <1>2, <1>3, <1>4, <1>5, <1>6 DEF Next, Interrupt

(* AckOwed in every reachable state. *)
THEOREM AckOwedAlways == Spec => []AckOwed
  <1>1. Init => AckOwed
    BY DEF Init, AckOwed
  <1> QED BY <1>1, AckStep, TypeCorrect, PTL DEF Spec
-----------------------------------------------------------------------------
(* Scheduler implements ProcessLifecycle, from the inductive invariant: one   *)
(* lemma for each kind of step, by what it does to the abstract state.       *)

(* A notify loop only turns WAITING processes into RUNNING ones. *)
LEMMA WakeSameLife ==
    ASSUME TypeOK, SchedInv, NEW S, status' = Wake(status, Woken(S))
    PROVE  lifeOf' = lifeOf
  BY WakeFacts DEF lifeOf

(* The places of do_waitpid. *)
Waits == {"wait_block", "wait_sched", "wait_done"}

(* A step of one process that neither enters nor leaves do_waitpid. *)
LEMMA SameAwaits ==
    ASSUME TypeOK, NEW p \in Pids, NEW l, pc' = [pc EXCEPT ![p] = l],
           (pc[p] \in Waits /\ l \in Waits) \/ (pc[p] \notin Waits /\ l \notin Waits),
           \A q \in Pids : pc[q] \in Waits => arg'[q] = arg[q]
    PROVE  awaitsOf' = awaitsOf
  BY DEF TypeOK, Waits, awaitsOf

(* The initial states correspond. *)
LEMMA InitLife == Init => Life!LifeInit
  BY PidFacts
     DEF Init, Life!LifeInit, Life!LifePids, lifeOf, runningPid, awaitsOf, Pids, Idle,
         Shell

(* do_fork creates the process with the smallest unused pid. *)
LEMMA ForkLife ==
    ASSUME TypeOK, SchedInv, NEW p \in Pids, DoFork(p)
    PROVE  Life!Create
  <1> DEFINE child == prev_pid + 1
  <1>1. child \in Pids /\ child # p /\ p <= prev_pid
    BY PidAssumption DEF DoFork, At, Executes, TypeOK, SchedInv, PidsInOrder, Pids
  <1>2. pc[p] = "user" /\ pc[child] = "dead" /\ runningPid = p /\ runningPid' = p
    BY <1>1 DEF DoFork, At, Executes, runningPid, SchedInv, PidsInOrder, TypeOK, Pids
  <1>3. \A q \in Pids : lifeOf[q] = "none" <=> q >= child
    BY DEF lifeOf, SchedInv, PidsInOrder, TypeOK, Pids
  <1>4. lifeOf' = [lifeOf EXCEPT ![child] = "alive"]
    BY <1>1 DEF DoFork, lifeOf, TypeOK
  <1>5. awaitsOf' = awaitsOf
    BY <1>1, <1>2 DEF DoFork, awaitsOf, TypeOK
  <1>6. p # 0 /\ Life!LifePids = Pids
    BY PidFacts DEF NoPid, Life!LifePids, Pids
  <1> HIDE DEF child
  <1> QED BY <1>1, <1>2, <1>3, <1>4, <1>5, <1>6 DEF Life!Create

(* The steps at which the CPU changes hands, a process dies, or a waitpid     *)
(* begins or ends.                                                           *)
LEMMA DeathLife ==
    ASSUME TypeOK, SchedInv, NEW p \in Pids, NEW t \in Pids, Executes(p), NEW l,
           pc' = [pc EXCEPT ![p] = l], pc[p] = "user", l \notin Waits,
           status[t] # "NONE", status' = [status EXCEPT ![t] = "FINISHED"],
           \A q \in Pids \ {p} : arg'[q] = arg[q],
           UNCHANGED <<active, phase, halted>>
    PROVE  Life!Die(t)
  <1>1. runningPid = p /\ runningPid' = p /\ p # 0
    BY PidFacts DEF Executes, runningPid, NoPid
  <1>2. lifeOf' = [lifeOf EXCEPT ![t] = "dead"] /\ lifeOf[t] # "none"
    BY DEF lifeOf, TypeOK
  <1>3. awaitsOf' = awaitsOf
    BY SameAwaits DEF Waits
  <1> QED BY <1>1, <1>2, <1>3 DEF Life!Die

(* do_exit is the death of the caller. *)
LEMMA ExitLife ==
    ASSUME TypeOK, SchedInv, NEW p \in Pids, DoExit(p)
    PROVE  Life!Die(p)
  <1>1. status[p] # "NONE"
    BY DEF DoExit, Enter, At, SchedInv, PidsInOrder
  <1> QED BY <1>1, DeathLife DEF DoExit, Enter, At, Goto, SetStatus, Waits, queueVars

(* do_kill is the death of a queued target, and nothing otherwise. *)
LEMMA KillLife ==
    ASSUME TypeOK, SchedInv, NEW p \in Pids, NEW t \in Killable, DoKill(p, t)
    PROVE  Life!Die(t) \/ UNCHANGED <<lifeOf, runningPid, awaitsOf>>
  <1>1. t \in Pids
    BY TargetAssumption DEF Pids
  <1>2. CASE t \in Queued
    <2>1. status[t] # "NONE"
      BY <1>1, <1>2 DEF SchedInv, PidsInOrder, TypeOK, Pids
    <2> QED BY <1>1, <1>2, <2>1, DeathLife
            DEF DoKill, Enter, At, Goto, Waits, queueVars, TypeOK
  <1>3. CASE t \notin Queued
    <2>1. UNCHANGED <<lifeOf, runningPid>>
      BY <1>3 DEF DoKill, lifeOf, runningPid, queueVars
    <2>2. UNCHANGED awaitsOf
      BY <1>3, SameAwaits DEF DoKill, Enter, At, Goto, Waits, TypeOK
    <2> QED BY <2>1, <2>2
  <1> QED BY <1>2, <1>3

(* do_waitpid begins to wait. *)
LEMMA WaitLife ==
    ASSUME TypeOK, NEW p \in Pids, NEW t \in Awaited, DoWaitpid(p, t)
    PROVE  Life!Wait(p, t)
  <1>1. runningPid = p /\ runningPid' = p /\ UNCHANGED lifeOf
    BY DEF DoWaitpid, Enter, At, Executes, runningPid, lifeOf, queueVars
  <1>2. awaitsOf[p] = 0 /\ awaitsOf' = [awaitsOf EXCEPT ![p] = t]
    BY DEF DoWaitpid, Enter, At, Goto, awaitsOf, TypeOK
  <1> QED BY <1>1, <1>2 DEF Life!Wait

(* A return from do_waitpid finds the awaited process dead. *)
LEMMA ReturnLife ==
    ASSUME TypeOK, SchedInv, NEW p \in Pids, Return(p)
    PROVE  Life!WaitReturn(p) \/ UNCHANGED <<lifeOf, runningPid, awaitsOf>>
  <1>1. runningPid = p /\ runningPid' = p /\ UNCHANGED lifeOf
    BY DEF Return, At, Executes, runningPid, lifeOf, queueVars, pcbVars
  <1>2. CASE At(p, "ret")
    <2>1. UNCHANGED awaitsOf
      BY <1>2, SameAwaits DEF Return, At, Goto, Waits, TypeOK
    <2> QED BY <1>1, <2>1
  <1>3. CASE At(p, "wait_done")
    <2>1. arg[p] \in Pids /\ status[arg[p]] = "FINISHED"
      BY <1>3
         DEF At, Executes, SchedInv, OnlyLiveRun, DeathsAnnounced, DeathAt,
             ReasonsAtPlace, ReasonAt
    <2>2. awaitsOf[p] = arg[p] /\ awaitsOf[p] # 0 /\ lifeOf[awaitsOf[p]] = "dead"
      BY <1>3, <2>1, PidFacts DEF At, awaitsOf, lifeOf, NoPid
    <2>3. awaitsOf' = [awaitsOf EXCEPT ![p] = 0]
      BY <1>3 DEF Return, Goto, awaitsOf, TypeOK
    <2> QED BY <1>1, <2>2, <2>3 DEF Life!WaitReturn
  <1> QED BY <1>2, <1>3 DEF Return

(* get_next_context gives the CPU to a living process, if it ends. *)
LEMMA SwitchLife ==
    ASSUME TypeOK, SchedInv, get_next_context
    PROVE  (\E p \in Pids : Life!Dispatch(p)) \/ UNCHANGED <<lifeOf, runningPid, awaitsOf>>
  <1>1. UNCHANGED <<lifeOf, awaitsOf>> /\ runningPid = 0
    BY DEF get_next_context, pcbVars, flowVars, lifeOf, awaitsOf, runningPid
  <1>2. active' \in Pids
    BY get_next_contextStep DEF TypeOK
  <1>3. CASE runningPid' = 0
    BY <1>1, <1>3
  <1>4. CASE runningPid' # 0
    <2>1. runningPid' = active' /\ status[active'] \in Runnable
      BY <1>4 DEF runningPid, get_next_context
    <2>2. lifeOf[active'] = "alive"
      BY <1>2, <2>1 DEF lifeOf, Runnable
    <2> QED BY <1>1, <1>2, <2>1, <2>2 DEF Life!Dispatch
  <1> QED BY <1>3, <1>4

(* The steps that take the CPU away. *)
LEMMA ReleaseLife ==
    ASSUME TypeOK, SchedInv, NEW p \in Pids,
           schedule(p) \/ Preempt(p) \/ Fault(p) \/ StrayReturn(p) \/ NestedSchedule
    PROVE  Life!Release
  <1>1. CASE schedule(p)
    <2>1. runningPid' = 0 /\ UNCHANGED lifeOf
      BY <1>1 DEF schedule, runningPid, lifeOf, pcbVars
    <2>2. PICK l \in AfterSchedule(pc[p]) : pc' = [pc EXCEPT ![p] = l]
      BY <1>1 DEF schedule, Goto
    <2>3. (pc[p] \in Waits /\ l \in Waits) \/ (pc[p] \notin Waits /\ l \notin Waits)
      BY <1>1, <2>2 DEF schedule, AfterSchedule, Blocked, Waits
    <2>4. UNCHANGED awaitsOf
      BY <1>1, <2>2, <2>3, SameAwaits DEF schedule
    <2> QED BY <2>1, <2>4 DEF Life!Release
  <1>2. CASE Preempt(p)
    <2>1. runningPid' = 0 /\ UNCHANGED awaitsOf
      BY <1>2 DEF Preempt, runningPid, awaitsOf
    <2>2. UNCHANGED lifeOf
      BY <1>2, WakeSameLife DEF Preempt, tick_count
    <2> QED BY <2>1, <2>2 DEF Life!Release
  <1>3. CASE Fault(p) \/ StrayReturn(p) \/ NestedSchedule
    BY <1>3 DEF Fault, StrayReturn, NestedSchedule, pcbVars, flowVars,
                Life!Release, runningPid, lifeOf, awaitsOf
  <1> QED BY <1>1, <1>2, <1>3

(* Steps inside one system call, and interrupts that return to what they      *)
(* interrupted.                                                              *)
LEMMA QuietCalls ==
    ASSUME TypeOK, SchedInv, NEW p \in Pids,
           \/ OtherSyscall(p) \/ BadSyscall(p) \/ DoRead(p) \/ DoYield(p) \/ DoExecve(p)
           \/ ReadTest(p) \/ ReadFlag(p) \/ ReadCopy(p) \/ ForkRun(p) \/ KtReady(p)
           \/ \E n \in SleepTicks : DoAlarm(p, n)
    PROVE  UNCHANGED <<lifeOf, runningPid, awaitsOf>>
  <1> USE DEF OtherSyscall, BadSyscall, DoRead, DoYield, DoExecve, ReadTest, ReadFlag,
              ReadCopy, ForkRun, KtReady, DoAlarm
  <1>1. UNCHANGED <<lifeOf, runningPid>>
    BY DEF lifeOf, runningPid, queueVars, pcbVars
  <1>2. UNCHANGED awaitsOf
    BY DEF Enter, At, Goto, TypeOK, awaitsOf
  <1> QED BY <1>1, <1>2

(* A status stored by a running process keeps it alive. *)
LEMMA QuietStatus ==
    ASSUME TypeOK, SchedInv, NEW p \in Pids,
           \/ ReadBlock(p) \/ WaitBlock(p) \/ AlarmBlock(p) \/ ExecPlant(p) \/ KtPrepare(p)
    PROVE  UNCHANGED <<lifeOf, runningPid, awaitsOf>>
  <1> USE DEF ReadBlock, WaitBlock, AlarmBlock, ExecPlant, KtPrepare
  <1>1. UNCHANGED runningPid
    BY DEF runningPid, queueVars
  <1>2. status[p] \in Runnable
    BY DEF At, Executes, SchedInv, OnlyLiveRun
  <1>3. UNCHANGED lifeOf
    BY <1>2 DEF SetStatus, Runnable, TypeOK, lifeOf
  <1>4. UNCHANGED awaitsOf
    BY DEF At, Goto, TypeOK, awaitsOf
  <1> QED BY <1>1, <1>3, <1>4

(* An announcement wakes, it neither creates nor kills. *)
LEMMA QuietNotify ==
    ASSUME TypeOK, SchedInv, NEW p \in Pids, ExitNotify(p) \/ KillNotify(p)
    PROVE  UNCHANGED <<lifeOf, runningPid, awaitsOf>>
  <1> USE DEF ExitNotify, KillNotify
  <1>1. UNCHANGED runningPid
    BY DEF runningPid, queueVars
  <1>2. UNCHANGED lifeOf
    BY WakeSameLife DEF notify_exit_pid
  <1>3. UNCHANGED awaitsOf
    BY DEF At, Goto, TypeOK, awaitsOf
  <1> QED BY <1>1, <1>2, <1>3

(* k_thread_kernel does not panic, so the process keeps the CPU. *)
LEMMA QuietRing3 ==
    ASSUME TypeOK, SchedInv, NEW p \in Pids, KtCheck(p) \/ TimerReturn(p) \/ Spin(p)
    PROVE  UNCHANGED <<lifeOf, runningPid, awaitsOf>>
  <1>1. CASE KtCheck(p)
    <2>1. ~Panics(p)
      BY DEF TypeOK, SchedInv, OnlyLiveRun, StatusAtPlace, StatusAt, Panics, At, Executes, Runnable
    <2>2. UNCHANGED <<lifeOf, runningPid>>
      BY <1>1, <2>1 DEF KtCheck, At, Executes, lifeOf, runningPid, queueVars, pcbVars
    <2>3. UNCHANGED awaitsOf
      BY <1>1 DEF KtCheck, At, Goto, TypeOK, awaitsOf
    <2> QED BY <2>2, <2>3
  <1>2. CASE TimerReturn(p) \/ Spin(p)
    BY <1>2 DEF TimerReturn, Spin, vars, queueVars, pcbVars, flowVars, lifeOf, runningPid, awaitsOf
  <1> QED BY <1>1, <1>2

(* An interrupt that returns. *)
LEMMA QuietInterrupts ==
    ASSUME TypeOK, SchedInv, Tick \/ Newline \/ Halted \/ UNCHANGED vars
    PROVE  UNCHANGED <<lifeOf, runningPid, awaitsOf>>
  <1>1. UNCHANGED <<active, phase, halted, pc, arg>>
    BY DEF Tick, Newline, Halted, vars, queueVars, flowVars
  <1>2. UNCHANGED <<runningPid, awaitsOf>>
    BY <1>1 DEF runningPid, awaitsOf
  <1>3. UNCHANGED lifeOf
    BY WakeSameLife DEF Tick, Newline, Halted, tick_count, vars, pcbVars, lifeOf
  <1> QED BY <1>2, <1>3

(* Every step of the scheduler is a step of ProcessLifecycle or a stutter. *)
LEMMA LifeStep ==
    ASSUME TypeOK, SchedInv, [Next]_vars
    PROVE  [Life!LifeNext]_(Life!lifeVars)
  <1>1. Pids = Life!LifePids
    BY DEF Pids, Life!LifePids
  <1>2. ASSUME UNCHANGED <<lifeOf, runningPid, awaitsOf>> PROVE UNCHANGED Life!lifeVars
    BY <1>2 DEF Life!lifeVars
  <1>3. ASSUME NEW p \in Pids, UserStep(p) PROVE Life!LifeNext \/ UNCHANGED Life!lifeVars
    <2>1. ASSUME NEW t \in Awaited, DoWaitpid(p, t) PROVE Life!LifeNext
      BY <1>1, <2>1, WaitLife, TargetAssumption DEF Life!LifeNext, Pids
    <2>2. ASSUME NEW t \in Killable, DoKill(p, t) PROVE Life!LifeNext \/ UNCHANGED Life!lifeVars
      BY <1>1, <1>2, <2>2, KillLife, TargetAssumption DEF Life!LifeNext, Pids
    <2>3. CASE DoFork(p) \/ DoExit(p) \/ Fault(p)
      BY <1>1, <2>3, ForkLife, ExitLife, ReleaseLife DEF Life!LifeNext
    <2>4. CASE \/ OtherSyscall(p) \/ BadSyscall(p) \/ DoRead(p) \/ DoYield(p) \/ DoExecve(p)
               \/ \E n \in SleepTicks : DoAlarm(p, n)
      BY <1>2, <2>4, QuietCalls
    <2> QED BY <1>3, <2>1, <2>2, <2>3, <2>4 DEF UserStep
  <1>4. ASSUME NEW p \in Pids, KernelStep(p) PROVE Life!LifeNext \/ UNCHANGED Life!lifeVars
    <2>1. CASE Return(p)
      BY <1>1, <1>2, <2>1, ReturnLife DEF Life!LifeNext
    <2>2. CASE schedule(p) \/ StrayReturn(p)
      BY <2>2, ReleaseLife DEF Life!LifeNext
    <2>3. CASE ReadTest(p) \/ ReadFlag(p) \/ ReadCopy(p) \/ ForkRun(p) \/ KtReady(p)
      BY <1>2, <2>3, QuietCalls
    <2>4. CASE \/ ReadBlock(p) \/ WaitBlock(p) \/ AlarmBlock(p) \/ ExecPlant(p) \/ KtPrepare(p)
      BY <1>2, <2>4, QuietStatus
    <2>5. CASE ExitNotify(p) \/ KillNotify(p) \/ KtCheck(p) \/ TimerReturn(p)
      BY <1>2, <2>5, QuietNotify, QuietRing3
    <2> QED BY <1>4, <2>1, <2>2, <2>3, <2>4, <2>5 DEF KernelStep, QuietStep
  <1>5. CASE get_next_context
    BY <1>1, <1>2, <1>5, SwitchLife DEF Life!LifeNext
  <1>6. CASE Interrupt
    <2>1. ASSUME NEW p \in Pids, Preempt(p) \/ NestedSchedule PROVE Life!LifeNext
      BY <2>1, ReleaseLife DEF Life!LifeNext
    <2>2. CASE Tick \/ Newline
      BY <1>2, <2>2, QuietInterrupts
    <2> QED BY <1>6, <2>1, <2>2, PidFacts DEF Interrupt
  <1>7. ASSUME NEW p \in Pids, Spin(p) PROVE UNCHANGED Life!lifeVars
    BY <1>2, <1>7, QuietRing3
  <1>8. CASE Halted \/ UNCHANGED vars
    BY <1>2, <1>8, QuietInterrupts
  <1> QED BY <1>3, <1>4, <1>5, <1>6, <1>7, <1>8 DEF Next

(* ImplementsLifecycle: every behaviour of the scheduler is, under the        *)
(* mapping of module Scheduler, one of ProcessLifecycle.                     *)
THEOREM Refinement == Spec => ImplementsLifecycle
  BY InitLife, LifeStep, SchedulerInvariant, PTL DEF Spec, ImplementsLifecycle, Life!LifeSpec
-----------------------------------------------------------------------------
(* The windows of WakeupWindows are the only ones in which a reader or a      *)
(* waiter misses its wakeup, and in which a line is taken twice.             *)

(* A step of WakeupWindows is one of Scheduler. *)
LEMMA WindowStep == [WindowNext]_windowVars => [Next]_vars
  BY DEF WindowNext, windowVars

(* So everything proved of Scheduler holds here. *)
LEMMA WindowSchedInv == WindowSpec => [](TypeOK /\ SchedInv)
  <1>1. WindowInit => Init
    BY DEF WindowInit
  <1>2. WindowSpec => Spec
    BY <1>1, WindowStep, PTL DEF WindowSpec, Spec
  <1> QED BY <1>2, SchedulerInvariant, PTL
-----------------------------------------------------------------------------
(* How a process comes to the places of do_read. *)
ReadPlaces(q) ==
    /\ pc'[q] = "read_copy" =>
          pc[q] = "read_copy" \/ (pc[q] = "read_test" /\ input_count > 0)
    /\ pc'[q] = "read_block" =>
          \/ pc[q] = "read_block"
          \/ pc[q] = "read_test" /\ ~(input_count > 0) /\ input_count' = input_count
    /\ pc'[q] = "read_flag" => pc[q] \in {"read_flag", "read_block"}
    /\ pc'[q] = "read_sched" =>
          pc[q] = "read_sched" \/ (pc[q] = "read_flag" /\ waiting_on_stdin'[q])
    /\ pc'[q] = "read_test" =>
          \/ pc[q] = "read_test"
          \/ pc[q] = "read_sched" /\ UNCHANGED <<status, waiting_on_stdin>>
          \/ status'[q] # "WAITING"

(* How it comes to those of do_waitpid. *)
WaitPlaces(q) ==
    /\ pc'[q] = "wait_block" =>
          \/ /\ pc[q] = "wait_block" /\ arg'[q] = arg[q]
             /\ waiting_on_pid'[q] = waiting_on_pid[q]
          \/ pc[q] = "user" /\ waiting_on_pid'[q] = arg'[q] /\ UNCHANGED status
    /\ pc'[q] = "wait_sched" => pc[q] \in {"wait_block", "wait_sched"} /\ arg'[q] = arg[q]
    /\ pc'[q] = "wait_done" => pc[q] \in {"wait_sched", "wait_done"} /\ arg'[q] = arg[q]

(* A process that waits after the step waited before, or it has just stored  *)
(* WAITING; and its reasons to wait are still there.                         *)
StillWaits(q) ==
    status'[q] = "WAITING" =>
        /\ \/ status[q] = "WAITING"
           \/ pc'[q] # pc[q] /\ pc'[q] \in {"read_flag", "wait_sched", "alarm_sched"}
        /\ pc[q] = "read_flag" \/ waiting_on_stdin'[q] = waiting_on_stdin[q]
        /\ pc[q] = "user" \/ waiting_on_pid'[q] = waiting_on_pid[q]

Moves(q) == ReadPlaces(q) /\ WaitPlaces(q) /\ StillWaits(q)

(* The system calls and the returns from them. *)
LEMMA CallMoves ==
    ASSUME TypeOK, SchedInv, NEW q \in Pids, NEW p \in Pids,
           \/ OtherSyscall(p) \/ BadSyscall(p) \/ Fault(p) \/ DoRead(p) \/ DoYield(p)
           \/ DoExecve(p) \/ DoExit(p)
           \/ \E t \in Awaited : DoWaitpid(p, t)
           \/ \E t \in Killable : DoKill(p, t)
           \/ \E n \in SleepTicks : DoAlarm(p, n)
    PROVE  Moves(q)
  <1>1. At(p, "user") => status[p] # "WAITING"
    BY DEF At, Executes, TypeOK, SchedInv, OnlyLiveRun, Runnable
  <1> QED
    BY <1>1
       DEF OtherSyscall, BadSyscall, Fault, DoRead, DoYield, DoExecve, DoExit, DoWaitpid,
           DoKill, DoAlarm, Enter, At, Executes, Goto, SetStatus, pcbVars, flowVars, TypeOK,
           Moves, ReadPlaces, WaitPlaces, StillWaits

(* The steps of a process inside the kernel. *)
LEMMA KernelMoves ==
    ASSUME TypeOK, SchedInv, NEW q \in Pids, NEW p \in Pids,
           \/ Return(p) \/ ReadTest(p) \/ ReadBlock(p) \/ ReadFlag(p) \/ ReadCopy(p)
           \/ WaitBlock(p) \/ AlarmBlock(p) \/ ForkRun(p) \/ ExecPlant(p) \/ StrayReturn(p)
           \/ KtReady(p) \/ KtPrepare(p) \/ KtCheck(p) \/ TimerReturn(p) \/ Spin(p)
    PROVE  Moves(q)
  BY DEF Return, ReadTest, ReadBlock, ReadFlag, ReadCopy, WaitBlock, AlarmBlock, ForkRun,
         ExecPlant, StrayReturn, KtReady, KtPrepare, KtCheck, TimerReturn, Spin, At, Executes,
         Goto, SetStatus, vars, pcbVars, flowVars, TypeOK, Moves, ReadPlaces, WaitPlaces,
         StillWaits

(* do_fork. *)
LEMMA ForkMoves ==
    ASSUME TypeOK, SchedInv, NEW q \in Pids, NEW p \in Pids, DoFork(p)
    PROVE  Moves(q)
  BY DEF DoFork, At, Executes, TypeOK, Moves, ReadPlaces, WaitPlaces, StillWaits

(* schedule. *)
LEMMA ScheduleMoves ==
    ASSUME TypeOK, SchedInv, NEW q \in Pids, NEW p \in Pids, schedule(p)
    PROVE  Moves(q)
  BY DEF schedule, AfterSchedule, Blocked, Goto, pcbVars, TypeOK, Moves, ReadPlaces,
         WaitPlaces, StillWaits

(* notify_exit_pid, from do_exit and from do_kill. *)
LEMMA NotifyMoves ==
    ASSUME TypeOK, SchedInv, NEW q \in Pids, NEW p \in Pids, ExitNotify(p) \/ KillNotify(p)
    PROVE  Moves(q)
  <1>1. PICK t : notify_exit_pid(t)
    BY DEF ExitNotify, KillNotify
  <1>2. status'[q] = "WAITING" => /\ status[q] = "WAITING"
                                  /\ waiting_on_pid'[q] = waiting_on_pid[q]
    BY <1>1, WakeFacts DEF notify_exit_pid, Cleared
  <1>3. status[q] # "WAITING" => waiting_on_pid'[q] = waiting_on_pid[q]
    BY <1>1, WakeFacts DEF notify_exit_pid, Cleared
  <1>4. pc[q] = "wait_block" => status[q] # "WAITING"
    BY DEF SchedInv, StatusAtPlace, StatusAt
  <1> QED
    BY <1>2, <1>3, <1>4 DEF ExitNotify, KillNotify, At, Goto, TypeOK, Moves, ReadPlaces, WaitPlaces, StillWaits

(* The timer, the keyboard and the switch of processes. *)
LEMMA InterruptMoves ==
    ASSUME TypeOK, SchedInv, NEW q \in Pids,
           \/ Tick \/ Newline \/ NestedSchedule \/ get_next_context \/ Halted
           \/ UNCHANGED vars \/ \E p \in Pids : Preempt(p)
    PROVE  Moves(q)
  <1>1. UNCHANGED <<pc, arg>>
    BY DEF Tick, Newline, NestedSchedule, get_next_context, Halted, Preempt, vars, flowVars
  <1>2. status'[q] = "WAITING" => /\ status[q] = "WAITING"
                                  /\ waiting_on_pid'[q] = waiting_on_pid[q]
                                  /\ waiting_on_stdin'[q] = waiting_on_stdin[q]
    <2>1. CASE Newline
      BY <2>1, WakeFacts DEF Newline, Cleared
    <2>2. CASE Tick \/ \E p \in Pids : Preempt(p)
      BY <2>2, WakeFacts DEF Tick, Preempt, tick_count
    <2>3. CASE NestedSchedule \/ get_next_context \/ Halted \/ UNCHANGED vars
      BY <2>3 DEF NestedSchedule, get_next_context, Halted, vars, pcbVars
    <2> QED BY <2>1, <2>2, <2>3
  <1>3. UNCHANGED waiting_on_pid
    BY DEF Tick, Newline, NestedSchedule, get_next_context, Halted, Preempt, tick_count, vars, pcbVars
  <1> QED BY <1>1, <1>2, <1>3 DEF Moves, ReadPlaces, WaitPlaces, StillWaits

(* Every step of the scheduler, for every process. *)
LEMMA StepMoves ==
    ASSUME TypeOK, SchedInv, [Next]_vars, NEW q \in Pids
    PROVE  Moves(q)
  BY CallMoves, KernelMoves, ForkMoves, ScheduleMoves, NotifyMoves, InterruptMoves
     DEF Next, UserStep, KernelStep, QuietStep, Interrupt

(* Only a line end raises the count, and it reaches every reader that waits   *)
(* in the queue; only copy_input lowers it.                                  *)
LEMMA CountMoves ==
    ASSUME TypeOK, SchedInv, [Next]_vars
    PROVE  \/ UNCHANGED input_count
           \/ /\ input_count' = input_count + 1 /\ UNCHANGED pc
              /\ \A q \in Pids : status'[q] = "WAITING" /\ waiting_on_stdin[q] => q \notin Queued
           \/ \E p \in Pids : /\ pc[p] = "read_copy" /\ pc' = [pc EXCEPT ![p] = "ret"]
                              /\ input_count' \in {input_count - 1, input_count}
  <1>1. ASSUME Newline
        PROVE  /\ input_count' = input_count + 1 /\ UNCHANGED pc
               /\ \A q \in Pids : status'[q] = "WAITING" /\ waiting_on_stdin[q] => q \notin Queued
    BY <1>1, WakeFacts DEF Newline, flowVars, Woken
  <1>2. ASSUME NEW p \in Pids, ReadCopy(p)
        PROVE  /\ pc[p] = "read_copy" /\ pc' = [pc EXCEPT ![p] = "ret"]
               /\ input_count' \in {input_count - 1, input_count}
    BY <1>2 DEF ReadCopy, At, Goto
  <1>3. ASSUME NEW p \in Pids, UserStep(p) PROVE UNCHANGED input_count
    BY <1>3 DEF UserStep, DoRead, DoYield, DoFork, DoExecve, DoExit, OtherSyscall, BadSyscall,
                Fault, DoWaitpid, DoKill, DoAlarm
  <1>4. ASSUME NEW p \in Pids, KernelStep(p), ~ReadCopy(p) PROVE UNCHANGED input_count
    BY <1>4 DEF KernelStep, QuietStep, Return, ReadTest, ReadBlock, ReadFlag, WaitBlock, AlarmBlock,
                ForkRun, ExecPlant, StrayReturn, KtReady, KtPrepare, KtCheck, ExitNotify,
                KillNotify, schedule, TimerReturn
  <1>5. ASSUME \/ Tick \/ NestedSchedule \/ get_next_context \/ Halted \/ UNCHANGED vars
               \/ \E p \in Pids : Spin(p) \/ Preempt(p)
        PROVE  UNCHANGED input_count
    BY <1>5 DEF Tick, NestedSchedule, get_next_context, Halted, Spin, Preempt, vars
  <1> QED BY <1>1, <1>2, <1>3, <1>4, <1>5 DEF Next, Interrupt
-----------------------------------------------------------------------------
(* LinesNotOverdrawn.  A reader that has passed the test alone has its line   *)
(* until it copies it.                                                       *)
LinesInv ==
    /\ \A p, q \in Pids : p # q /\ pc[p] = "read_copy" /\ pc[q] = "read_copy" => two_readers
    /\ \A p \in Pids : pc[p] = "read_copy" => input_count > 0 \/ two_readers
    /\ LinesNotOverdrawn

(* Every step keeps the strengthening of LinesNotOverdrawn. *)
LEMMA LinesStep ==
    ASSUME TypeOK, SchedInv, LinesInv, [WindowNext]_windowVars
    PROVE  LinesInv'
  <1>1. CASE UNCHANGED windowVars
    BY <1>1 DEF windowVars, vars, flowVars, LinesInv, LinesNotOverdrawn
  <1>2. CASE WindowNext
    <2> DEFINE Copying == {p \in Pids : pc'[p] = "read_copy"}
    <2>1. two_readers' = (\/ \E p, q \in Copying : p # q
                          \/ two_readers /\ (Copying # {} \/ input_count' < 0))
      BY <1>2 DEF WindowNext
    <2>2. \A p, q \in Pids : p # q /\ pc'[p] = "read_copy" /\ pc'[q] = "read_copy" => two_readers'
      BY <2>1
    <2>3. \A p \in Pids : pc'[p] = "read_copy" =>
              pc[p] = "read_copy" \/ (pc[p] = "read_test" /\ input_count > 0)
      BY <1>2, WindowStep, StepMoves DEF Moves, ReadPlaces
    <2>4. input_count \in Int
      BY DEF TypeOK
    <2>5. CASE UNCHANGED input_count
      <3>1. \A p \in Pids : pc'[p] = "read_copy" => input_count' > 0 \/ two_readers'
        BY <2>1, <2>3, <2>5 DEF LinesInv
      <3>2. input_count' < 0 => two_readers'
        BY <2>1, <2>5 DEF LinesInv, LinesNotOverdrawn
      <3> QED BY <2>2, <3>1, <3>2 DEF LinesInv, LinesNotOverdrawn
    <2>6. CASE input_count' = input_count + 1 /\ UNCHANGED pc
      <3>1. \A p \in Pids : pc'[p] = "read_copy" => input_count' > 0 \/ two_readers'
        BY <2>1, <2>4, <2>6 DEF LinesInv
      <3>2. input_count' < 0 => two_readers'
        BY <2>1, <2>4, <2>6 DEF LinesInv, LinesNotOverdrawn
      <3> QED BY <2>2, <3>1, <3>2 DEF LinesInv, LinesNotOverdrawn
    <2>7. ASSUME NEW p \in Pids, pc[p] = "read_copy", pc' = [pc EXCEPT ![p] = "ret"],
                 input_count' \in {input_count - 1, input_count}
          PROVE  LinesInv'
      <3>1. \A q \in Pids : pc'[q] = "read_copy" => q # p /\ pc[q] = "read_copy"
        BY <2>7 DEF TypeOK
      <3>2. \A q \in Pids : pc'[q] = "read_copy" => two_readers'
        BY <2>1, <2>7, <3>1 DEF LinesInv
      <3>3. input_count' < 0 => two_readers'
        BY <2>1, <2>4, <2>7 DEF LinesInv, LinesNotOverdrawn
      <3> QED BY <2>2, <3>2, <3>3 DEF LinesInv, LinesNotOverdrawn
    <2> QED BY <1>2, <2>5, <2>6, <2>7, WindowStep, CountMoves
  <1> QED BY <1>1, <1>2

(* LinesNotOverdrawn: the line a reader was promised by buffer_is_ready is    *)
(* there when it copies, unless a second reader passed the same test.        *)
THEOREM LinesNotOverdrawnAlways == WindowSpec => []LinesNotOverdrawn
  <1>1. WindowInit => LinesInv
    BY DEF WindowInit, Init, LinesInv, LinesNotOverdrawn
  <1>2. WindowSpec => []LinesInv
    BY <1>1, LinesStep, WindowSchedInv, PTL DEF WindowSpec
  <1>3. LinesInv => LinesNotOverdrawn
    BY DEF LinesInv
  <1> QED BY <1>2, <1>3, PTL
-----------------------------------------------------------------------------
(* ReaderStrandedOnlyByWindow.  A reader between the test and its WAITING     *)
(* tests a count that only a line in the window raised; once it waits, its   *)
(* flag is set as long as nobody woke it.                                    *)
ReaderInv(p) ==
    /\ (pc[p] = "read_block" /\ input_count > 0) => missed_line[p]
    /\ (status[p] = "WAITING" /\ pc[p] \in {"read_sched", "read_test"}) => waiting_on_stdin[p]
    /\ (/\ status[p] = "WAITING"
        /\ pc[p] \in {"read_flag", "read_sched", "read_test"}
        /\ input_count > 0) => missed_line[p]

(* Every step keeps ReaderInv. *)
LEMMA ReaderStep ==
    ASSUME TypeOK, SchedInv, NEW p \in Pids, ReaderInv(p), [WindowNext]_windowVars
    PROVE  ReaderInv(p)'
  <1>1. CASE UNCHANGED windowVars
    BY <1>1 DEF windowVars, vars, flowVars, pcbVars, ReaderInv
  <1>2. CASE WindowNext
    <2>1. missed_line'[p] =
             IF input_count' > input_count /\ ReadWindow(p) THEN TRUE
             ELSE pc'[p] \in {"read_block", "read_flag", "read_sched", "read_test"}
                  /\ missed_line[p]
                  /\ ~(pc[p] = "read_test" /\ pc'[p] = "read_block")
      BY <1>2 DEF WindowNext
    <2>2. ReadPlaces(p) /\ StillWaits(p)
      BY <1>2, WindowStep, StepMoves DEF Moves
    <2>3. status[p] # "FINISHED" /\ pc[p] = "read_flag" => status[p] = "WAITING"
      BY DEF SchedInv, StatusAtPlace, StatusAt
    <2>4. status[p] = "FINISHED" => status'[p] # "WAITING"
      BY <1>2, WindowStep, FinishedStep
    <2>5. (status'[p] = "WAITING" /\ pc'[p] \in {"read_sched", "read_test"}) => waiting_on_stdin'[p]
      BY <2>2 DEF ReaderInv, ReadPlaces, StillWaits
    <2>6. CASE input_count' > input_count
      <3>1. /\ UNCHANGED pc
            /\ status'[p] = "WAITING" /\ waiting_on_stdin[p] => p \notin Queued
        BY <1>2, <2>6, WindowStep, CountMoves DEF TypeOK
      <3>2. (status'[p] = "WAITING" /\ pc[p] \in {"read_sched", "read_test"}) => ReadWindow(p)
        BY <2>2, <3>1 DEF ReaderInv, StillWaits, ReadWindow
      <3>3. pc[p] \in {"read_block", "read_flag"} => ReadWindow(p)
        BY DEF ReadWindow
      <3> QED BY <2>1, <2>5, <2>6, <3>1, <3>2, <3>3 DEF ReaderInv
    <2>7. CASE ~(input_count' > input_count)
      <3>1. input_count' > 0 => input_count > 0
        BY <1>2, <2>7, WindowStep, CountMoves DEF TypeOK
      <3>2. (pc'[p] = "read_block" /\ input_count' > 0) => pc[p] = "read_block" /\ missed_line[p]
        BY <2>2, <3>1 DEF ReadPlaces, ReaderInv
      <3>3. (/\ status'[p] = "WAITING" /\ input_count' > 0
             /\ pc'[p] \in {"read_flag", "read_sched", "read_test"}) => missed_line[p]
        BY <2>2, <2>3, <2>4, <3>1 DEF ReadPlaces, StillWaits, ReaderInv
      <3> QED BY <2>1, <2>5, <2>7, <3>2, <3>3 DEF ReaderInv
    <2> QED BY <2>6, <2>7
  <1> QED BY <1>1, <1>2

(* ReaderStrandedOnlyByWindow: the windows of do_read that WakeupWindows      *)
(* names are all that leave a reader asleep on a full buffer.                *)
THEOREM ReaderStrandedOnlyByWindowAlways == WindowSpec => []ReaderStrandedOnlyByWindow
  <1> DEFINE Inv == \A p \in Pids : ReaderInv(p)
  <1>1. WindowInit => Inv
    BY DEF WindowInit, Init, ReaderInv
  <1>2. TypeOK /\ SchedInv /\ Inv /\ [WindowNext]_windowVars => Inv'
    BY ReaderStep
  <1>3. Inv => ReaderStrandedOnlyByWindow
    BY DEF ReaderInv, ReaderStrandedOnlyByWindow
  <1> HIDE DEF Inv
  <1> QED BY <1>1, <1>2, <1>3, WindowSchedInv, PTL DEF WindowSpec
-----------------------------------------------------------------------------
(* WaiterStrandedOnlyByWindow. *)

(* Whoever dies is announced by somebody who is about to do it. *)
LEMMA DeathAnnounced ==
    ASSUME TypeOK, SchedInv, [Next]_vars, NEW t \in Pids,
           status[t] # "FINISHED", status'[t] = "FINISHED"
    PROVE  Announcing(t)'
  <1>1. \A S : Wake(status, Woken(S))[t] # "FINISHED"
    BY WakeFacts
  <1>2. ASSUME NEW p \in Pids, DoExit(p) PROVE Announcing(t)'
    BY <1>2 DEF DoExit, Enter, At, Executes, Goto, SetStatus, TypeOK, queueVars, Announcing
  <1>3. ASSUME NEW p \in Pids, NEW k \in Killable, DoKill(p, k) PROVE Announcing(t)'
    <2>1. k = t /\ t \in Queued
      BY <1>3 DEF DoKill, TypeOK
    <2>2. p # t /\ status[p] # "FINISHED"
      BY <1>3, <2>1 DEF DoKill, Enter, At, Executes, SchedInv, OnePlace, OnlyLiveRun, Runnable
    <2>3. pc'[p] = "kill_notify" /\ arg'[p] = t /\ status'[p] = status[p]
      BY <1>3, <2>1, <2>2 DEF DoKill, Enter, Goto, TypeOK
    <2> QED BY <2>2, <2>3 DEF Announcing
  <1>4. ASSUME NEW p \in Pids,
               \/ ReadBlock(p) \/ WaitBlock(p) \/ AlarmBlock(p) \/ ExecPlant(p) \/ KtPrepare(p)
               \/ DoFork(p)
        PROVE  FALSE
    BY <1>4 DEF ReadBlock, WaitBlock, AlarmBlock, ExecPlant, KtPrepare, DoFork, SetStatus, TypeOK
  <1>5. ASSUME NEW p \in Pids, ExitNotify(p) \/ KillNotify(p) PROVE FALSE
    BY <1>1, <1>5 DEF ExitNotify, KillNotify, notify_exit_pid
  <1>6. ASSUME Tick \/ Newline \/ \E p \in Pids : Preempt(p) PROVE FALSE
    BY <1>1, <1>6 DEF Tick, Newline, Preempt, tick_count
  <1>7. ASSUME NEW p \in Pids,
               \/ Return(p) \/ ReadTest(p) \/ ReadFlag(p) \/ ReadCopy(p) \/ ForkRun(p)
               \/ StrayReturn(p) \/ KtReady(p) \/ KtCheck(p) \/ schedule(p) \/ TimerReturn(p)
               \/ DoRead(p) \/ DoYield(p) \/ DoExecve(p) \/ OtherSyscall(p) \/ BadSyscall(p)
               \/ Fault(p) \/ Spin(p)
               \/ \E k \in Awaited : DoWaitpid(p, k)
               \/ \E n \in SleepTicks : DoAlarm(p, n)
        PROVE  FALSE
    BY <1>7 DEF Return, ReadTest, ReadFlag, ReadCopy, ForkRun, StrayReturn, KtReady, KtCheck,
                schedule, TimerReturn, DoRead, DoYield, DoExecve, OtherSyscall, BadSyscall,
                Fault, Spin, DoWaitpid, DoAlarm, pcbVars, vars
  <1>8. ASSUME get_next_context \/ NestedSchedule \/ Halted \/ UNCHANGED vars PROVE FALSE
    BY <1>8 DEF get_next_context, NestedSchedule, Halted, pcbVars, vars
  <1> QED BY <1>2, <1>3, <1>4, <1>5, <1>6, <1>7, <1>8 DEF Next, UserStep, KernelStep, QuietStep, Interrupt

(* Steps of a process leave the places of all others alone, except that a     *)
(* fork gives a place to its child.                                          *)
LEMMA OthersStay ==
    ASSUME TypeOK, SchedInv, [Next]_vars, NEW q \in Pids, q # active, status[q] # "NONE"
    PROVE  pc'[q] = pc[q] /\ arg'[q] = arg[q]
  <1>1. ASSUME NEW p \in Pids, DoFork(p) PROVE pc'[q] = pc[q] /\ arg'[q] = arg[q]
    BY <1>1 DEF DoFork, At, Executes, TypeOK, SchedInv, PidsInOrder, Pids
  <1>2. ASSUME NEW p \in Pids, UserStep(p), ~DoFork(p) PROVE pc'[q] = pc[q] /\ arg'[q] = arg[q]
    BY <1>2 DEF UserStep, DoRead, DoYield, DoExecve, DoExit, OtherSyscall, BadSyscall, Fault,
                DoWaitpid, DoKill, DoAlarm, Enter, At, Executes, Goto, flowVars, TypeOK
  <1>3. ASSUME NEW p \in Pids, KernelStep(p) PROVE pc'[q] = pc[q] /\ arg'[q] = arg[q]
    BY <1>3 DEF KernelStep, QuietStep, Return, ReadTest, ReadBlock, ReadFlag, ReadCopy, WaitBlock,
                AlarmBlock, ForkRun, ExecPlant, StrayReturn, KtReady, KtPrepare, KtCheck,
                ExitNotify, KillNotify, schedule, TimerReturn, At, Executes, Goto, flowVars,
                TypeOK
  <1>4. ASSUME \/ Tick \/ Newline \/ NestedSchedule \/ get_next_context \/ Halted
               \/ UNCHANGED vars \/ \E p \in Pids : Spin(p) \/ Preempt(p)
        PROVE  pc'[q] = pc[q] /\ arg'[q] = arg[q]
    BY <1>4 DEF Tick, Newline, NestedSchedule, get_next_context, Halted, Spin, Preempt, vars,
                flowVars
  <1> QED BY <1>1, <1>2, <1>3, <1>4 DEF Next, Interrupt

(* What the process that is about to announce a death can do. *)
LEMMA AnnouncerMoves ==
    ASSUME TypeOK, SchedInv, [Next]_vars, pc[active] \in {"exit_notify", "kill_notify"}
    PROVE  \/ ExitNotify(active) \/ KillNotify(active)
           \/ pc' = pc /\ arg' = arg /\ (phase = "run" => active' = active)
  <1>1. active \in Pids
    BY DEF TypeOK
  <1>2. ASSUME NEW p \in Pids, UserStep(p) \/ Spin(p) PROVE FALSE
    BY <1>2 DEF UserStep, Spin, DoRead, DoYield, DoFork, DoExecve, DoExit, OtherSyscall, BadSyscall,
                Fault, DoWaitpid, DoKill, DoAlarm, Enter, At, Executes
  <1>3. ASSUME NEW p \in Pids, KernelStep(p)
        PROVE  ExitNotify(active) \/ KillNotify(active) \/ TimerReturn(p)
    BY <1>3 DEF KernelStep, QuietStep, Return, ReadTest, ReadBlock, ReadFlag, ReadCopy, WaitBlock,
                AlarmBlock, ForkRun, ExecPlant, StrayReturn, KtReady, KtPrepare, KtCheck,
                ExitNotify, KillNotify, schedule, Blocked, At, Executes
  <1>4. ASSUME \/ Tick \/ Newline \/ NestedSchedule \/ get_next_context \/ Halted
               \/ UNCHANGED vars \/ \E p \in Pids : Preempt(p) \/ TimerReturn(p)
        PROVE  pc' = pc /\ arg' = arg /\ (phase = "run" => active' = active)
    BY <1>4 DEF Tick, Newline, NestedSchedule, get_next_context, Halted, Preempt, TimerReturn,
                vars, queueVars, flowVars
  <1> QED BY <1>1, <1>2, <1>3, <1>4 DEF Next, Interrupt

(* An announcement reaches every process that waits for it: it is in the      *)
(* queue, since it neither runs nor is still being made.                     *)
LEMMA AnnouncementHeard ==
    ASSUME TypeOK, SchedInv, NEW p \in Pids, NEW t \in Pids,
           (ExitNotify(p) /\ t = p) \/ (KillNotify(p) /\ t = arg[p]),
           NEW q \in Pids, pc[q] \in Awaiting, status[q] = "WAITING" => waiting_on_pid[q] = t
    PROVE  pc'[q] = pc[q] /\ status'[q] # "WAITING"
  <1>1. p = active /\ pc[p] \in {"exit_notify", "kill_notify"} /\ notify_exit_pid(t)
    BY DEF ExitNotify, KillNotify, At, Executes
  <1>2. q # p
    BY <1>1 DEF Awaiting
  <1>3. pc'[q] = pc[q]
    BY <1>2 DEF ExitNotify, KillNotify, Goto, TypeOK
  <1>4. status[q] = "WAITING" => q \in Queued
    BY <1>1, <1>2 DEF SchedInv, OnePlace, EmbryosApart, Embryo
  <1>5. status[q] = "WAITING" => q \in Woken(WaitingFor(t))
    BY <1>4 DEF Woken, WaitingFor
  <1>6. status'[q] # "WAITING"
    BY <1>1, <1>5, WakeFacts DEF notify_exit_pid
  <1> QED BY <1>3, <1>6

(* What becomes of an announcement that is still to come. *)
LEMMA AnnouncementComes ==
    ASSUME TypeOK, SchedInv, [Next]_vars, NEW t \in Pids, Announcing(t)
    PROVE  \/ Announcing(t)'
           \/ Silenced(t)
           \/ Announced(t) /\ \E p \in Pids :
                  (ExitNotify(p) /\ t = p) \/ (KillNotify(p) /\ t = arg[p])
  <1>0. phase' \in {"run", "switch"}
    BY NextInv DEF TypeOK
  <1>1. CASE pc[t] = "exit_notify" /\ active = t /\ phase = "run"
    <2>1. CASE ExitNotify(t)
      BY <1>1, <2>1 DEF ExitNotify, Goto, TypeOK, Announced
    <2>2. ~KillNotify(t)
      BY <1>1 DEF KillNotify, At
    <2>3. CASE pc' = pc /\ active' = active
      BY <1>0, <1>1, <2>3 DEF Announcing, Silenced
    <2> QED BY <1>1, <2>1, <2>2, <2>3, AnnouncerMoves
  <1>2. ASSUME NEW k \in Pids, pc[k] = "kill_notify", arg[k] = t, status[k] # "FINISHED"
        PROVE  \/ Announcing(t)'
               \/ Silenced(t)
               \/ Announced(t) /\ \E p \in Pids : KillNotify(p) /\ t = arg[p]
    <2>1. CASE status'[k] = "FINISHED"
      BY <1>2, <2>1 DEF Silenced
    <2>2. CASE status'[k] # "FINISHED" /\ pc'[k] = pc[k] /\ arg'[k] = arg[k]
      BY <1>2, <2>2 DEF Announcing
    <2>3. CASE k # active
      <3>1. status[k] # "NONE"
        BY <1>2 DEF SchedInv, PidsInOrder
      <3> QED BY <2>1, <2>2, <2>3, <3>1, OthersStay
    <2>4. CASE KillNotify(k)
      BY <1>2, <2>4 DEF KillNotify, Goto, TypeOK, Announced
    <2>5. ~ExitNotify(k)
      BY <1>2 DEF ExitNotify, At
    <2> QED BY <1>2, <2>1, <2>2, <2>3, <2>4, <2>5, AnnouncerMoves
  <1> QED BY <1>1, <1>2 DEF Announcing

(* A process inside do_waitpid waits for the process it was asked about, and *)
(* if that one is dead, its death is about to be announced or was missed.    *)
WaiterInv(p) ==
    pc[p] \in Awaiting =>
        /\ arg[p] \in Pids
        /\ pc[p] = "wait_block" \/ status[p] = "WAITING" => waiting_on_pid[p] = arg[p]
        /\ (/\ pc[p] = "wait_block" \/ status[p] = "WAITING"
            /\ status[arg[p]] = "FINISHED"
            /\ ~Announcing(arg[p])) => missed_exit[p]

(* Every step keeps WaiterInv. *)
LEMMA WaiterStep ==
    ASSUME TypeOK, SchedInv, NEW p \in Pids, WaiterInv(p), [WindowNext]_windowVars
    PROVE  WaiterInv(p)'
  <1>1. CASE UNCHANGED windowVars
    BY <1>1 DEF windowVars, vars, queueVars, flowVars, pcbVars, WaiterInv, Announcing
  <1>2. CASE WindowNext
    <2>1. missed_exit'[p] = (ExitMissed(p) \/ (pc'[p] # "user" /\ missed_exit[p]))
      BY <1>2 DEF WindowNext
    <2>2. WaitPlaces(p) /\ StillWaits(p)
      BY <1>2, WindowStep, StepMoves DEF Moves
    <2>3. TypeOK' /\ SchedInv'
      BY <1>2, WindowStep, NextInv
    <2> SUFFICES ASSUME pc'[p] \in Awaiting, pc'[p] = "wait_block" \/ status'[p] = "WAITING"
                 PROVE  /\ waiting_on_pid'[p] = arg'[p]
                        /\ (status'[arg'[p]] = "FINISHED" /\ ~Announcing(arg[p])')
                              => missed_exit'[p]
      BY <2>3 DEF WaiterInv, SchedInv, ReasonsAtPlace, ReasonAt, Awaiting
    <2>4. arg'[p] \in Pids
      BY <2>3 DEF SchedInv, ReasonsAtPlace, ReasonAt, Awaiting
    <2>5. CASE pc[p] = "user"
      <3>1. pc'[p] = "wait_block" /\ waiting_on_pid'[p] = arg'[p] /\ UNCHANGED status
        BY <2>2, <2>5 DEF WaitPlaces, Awaiting
      <3> QED BY <2>1, <2>5, <3>1 DEF ExitMissed
    <2>6. CASE pc[p] # "user"
      <3>1. /\ pc[p] \in Awaiting /\ arg'[p] = arg[p]
            /\ pc[p] = "wait_block" \/ status[p] = "WAITING"
        BY <2>2, <2>6 DEF WaitPlaces, StillWaits, Awaiting
      <3>2. waiting_on_pid'[p] = arg'[p]
        BY <2>2, <2>6, <3>1 DEF WaiterInv, WaitPlaces, StillWaits
      <3>3. pc'[p] # "user"
        BY DEF Awaiting
      <3>4. ASSUME status'[arg[p]] = "FINISHED", ~Announcing(arg[p])' PROVE missed_exit'[p]
        <4>1. status[arg[p]] = "FINISHED"
          BY <1>2, <2>4, <3>1, <3>4, WindowStep, DeathAnnounced
        <4>2. CASE ~Announcing(arg[p])
          BY <2>1, <3>1, <3>3, <4>1, <4>2 DEF WaiterInv
        <4>3. CASE Silenced(arg[p])
          BY <2>1, <3>1, <4>3 DEF ExitMissed
        <4>4. ASSUME Announced(arg[p]),
                     NEW k \in Pids,
                     (ExitNotify(k) /\ arg[p] = k) \/ (KillNotify(k) /\ arg[p] = arg[k])
              PROVE  missed_exit'[p]
          <5>1. pc'[p] = pc[p] /\ status'[p] # "WAITING"
            BY <2>4, <3>1, <4>4, AnnouncementHeard DEF WaiterInv
          <5> QED BY <2>1, <4>4, <5>1 DEF ExitMissed
        <4> QED BY <1>2, <2>4, <3>1, <3>4, <4>2, <4>3, <4>4, WindowStep, AnnouncementComes
      <3> QED BY <3>1, <3>2, <3>4
    <2> QED BY <2>5, <2>6
  <1> QED BY <1>1, <1>2

(* WaiterStrandedOnlyByWindow: whoever waits for a dead process, with no      *)
(* announcement to come, went through one of the windows WakeupWindows names. *)
THEOREM WaiterStrandedOnlyByWindowAlways == WindowSpec => []WaiterStrandedOnlyByWindow
  <1> DEFINE Inv == \A p \in Pids : WaiterInv(p)
  <1>1. WindowInit => Inv
    BY DEF WindowInit, Init, WaiterInv, Awaiting
  <1>2. TypeOK /\ SchedInv /\ Inv /\ [WindowNext]_windowVars => Inv'
    BY WaiterStep
  <1>3. Inv => WaiterStrandedOnlyByWindow
    BY DEF WaiterInv, Awaiting, WaiterStrandedOnlyByWindow
  <1> HIDE DEF Inv
  <1> QED BY <1>1, <1>2, <1>3, WindowSchedInv, PTL DEF WindowSpec
=============================================================================
