-------------------------- MODULE ProcessLifecycle --------------------------
(***************************************************************************)
(* What the process subsystem promises to programs, without queues,          *)
(* interrupts or wakeups: pids are handed out in order and never reused, a   *)
(* dead process stays dead and is never given the CPU, at most one process   *)
(* has the CPU, and waitpid does not return before the awaited process died. *)
(* Scheduler implements it (see Scheduler!Life).                             *)
(***************************************************************************)
EXTENDS Integers

CONSTANT MaxPid

VARIABLES
    life,      \* "none", "alive" or "dead", for each pid
    running,   \* the pid that has the CPU, 0 while there is none
    awaits     \* the pid a waitpid in progress is about, 0 for none

lifeVars == <<life, running, awaits>>
LifePids == 1..MaxPid

LifeInit ==
    /\ life = [p \in LifePids |-> IF p <= 2 THEN "alive" ELSE "none"]
    /\ running = 1
    /\ awaits = [p \in LifePids |-> 0]

(* Pids come from a counter: the smallest one that was never used. *)
Create ==
    \E c \in LifePids :
        /\ running # 0
        /\ \A p \in LifePids : life[p] = "none" <=> p >= c
        /\ life' = [life EXCEPT ![c] = "alive"]
        /\ UNCHANGED <<running, awaits>>

(* Exit is a death by one's own hand, kill a death by the running process'. *)
Die(p) ==
    /\ running # 0
    /\ life[p] # "none"
    /\ life' = [life EXCEPT ![p] = "dead"]
    /\ UNCHANGED <<running, awaits>>

Release ==
    /\ running' = 0
    /\ UNCHANGED <<life, awaits>>

Dispatch(p) ==
    /\ running = 0
    /\ life[p] = "alive"
    /\ running' = p
    /\ UNCHANGED <<life, awaits>>

Wait(p, t) ==
    /\ running = p
    /\ awaits[p] = 0
    /\ awaits' = [awaits EXCEPT ![p] = t]
    /\ UNCHANGED <<life, running>>

WaitReturn(p) ==
    /\ running = p
    /\ awaits[p] # 0
    /\ life[awaits[p]] = "dead"
    /\ awaits' = [awaits EXCEPT ![p] = 0]
    /\ UNCHANGED <<life, running>>

LifeNext ==
    \/ Create
    \/ Release
    \/ \E p \in LifePids : Die(p) \/ Dispatch(p) \/ WaitReturn(p)
    \/ \E p, t \in LifePids : Wait(p, t)

LifeSpec == LifeInit /\ [][LifeNext]_lifeVars
=============================================================================
