----------------------------- MODULE LineQueue -----------------------------
(***************************************************************************)
(* What a terminal promises its reader: characters come out in the order     *)
(* they were typed, only the last one that was not read yet can be erased,   *)
(* and a character leaves the queue only by being read or erased.  The        *)
(* promise ends when the terminal breaks.  Stdin implements it.              *)
(***************************************************************************)
EXTENDS Integers, Sequences

CONSTANT Typable   \* the characters a queue may hold

VARIABLES
    queue,    \* characters typed and not read yet, oldest first
    broken    \* the terminal does not keep its promise any more

lineVars == <<queue, broken>>

QueueInit == queue = <<>> /\ broken = FALSE

Typed == \E c \in Typable : queue' = Append(queue, c)

Erased == queue # <<>> /\ queue' = SubSeq(queue, 1, Len(queue) - 1)

Taken == queue # <<>> /\ queue' = Tail(queue)

Works == ~broken /\ ~broken' /\ (Typed \/ Erased \/ Taken)

Breaks == broken'

QueueSpec == QueueInit /\ [][Works \/ Breaks]_lineVars
=============================================================================
