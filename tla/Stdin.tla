------------------------------- MODULE Stdin -------------------------------
(***************************************************************************)
(* The input buffer of the terminal (sys/stdin.c): _add_char runs in the      *)
(* keyboard interrupt, copy_input in do_read with interrupts on, so that     *)
(* characters arrive between any two iterations of its loop.  There is one   *)
(* reader.                                                                   *)
(*                                                                         *)
(* Four events damage the ring: a backspace over a line end that was counted, *)
(* a backspace across slot 0, a ctrl-D inside a line, and a ctrl-D in the    *)
(* last slot.  The variable intact records that none of them has happened,    *)
(* and the properties say that nothing else can damage it.                   *)
(***************************************************************************)
EXTENDS Integers, Sequences, FiniteSets

CONSTANTS
    STDIN_BUFFER_SIZE,
    MaxTyped,     \* bound: characters typed in a behaviour
    ReadSizes     \* the sizes a program may pass to read()

ASSUME SizeAssumption == STDIN_BUFFER_SIZE \in Nat /\ STDIN_BUFFER_SIZE > 1
ASSUME TypedAssumption == MaxTyped \in Nat
ASSUME ReadAssumption == ReadSizes \subseteq Nat \ {0}

(* "eof" is ctrl-D ('D'-64), "nul" what the buffer holds at boot. *)
Terminators == {"nl", "eof"}
Chars == {"a", "nl", "eof"}
Slots == 0..(STDIN_BUFFER_SIZE - 1)

VARIABLES
    buffer,       \* _stdin_buffer
    start_point,
    end_point,
    input_count,
    copying,      \* copy_input is in its loop
    i,            \* its loop counter
    size,         \* and its argument
    typed,        \* number of characters typed, for the bound
    intact        \* no damage so far

ringVars == <<buffer, start_point, end_point, input_count>>
copyVars == <<copying, i, size>>
vars == <<ringVars, copyVars, typed, intact>>

Init ==
    /\ buffer = [s \in Slots |-> "nul"]
    /\ start_point = 0
    /\ end_point = 0
    /\ input_count = 0
    /\ copying = FALSE
    /\ i = 0
    /\ size = 1
    /\ typed = 0
    /\ intact = TRUE

(* C's % STDIN_BUFFER_SIZE: the sign is that of the dividend. *)
Wrap(n) == IF n >= 0 THEN n % STDIN_BUFFER_SIZE
           ELSE -((-n) % STDIN_BUFFER_SIZE)

(* A store outside the array hits some other variable of the kernel. *)
Store(s, c) == IF s \in Slots THEN [buffer EXCEPT ![s] = c] ELSE buffer

(* The characters between start_point and end_point, oldest first. *)
Window ==
    [k \in 1..((end_point - start_point) % STDIN_BUFFER_SIZE) |->
        buffer[(start_point + k - 1) % STDIN_BUFFER_SIZE]]
LinesIn(w) == Cardinality({k \in DOMAIN w : w[k] \in Terminators})
-----------------------------------------------------------------------------
(* _add_char. *)
Full == Wrap(end_point + 1) = start_point
Empty == end_point = start_point

(* A full buffer swallows the character (and echoes it); a backspace in an   *)
(* empty one does nothing.                                                   *)
AddIgnored(c) ==
    /\ Full \/ (c = "bs" /\ Empty)
    /\ UNCHANGED <<ringVars, intact>>

(* Variant: a backspace takes back everything that was not read yet. *)
M_AddBackspace_line(c) ==
    /\ c = "bs" /\ ~Full /\ ~Empty
    /\ end_point' = start_point
    /\ intact' = (intact /\ LinesIn(Window) = 0)
    /\ UNCHANGED <<buffer, start_point, input_count>>

(* A backspace takes back the last character, whatever it was.  It damages   *)
(* the ring if that was a counted terminator, or if end_point was 0: it then *)
(* becomes -1.                                                               *)
AddBackspace(c) ==
    /\ c = "bs" /\ ~Full /\ ~Empty
    /\ end_point' = Wrap(end_point - 1)
    /\ intact' = (/\ intact
                  /\ end_point > 0
                  /\ buffer[end_point - 1] \notin Terminators)
    /\ UNCHANGED <<buffer, start_point, input_count>>

(* Variant: a terminator is not counted when it is stored in the last slot. *)
M_AddStored_uncounted(c) ==
    /\ c # "bs" /\ ~Full
    /\ buffer' = Store(end_point, c)
    /\ end_point' = Wrap(end_point + 1)
    /\ input_count' = IF c \in Terminators /\ end_point' # 0 THEN input_count + 1
                      ELSE input_count
    /\ UNCHANGED <<start_point, intact>>

AddStored(c) ==
    /\ c # "bs" /\ ~Full
    /\ buffer' = Store(end_point, c)
    /\ end_point' = Wrap(end_point + 1)
    /\ input_count' = IF c \in Terminators THEN input_count + 1 ELSE input_count
    /\ UNCHANGED <<start_point, intact>>

(* The keyboard interrupt delivers the decoded character c. *)
buffer_add_char(c) ==
    /\ typed < MaxTyped
    /\ typed' = typed + 1
    /\ AddIgnored(c) \/ AddBackspace(c) \/ AddStored(c)
    /\ UNCHANGED copyVars
-----------------------------------------------------------------------------
(* copy_input(buffer, n), called by do_read once buffer_is_ready().          *)

(* What _stdin_buffer[start_point] may read: start_point is one past the end *)
(* after a ctrl-D in the last slot.                                          *)
Current == IF start_point \in Slots THEN {buffer[start_point]} ELSE Chars \cup {"nul"}

buffer_is_ready == input_count > 0

(* ctrl-D at the beginning: end of file.  start_point++ has no modulo. *)
CopyEof ==
    /\ ~copying /\ buffer_is_ready
    /\ "eof" \in Current
    /\ start_point' = start_point + 1
    /\ input_count' = input_count - 1
    /\ intact' = (intact /\ start_point' \in Slots)
    /\ UNCHANGED <<buffer, end_point, copying, i, size>>

CopyStart(n) ==
    /\ ~copying /\ buffer_is_ready
    /\ Current # {"eof"}
    /\ copying' = TRUE
    /\ i' = 0
    /\ size' = n
    /\ UNCHANGED <<ringVars, intact>>

(* Variant: the loop does not look at the caller's size. *)
M_CopyChar_unlimited ==
    /\ copying
    /\ \E c \in Current \ {"nl"} : intact' = (intact /\ c # "eof")
    /\ start_point' = Wrap(start_point + 1)
    /\ i' = IF i < size - 1 THEN i + 1 ELSE i
    /\ UNCHANGED <<buffer, end_point, input_count, copying, size>>

(* One iteration of the loop.  The character that fills the caller's buffer  *)
(* is consumed and replaced by the terminating '\0'.  A ctrl-D inside a line *)
(* does not stop the loop, although it was counted as the end of one.        *)
CopyChar ==
    /\ copying
    /\ \E c \in Current \ {"nl"} : intact' = (intact /\ c # "eof")
    /\ start_point' = Wrap(start_point + 1)
    /\ IF i = size - 1
       THEN copying' = FALSE /\ UNCHANGED i
       ELSE i' = i + 1 /\ UNCHANGED copying
    /\ UNCHANGED <<buffer, end_point, input_count, size>>

CopyNewline ==
    /\ copying
    /\ "nl" \in Current
    /\ start_point' = Wrap(start_point + 1)
    /\ input_count' = input_count - 1
    /\ copying' = FALSE
    /\ UNCHANGED <<buffer, end_point, i, size, intact>>

copy_input(n) == CopyEof \/ CopyStart(n)
-----------------------------------------------------------------------------
(* Nothing more is typed and the reader waits in do_read. *)
Done == typed = MaxTyped /\ ~copying /\ ~buffer_is_ready /\ UNCHANGED vars

Next ==
    \/ \E c \in Chars \cup {"bs"} : buffer_add_char(c)
    \/ \E n \in ReadSizes : copy_input(n) /\ UNCHANGED typed
    \/ (CopyChar \/ CopyNewline) /\ UNCHANGED typed
    \/ Done

Spec == Init /\ [][Next]_vars
FairSpec == Spec /\ WF_vars((CopyChar \/ CopyNewline) /\ UNCHANGED typed)
-----------------------------------------------------------------------------
(* CountMatchesLines: input_count, which decides whether do_read blocks, is   *)
(* the number of line ends between start_point and end_point, at every       *)
(* moment an interrupt or the reader can look, also while a line is copied.  *)
CountMatchesLines == intact => input_count = LinesIn(Window)

Queue == INSTANCE LineQueue WITH Typable <- Chars, queue <- Window, broken <- ~intact

(* ImplementsLineQueue: as long as it is intact the ring is a queue of       *)
(* characters: nothing is reordered, duplicated or dropped but by a read or  *)
(* a backspace, however typing and reading interleave around the wrap.       *)
ImplementsLineQueue == Queue!QueueSpec

(* ReadEnds: the copying loop comes to an end, even in a damaged ring with   *)
(* no newline in it.                                                         *)
ReadEnds == copying ~> ~copying
=============================================================================
