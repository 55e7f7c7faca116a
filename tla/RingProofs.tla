----------------------------- MODULE RingProofs -----------------------------
(***************************************************************************)
(* Proofs about module ProcessRing, for every size of the ring and any       *)
(* number of processes.                                                      *)
(***************************************************************************)
EXTENDS ProcessRing, FiniteSetTheorems, TLAPS

(* The slots between head and tail, without the wrapped arithmetic. *)
After(s) == IF s = SIZE - 1 THEN 0 ELSE s + 1
Used(s) == IF head < tail THEN head <= s /\ s < tail
           ELSE IF head = tail THEN FullTurn
           ELSE head <= s \/ s < tail
Turned(i) == IF head + i < SIZE THEN head + i ELSE head + i - SIZE
Distance == IF head <= tail THEN tail - head ELSE tail - head + SIZE

RingTypeOK ==
    /\ list \in [Slots -> Procs \cup {NULL}]
    /\ head \in Slots /\ tail \in Slots
    /\ active \in Procs
    /\ status \in [Procs -> {"none", "RUNNING", "WAITING", "FINISHED"}]
    /\ pid \in [Procs -> Int]
    /\ prev_pid \in Int
    /\ reg \in [Procs -> Int]
    /\ pc \in [Procs -> {"user", "fork_pid", "fork_run", "fork_store", "fork_tail"}]
    /\ kid \in [Procs -> Procs \cup {NULL}]
    /\ gnc \in {"none", "enq", "enq_tail", "take"}
    /\ halted \in BOOLEAN /\ crowded \in BOOLEAN

(* C's % at the places the code uses it. *)
LEMMA After1 == ASSUME NEW s \in Slots PROVE (s + 1) % SIZE = After(s) /\ After(s) \in Slots
  BY RingAssumption DEF Slots, After

(* An index is taken modulo the size of the array. *)
LEMMA Wrapped == ASSUME NEW n \in Int PROVE n % SIZE \in Slots
  BY RingAssumption DEF Slots

(* What list_length computes. *)
LEMMA LengthIs == ASSUME RingTypeOK PROVE Length = Distance /\ Distance \in 0..(SIZE - 1)
  <1>1. head \in 0..(SIZE - 1) /\ tail \in 0..(SIZE - 1)
    BY DEF RingTypeOK, Slots
  <1>2. CASE head <= tail
    BY <1>1, <1>2, RingAssumption DEF Length, Distance
  <1>3. CASE ~(head <= tail)
    BY <1>1, <1>3, RingAssumption DEF Length, Distance
  <1> QED BY <1>2, <1>3

(* The slot of the i-th entry. *)
LEMMA TurnedIs ==
    ASSUME RingTypeOK, NEW i \in 0..(SIZE - 1)
    PROVE  (head + i) % SIZE = Turned(i) /\ Turned(i) \in Slots
  <1>1. head \in 0..(SIZE - 1)
    BY DEF RingTypeOK, Slots
  <1>2. CASE head + i < SIZE
    BY <1>1, <1>2, RingAssumption DEF Turned, Slots
  <1>3. CASE ~(head + i < SIZE)
    BY <1>1, <1>3, RingAssumption DEF Turned, Slots
  <1> QED BY <1>2, <1>3

(* The loops of the code visit exactly the used slots, each one once. *)
LEMMA EntriesAreUsed ==
    ASSUME RingTypeOK
    PROVE  /\ Entries \in 0..SIZE
           /\ \A i \in 0..(Entries - 1) : Used(Turned(i)) /\ Entry(i) = list[Turned(i)]
           /\ \A i, j \in 0..(Entries - 1) : Turned(i) = Turned(j) => i = j
           /\ \A s \in Slots : Used(s) => \E i \in 0..(Entries - 1) : Turned(i) = s
  <1>1. head \in 0..(SIZE - 1) /\ tail \in 0..(SIZE - 1) /\ SIZE \in Nat
    BY RingAssumption DEF RingTypeOK, Slots
  <1>2. Entries = (IF FullTurn THEN SIZE ELSE Distance)
    BY LengthIs DEF Entries
  <1>3. Entries \in 0..SIZE
    BY <1>1, <1>2 DEF Distance
  <1>4. \A i \in 0..(Entries - 1) : Used(Turned(i))
    BY <1>1, <1>2 DEF Distance, Used, Turned, FullTurn
  <1>5. \A i \in 0..(Entries - 1) : Entry(i) = list[Turned(i)]
    BY <1>1, <1>3, TurnedIs DEF Entry
  <1>6. \A i, j \in 0..(Entries - 1) : Turned(i) = Turned(j) => i = j
    BY <1>1, <1>3 DEF Turned
  <1>7. ASSUME NEW s \in Slots, Used(s) PROVE \E i \in 0..(Entries - 1) : Turned(i) = s
    <2> DEFINE k == IF head <= s THEN s - head ELSE s - head + SIZE
    <2>1. k \in 0..(Entries - 1)
      BY <1>1, <1>2, <1>7 DEF Distance, Used, FullTurn, Slots
    <2>2. Turned(k) = s
      BY <1>1 DEF Turned, Slots
    <2> QED BY <2>1, <2>2
  <1> QED BY <1>3, <1>4, <1>5, <1>6, <1>7
-----------------------------------------------------------------------------
(* Every step keeps the types. *)
LEMMA RingTypeStep == ASSUME RingTypeOK, [Next]_vars PROVE RingTypeOK'
  <1> USE DEF RingTypeOK
  <1>1. ASSUME NEW p \in Procs, Yield(p) \/ Leave(p, "WAITING") \/ Leave(p, "FINISHED")
        PROVE  RingTypeOK'
    BY <1>1 DEF Yield, Leave, EnterSchedule, InUser, Executes, procVars, ring
  <1>2. ASSUME NEW p \in Procs, ForkLoad(p) \/ ForkPid(p) \/ ForkRun(p) PROVE RingTypeOK'
    <2>1. tail \in Int
      BY DEF Slots
    <2>2. CASE ForkLoad(p)
      BY <2>2 DEF ForkLoad, ring
    <2>3. CASE ForkPid(p)
      BY <2>3 DEF ForkPid, ring
    <2>4. CASE ForkRun(p)
      BY <2>1, <2>4 DEF ForkRun, ring
    <2> QED BY <1>2, <2>2, <2>3, <2>4
  <1>3. ASSUME NEW p \in Procs, ForkStore(p) PROVE RingTypeOK'
    BY <1>3 DEF ForkStore
  <1>4. ASSUME NEW p \in Procs, ForkTail(p) PROVE RingTypeOK'
    <2>1. tail' \in Slots
      BY <1>4, Wrapped DEF ForkTail
    <2>2. crowded' \in BOOLEAN
      BY <1>4 DEF ForkTail
    <2> QED BY <1>4, <2>1, <2>2 DEF ForkTail
  <1>5. ASSUME NEW p \in Procs, NEW n \in Killable, Kill(p, n) PROVE RingTypeOK'
    BY <1>5 DEF Kill, InUser, Executes, ring
  <1>6. CASE EnqStore
    BY <1>6 DEF EnqStore, procVars
  <1>7. CASE EnqTail
    BY <1>7, After1 DEF EnqTail, procVars
  <1>8. CASE Take
    <2>1. head' \in Slots
      BY <1>8, After1 DEF Take
    <2>2. list[head] = NULL \/ list[head] \in Procs
      OBVIOUS
    <2>3. active' \in Procs /\ gnc' \in {"none", "enq", "enq_tail", "take"} /\ halted' \in BOOLEAN
      BY <1>8, <2>2 DEF Take
    <2> QED BY <1>8, <2>1, <2>3 DEF Take, procVars
  <1>9. CASE notify_stdin
    BY <1>9 DEF notify_stdin, ring
  <1>10. CASE preempt \/ NestedSchedule \/ Halted \/ UNCHANGED vars
    BY <1>10 DEF preempt, NestedSchedule, Halted, vars, procVars, ring
  <1> QED BY <1>1, <1>2, <1>3, <1>4, <1>5, <1>6, <1>7, <1>8, <1>9, <1>10 DEF Next

(* And so does the boot. *)
LEMMA RingTypeInit == Init => RingTypeOK
  <1> SUFFICES ASSUME Init PROVE RingTypeOK
    OBVIOUS
  <1>1. Idle \in Procs /\ Shell \in Procs
    BY RingAssumption DEF Procs, Idle, Shell
  <1>2. list \in [Slots -> Procs \cup {NULL}]
    BY <1>1 DEF Init
  <1>3. 0 \in Int /\ \A p \in Procs : p \in Int
    BY RingAssumption DEF Procs
  <1>4. head \in Slots /\ tail \in Slots
    BY RingAssumption DEF Init, Slots
  <1>5. status \in [Procs -> {"none", "RUNNING", "WAITING", "FINISHED"}]
    BY DEF Init
  <1>6. pid \in [Procs -> Int] /\ reg \in [Procs -> Int] /\ kid \in [Procs -> Procs \cup {NULL}]
    BY <1>3 DEF Init
  <1>7. pc \in [Procs -> {"user", "fork_pid", "fork_run", "fork_store", "fork_tail"}]
    BY DEF Init
  <1>8. active \in Procs /\ prev_pid \in Int
    BY <1>1 DEF Init
  <1>9. gnc = "none" /\ halted = FALSE /\ crowded = FALSE
    BY DEF Init
  <1> QED BY <1>2, <1>4, <1>5, <1>6, <1>7, <1>8, <1>9 DEF RingTypeOK
-----------------------------------------------------------------------------
(* Whoever is stored anywhere is a process that was made, and nobody but the  *)
(* forks in progress has a child in the making.                              *)
PcbInv ==
    /\ \A s \in Slots : list[s] # NULL => status[list[s]] # "none"
    /\ status[active] # "none" /\ status[Idle] # "none"
    /\ \A p \in Procs : kid[p] # NULL => status[kid[p]] # "none" /\ kid[p] # Idle
    /\ \A p, q \in Procs : (kid[p] # NULL /\ kid[p] = kid[q]) => p = q
    /\ \A p \in Procs : kid[p] # NULL <=> pc[p] \in {"fork_run", "fork_store", "fork_tail"}

(* Every step keeps PcbInv. *)
LEMMA PcbStep == ASSUME RingTypeOK, PcbInv, [Next]_vars PROVE PcbInv'
  <1>0. Idle \in Procs /\ NULL \notin Procs
    BY RingAssumption DEF Procs, Idle, NULL
  <1> USE <1>0 DEF PcbInv, RingTypeOK
  <1>1. ASSUME NEW p \in Procs, Yield(p) \/ Leave(p, "WAITING") \/ Leave(p, "FINISHED")
        PROVE  PcbInv'
    BY <1>1 DEF Yield, Leave, EnterSchedule, InUser, Executes, procVars, ring
  <1>2. ASSUME NEW p \in Procs, ForkLoad(p) \/ ForkRun(p) PROVE PcbInv'
    BY <1>2 DEF ForkLoad, ForkRun, InUser, Executes, ring
  <1>3. ASSUME NEW p \in Procs, ForkPid(p) PROVE PcbInv'
    BY <1>3 DEF ForkPid, Executes, ring
  <1>4. ASSUME NEW p \in Procs, ForkStore(p) PROVE PcbInv'
    BY <1>4 DEF ForkStore
  <1>5. ASSUME NEW p \in Procs, ForkTail(p) PROVE PcbInv'
    BY <1>5 DEF ForkTail
  <1>6. ASSUME NEW p \in Procs, NEW n \in Killable, Kill(p, n) PROVE PcbInv'
    BY <1>6 DEF Kill, ring
  <1>7. CASE EnqStore
    BY <1>7 DEF EnqStore, procVars
  <1>8. CASE EnqTail
    BY <1>8 DEF EnqTail, procVars
  <1>9. CASE Take
    BY <1>9 DEF Take, procVars
  <1>10. CASE notify_stdin
    BY <1>10 DEF notify_stdin, ring
  <1>11. CASE preempt \/ NestedSchedule \/ Halted \/ UNCHANGED vars
    BY <1>11 DEF preempt, NestedSchedule, Halted, vars, procVars, ring
  <1> QED BY <1>1, <1>2, <1>3, <1>4, <1>5, <1>6, <1>7, <1>8, <1>9, <1>10, <1>11 DEF Next

(* At boot the pids are apart. *)
LEMMA PcbInit == Init => PcbInv
  BY RingAssumption DEF Init, PcbInv, Procs, Slots, Idle, Shell, NULL
-----------------------------------------------------------------------------
(* The pids given out so far are below or at _prev_pid and differ; whoever    *)
(* holds a new one in a register holds the CPU, and nobody has stored to      *)
(* _prev_pid since it was loaded.                                            *)
PidInv ==
    "pid" \notin cut =>
        /\ \A p \in Procs : status[p] # "none" => pid[p] <= prev_pid
        /\ \A p, q \in Procs :
              (status[p] # "none" /\ status[q] # "none" /\ p # q) => pid[p] # pid[q]
        /\ \A p \in Procs : pc[p] = "fork_pid" =>
              active = p /\ gnc = "none" /\ reg[p] = prev_pid + 1

(* Every step keeps PidInv. *)
LEMMA PidStep == ASSUME RingTypeOK, PcbInv, PidInv, [Next]_vars PROVE PidInv'
  <1> USE DEF PidInv, RingTypeOK
  <1>1. ASSUME NEW p \in Procs, Yield(p) \/ Leave(p, "WAITING") \/ Leave(p, "FINISHED")
        PROVE  PidInv'
    BY <1>1 DEF Yield, Leave, EnterSchedule, InUser, Executes, procVars, ring, PcbInv
  <1>2. ASSUME NEW p \in Procs, ForkLoad(p) PROVE PidInv'
    BY <1>2 DEF ForkLoad, InUser, Executes, ring
  <1>3. ASSUME NEW p \in Procs, ForkPid(p) PROVE PidInv'
    BY <1>3 DEF ForkPid, Executes, ring
  <1>4. ASSUME NEW p \in Procs, ForkRun(p) \/ ForkStore(p) \/ ForkTail(p) PROVE PidInv'
    BY <1>4 DEF ForkRun, ForkStore, ForkTail, Executes, ring
  <1>5. ASSUME NEW p \in Procs, NEW n \in Killable, Kill(p, n) PROVE PidInv'
    <2>1. PICK i \in 0..(Length - 1) :
            Entry(i) # NULL /\ status' = [status EXCEPT ![Entry(i)] = "FINISHED"]
      BY <1>5 DEF Kill
    <2>2. (head + i) % SIZE \in Slots
      <3>1. i \in Int /\ head \in Int
        BY <2>1, LengthIs DEF Slots
      <3> QED BY <3>1, Wrapped
    <2>3. \A q \in Procs : status'[q] # "none" => status[q] # "none"
      BY <2>1, <2>2 DEF Entry, PcbInv
    <2> QED BY <1>5, <2>3 DEF Kill
  <1>6. CASE EnqStore \/ EnqTail \/ Take
    BY <1>6 DEF EnqStore, EnqTail, Take, procVars
  <1>7. CASE notify_stdin
    BY <1>7 DEF notify_stdin, ring
  <1>8. CASE preempt
    BY <1>8 DEF preempt, PlaceOf, procVars, ring
  <1>9. CASE NestedSchedule \/ Halted \/ UNCHANGED vars
    BY <1>9 DEF NestedSchedule, Halted, vars, procVars, ring
  <1> QED BY <1>1, <1>2, <1>3, <1>4, <1>5, <1>6, <1>7, <1>8, <1>9 DEF Next

(* PidsDistinct: however forks, kills and the ends of slices interleave, two  *)
(* processes get the same pid only if a slice ended between the load and the *)
(* store of _prev_pid.                                                       *)
THEOREM PidsDistinctAlways == Spec => []PidsDistinct
  <1>1. Init => RingTypeOK /\ PcbInv /\ PidInv
    BY RingAssumption, RingTypeInit, PcbInit DEF Init, PidInv, Procs, Idle, Shell
  <1>2. RingTypeOK /\ PidInv => PidsDistinct
    BY DEF PidInv, PidsDistinct, Live, RingTypeOK
  <1> QED BY <1>1, <1>2, RingTypeStep, PcbStep, PidStep, PTL DEF Spec
-----------------------------------------------------------------------------
Sound == "enqueue" \notin cut /\ ~crowded /\ ~halted

(* In the ring: processes that were made and passed to process_run, each in   *)
(* one slot, none of them the one that holds the CPU.  Every living process   *)
(* is there, active, or still in the making.  Where a store to the ring and   *)
(* the one to the tail are apart, the tail has not moved meanwhile.          *)
EntriesApart ==
    /\ \A s \in Slots : Used(s) => list[s] # NULL /\ ~BeingMade(list[s])
    /\ \A s, t \in Slots : (Used(s) /\ Used(t) /\ list[s] = list[t]) => s = t
    /\ gnc # "take" => \A s \in Slots : Used(s) => list[s] # active
    /\ ~BeingMade(active)
NobodyLost ==
    \A p \in Live : \/ BeingMade(p)
                    \/ \E s \in Slots : Used(s) /\ list[s] = p
                    \/ active = p /\ gnc # "take"
TailKept ==
    /\ gnc = "enq_tail" => list[tail] = active
    /\ \A p \in Procs : pc[p] = "fork_tail" => list[tail] = kid[p]
    /\ \A p \in Procs : pc[p] \in {"fork_store", "fork_tail"} =>
          active = p /\ gnc = "none" /\ reg[p] = tail
StatusFits ==
    /\ status[Idle] = "RUNNING" /\ pid[Idle] = 1
    /\ gnc = "none" => status[active] = "RUNNING"
    /\ \A p \in Procs : BeingMade(p) => status[p] = "RUNNING"

RingInv == Sound => EntriesApart /\ NobodyLost /\ TailKept /\ StatusFits

(* A step that changes neither the ring nor who is on the CPU, and at most    *)
(* the status of processes in the ring or on the CPU.                        *)
LEMMA RingKept ==
    ASSUME RingTypeOK, RingTypeOK', RingInv, UNCHANGED <<ring, active, kid>>,
           Sound' => Sound, UNCHANGED gnc \/ (gnc = "none" /\ gnc' = "enq"),
           Sound' => Live' \subseteq Live /\ StatusFits' /\ TailKept'
    PROVE  RingInv'
  BY DEF RingTypeOK, RingInv, EntriesApart, NobodyLost, Used, FullTurn, BeingMade, ring

(* Every step keeps RingInv, as long as the idle process is not killed. *)
LEMMA RingStep ==
    ASSUME Idle \notin Killable, RingTypeOK, PcbInv, RingInv, [Next]_vars
    PROVE  RingInv'
  <1>a. RingTypeOK' /\ PcbInv'
    BY RingTypeStep, PcbStep
  <1>b. Idle \in Procs /\ NULL \notin Procs
    BY RingAssumption DEF Procs, Idle, NULL
  <1>1. ASSUME NEW p \in Procs, Yield(p) \/ Leave(p, "WAITING") \/ Leave(p, "FINISHED")
        PROVE  RingInv'
    <2>1. /\ UNCHANGED <<ring, active, kid, pc, reg, pid, halted, cut, crowded>>
          /\ active = p /\ gnc = "none" /\ gnc' = "enq" /\ pc[p] = "user"
      BY <1>1 DEF Yield, Leave, EnterSchedule, InUser, Executes, procVars
    <2>2. \A q \in Procs : status'[q] # status[q] => q = p /\ p # Idle
      BY <1>1 DEF Yield, Leave, procVars, RingTypeOK
    <2>3. SUFFICES ASSUME Sound' PROVE Live' \subseteq Live /\ StatusFits' /\ TailKept'
      BY <1>a, <2>1, RingKept DEF Sound
    <2>4. Sound /\ EntriesApart /\ TailKept /\ StatusFits
      BY <2>1, <2>3 DEF Sound, RingInv
    <2>5. status[p] = "RUNNING" /\ ~BeingMade(p)
      BY <2>1, <2>4 DEF StatusFits, EntriesApart
    <2>6. Live' \subseteq Live
      BY <2>2, <2>5 DEF Live
    <2>7. StatusFits'
      BY <1>b, <2>1, <2>2, <2>4, <2>5 DEF StatusFits, BeingMade
    <2>8. TailKept'
      BY <2>1, <2>4 DEF TailKept, ring
    <2> QED BY <2>6, <2>7, <2>8
  <1>2. ASSUME NEW p \in Procs, ForkLoad(p) \/ ForkRun(p) PROVE RingInv'
    <2>1. /\ UNCHANGED <<ring, active, kid, status, pid, halted, cut, crowded, gnc>>
          /\ active = p /\ gnc = "none" /\ pc[p] \in {"user", "fork_run"}
      BY <1>2 DEF ForkLoad, ForkRun, InUser, Executes
    <2>2. SUFFICES ASSUME Sound' PROVE Live' \subseteq Live /\ StatusFits' /\ TailKept'
      BY <1>a, <2>1, RingKept DEF Sound
    <2>3. TailKept /\ StatusFits
      BY <2>1, <2>2 DEF Sound, RingInv
    <2>4. Live' \subseteq Live /\ StatusFits'
      BY <2>1, <2>3 DEF Live, StatusFits, BeingMade
    <2>5. TailKept'
      BY <1>2, <2>1, <2>3 DEF TailKept, ForkLoad, ForkRun, ring, RingTypeOK
    <2> QED BY <2>4, <2>5
  <1>3. ASSUME NEW p \in Procs, ForkPid(p) PROVE RingInv'
    <2>1. PICK c \in Procs :
            /\ status[c] = "none"
            /\ pid' = [pid EXCEPT ![c] = reg[p]]
            /\ status' = [status EXCEPT ![c] = "RUNNING"]
            /\ kid' = [kid EXCEPT ![p] = c]
      BY <1>3 DEF ForkPid
    <2>2. /\ UNCHANGED <<ring, active, halted, cut, crowded, gnc>>
          /\ active = p /\ gnc = "none"
          /\ pc' = [pc EXCEPT ![p] = "fork_run"] /\ UNCHANGED reg /\ pc[p] = "fork_pid"
      BY <1>3 DEF ForkPid, Executes
    <2>3. SUFFICES ASSUME Sound' PROVE EntriesApart' /\ NobodyLost' /\ TailKept' /\ StatusFits'
      BY DEF RingInv
    <2>4. EntriesApart /\ NobodyLost /\ TailKept /\ StatusFits
      BY <2>2, <2>3 DEF Sound, RingInv
    <2>5. kid[p] = NULL
      BY <2>2 DEF PcbInv, RingTypeOK
    <2>6. \A q \in Procs : BeingMade(q)' <=> (BeingMade(q) \/ q = c)
      BY <1>b, <2>1, <2>5 DEF BeingMade, RingTypeOK
    <2>7. EntriesApart'
      <3>1. c # active /\ \A s \in Slots : list[s] # c
        BY <1>b, <2>1 DEF PcbInv
      <3>2. \A s \in Slots : Used(s)' <=> Used(s)
        BY <2>2 DEF Used, FullTurn, ring
      <3>3. \A s \in Slots : list[s] # NULL => list[s] \in Procs
        BY DEF RingTypeOK
      <3>4. active \in Procs
        BY DEF RingTypeOK
      <3> QED BY <2>2, <2>4, <2>6, <3>1, <3>2, <3>3, <3>4 DEF EntriesApart, ring
    <2>8. NobodyLost'
      <3>1. \A q \in Live' : q \in Live \/ q = c
        BY <2>1 DEF Live, RingTypeOK
      <3>2. \A s \in Slots : Used(s)' <=> Used(s)
        BY <2>2 DEF Used, FullTurn, ring
      <3> QED BY <2>2, <2>4, <2>6, <3>1, <3>2 DEF NobodyLost, ring, Live
    <2>9. TailKept'
      BY <2>1, <2>2, <2>4 DEF TailKept, ring, RingTypeOK
    <2>10. StatusFits'
      <3>1. c # active /\ c # Idle
        BY <2>1 DEF PcbInv
      <3> QED BY <1>b, <2>1, <2>2, <2>4, <2>6, <3>1 DEF StatusFits, RingTypeOK
    <2> QED BY <2>7, <2>8, <2>9, <2>10
  <1>4. ASSUME NEW p \in Procs, ForkStore(p) PROVE RingInv'
    <2>1. /\ list' = [list EXCEPT ![reg[p]] = kid[p]]
          /\ UNCHANGED <<head, tail, active, status, pid, reg, kid, gnc, halted, cut, crowded>>
          /\ active = p /\ gnc = "none" /\ pc[p] = "fork_store"
          /\ pc' = [pc EXCEPT ![p] = "fork_tail"]
      BY <1>4 DEF ForkStore, Executes
    <2>2. SUFFICES ASSUME Sound' PROVE EntriesApart' /\ NobodyLost' /\ TailKept' /\ StatusFits'
      BY DEF RingInv
    <2>3. EntriesApart /\ NobodyLost /\ TailKept /\ StatusFits
      BY <2>1, <2>2 DEF Sound, RingInv
    <2>4. reg[p] = tail /\ tail \in Slots
      BY <2>1, <2>3 DEF TailKept, RingTypeOK
    <2>5. \A s \in Slots : (Used(s)' <=> Used(s)) /\ (Used(s) => list'[s] = list[s])
      BY <2>1, <2>4 DEF Used, FullTurn, RingTypeOK, Slots
    <2>6. EntriesApart' /\ NobodyLost'
      BY <2>1, <2>3, <2>5 DEF EntriesApart, NobodyLost, BeingMade, Live
    <2>7. TailKept' /\ StatusFits'
      BY <2>1, <2>3, <2>4 DEF TailKept, StatusFits, BeingMade, RingTypeOK
    <2> QED BY <2>6, <2>7
  <1>5. ASSUME NEW p \in Procs, ForkTail(p) PROVE RingInv'
    <2>1. /\ tail' = (reg[p] + 1) % SIZE
          /\ UNCHANGED <<list, head, active, status, pid, reg, gnc, halted, cut>>
          /\ kid' = [kid EXCEPT ![p] = NULL]
          /\ crowded' = (crowded \/ Length + 2 > SIZE)
          /\ active = p /\ gnc = "none" /\ pc[p] = "fork_tail"
          /\ pc' = [pc EXCEPT ![p] = "user"]
      BY <1>5 DEF ForkTail, Executes
    <2>2. SUFFICES ASSUME Sound' PROVE EntriesApart' /\ NobodyLost' /\ TailKept' /\ StatusFits'
      BY DEF RingInv
    <2>3. EntriesApart /\ NobodyLost /\ TailKept /\ StatusFits /\ ~(Length + 2 > SIZE)
      BY <2>1, <2>2 DEF Sound, RingInv
    <2>4. reg[p] = tail /\ tail' = After(tail) /\ list[tail] = kid[p]
      BY <2>1, <2>3, After1 DEF TailKept, RingTypeOK
    <2>5. \A s \in Slots : Used(s)' <=> (Used(s) \/ s = tail)
      <3>1. ~(Distance + 2 > SIZE)
        BY <2>3, LengthIs
      <3> QED BY <2>1, <2>4, <3>1, RingAssumption
              DEF Used, FullTurn, After, Distance, RingTypeOK, Slots
    <2>6. kid[p] \in Procs
      BY <2>1 DEF PcbInv, RingTypeOK
    <2>7. \A q \in Procs : BeingMade(q)' <=> (BeingMade(q) /\ q # kid[p])
      BY <1>b, <2>1, <2>6 DEF BeingMade, RingTypeOK, PcbInv
    <2>8. BeingMade(kid[p])
      BY DEF BeingMade
    <2>9. \A s \in Slots : list[s] # NULL => list[s] \in Procs
      BY DEF RingTypeOK
    <2>10. active \in Procs /\ tail \in Slots
      BY DEF RingTypeOK
    <2>11. EntriesApart'
      BY <1>b, <2>1, <2>3, <2>4, <2>5, <2>6, <2>7, <2>8, <2>9, <2>10 DEF EntriesApart
    <2>12. NobodyLost'
      BY <2>1, <2>3, <2>4, <2>5, <2>7, <2>10 DEF NobodyLost, Live
    <2>13. TailKept'
      BY <2>1, <2>3 DEF TailKept, RingTypeOK
    <2>14. StatusFits'
      BY <2>1, <2>3, <2>7 DEF StatusFits
    <2> QED BY <2>11, <2>12, <2>13, <2>14
  <1>6. ASSUME NEW p \in Procs, NEW n \in Killable, Kill(p, n) PROVE RingInv'
    <2>1. PICK i \in 0..(Length - 1) :
            /\ Entry(i) # NULL /\ pid[Entry(i)] = n
            /\ status' = [status EXCEPT ![Entry(i)] = "FINISHED"]
      BY <1>6 DEF Kill
    <2>2. /\ UNCHANGED <<ring, active, pid, pc, reg, kid, gnc, halted, cut, crowded>>
          /\ gnc = "none"
      BY <1>6 DEF Kill, InUser, Executes
    <2>3. SUFFICES ASSUME Sound' PROVE Live' \subseteq Live /\ StatusFits' /\ TailKept'
      BY <1>a, <2>2, RingKept DEF Sound
    <2>4. EntriesApart /\ TailKept /\ StatusFits
      BY <2>2, <2>3 DEF Sound, RingInv
    <2>5. PICK s \in Slots : Used(s) /\ Entry(i) = list[s]
      <3>1. Entries = Length
        BY <2>2 DEF Entries, FullTurn
      <3>2. i \in 0..(SIZE - 1) /\ i \in 0..(Entries - 1)
        BY <2>1, <3>1, LengthIs, RingAssumption
      <3> QED BY <3>2, EntriesAreUsed, TurnedIs
    <2>6. /\ list[s] \in Procs /\ list[s] # active /\ ~BeingMade(list[s]) /\ list[s] # Idle
      BY <1>b, <2>1, <2>2, <2>4, <2>5 DEF EntriesApart, StatusFits, RingTypeOK, Idle
    <2>7. status' = [status EXCEPT ![list[s]] = "FINISHED"]
      BY <2>1, <2>5
    <2>8. Live' \subseteq Live
      BY <2>6, <2>7 DEF Live, RingTypeOK
    <2>9. StatusFits'
      BY <1>b, <2>2, <2>4, <2>6, <2>7 DEF StatusFits, BeingMade, RingTypeOK
    <2>10. TailKept'
      BY <2>2, <2>4 DEF TailKept, ring
    <2> QED BY <2>8, <2>9, <2>10
  <1>7. CASE EnqStore
    <2>1. /\ gnc = "enq" /\ ~halted
          /\ IF status[active] = "FINISHED"
             THEN gnc' = "take" /\ UNCHANGED list
             ELSE gnc' = "enq_tail" /\ list' = [list EXCEPT ![tail] = active]
          /\ UNCHANGED <<head, tail, active, status, pid, pc, reg, kid, halted, cut, crowded>>
      BY <1>7 DEF EnqStore, procVars
    <2>2. SUFFICES ASSUME Sound' PROVE EntriesApart' /\ NobodyLost' /\ TailKept' /\ StatusFits'
      BY DEF RingInv
    <2>3. EntriesApart /\ NobodyLost /\ TailKept /\ StatusFits
      BY <2>1, <2>2 DEF Sound, RingInv
    <2>4. \A s \in Slots : (Used(s)' <=> Used(s)) /\ (Used(s) => list'[s] = list[s])
      <3>1. CASE status[active] = "FINISHED"
        <4>1. Idle \in Live /\ active # Idle /\ ~BeingMade(Idle)
          BY <1>b, <2>3, <3>1 DEF StatusFits, Live, BeingMade, PcbInv
        <4>2. PICK s \in Slots : Used(s) /\ list[s] = Idle
          BY <2>3, <4>1 DEF NobodyLost
        <4>3. head # tail
          BY <2>1, <4>2 DEF Used, FullTurn, RingTypeOK, Slots
        <4> QED BY <2>1, <3>1, <4>3 DEF Used, FullTurn
      <3>2. CASE status[active] # "FINISHED"
        <4>1. tail \in Slots /\ ~Used(tail)
          BY <2>1 DEF RingTypeOK, Used, FullTurn, Slots
        <4> QED BY <2>1, <3>2, <4>1 DEF Used, FullTurn, RingTypeOK
      <3> QED BY <3>1, <3>2
    <2>5. EntriesApart'
      BY <2>1, <2>3, <2>4 DEF EntriesApart, BeingMade
    <2>6. NobodyLost'
      BY <2>1, <2>3, <2>4 DEF NobodyLost, BeingMade, Live
    <2>7. TailKept' /\ StatusFits'
      BY <2>1, <2>3 DEF TailKept, StatusFits, BeingMade, RingTypeOK
    <2> QED BY <2>5, <2>6, <2>7
  <1>8. CASE EnqTail
    <2>1. /\ gnc = "enq_tail" /\ gnc' = "take"
          /\ tail' = After(tail)
          /\ UNCHANGED <<list, head, active, status, pid, pc, reg, kid, halted, cut, crowded>>
      BY <1>8, After1 DEF EnqTail, procVars, RingTypeOK
    <2>2. SUFFICES ASSUME Sound' PROVE EntriesApart' /\ NobodyLost' /\ TailKept' /\ StatusFits'
      BY DEF RingInv
    <2>3. EntriesApart /\ NobodyLost /\ TailKept /\ StatusFits
      BY <2>1, <2>2 DEF Sound, RingInv
    <2>4. \A s \in Slots : Used(s)' <=> (Used(s) \/ s = tail)
      BY <2>1, RingAssumption DEF Used, FullTurn, After, RingTypeOK, Slots
    <2>5. list[tail] = active /\ active \in Procs /\ tail \in Slots
      BY <2>1, <2>3 DEF TailKept, RingTypeOK
    <2>6. EntriesApart'
      BY <1>b, <2>1, <2>3, <2>4, <2>5 DEF EntriesApart, BeingMade
    <2>7. NobodyLost'
      BY <2>1, <2>3, <2>4, <2>5 DEF NobodyLost, BeingMade, Live
    <2>8. TailKept' /\ StatusFits'
      BY <2>1, <2>3 DEF TailKept, StatusFits, BeingMade
    <2> QED BY <2>6, <2>7, <2>8
  <1>9. CASE Take
    <2>1. /\ gnc = "take" /\ ~halted
          /\ head' = After(head)
          /\ UNCHANGED <<list, tail, status, pid, pc, reg, kid, cut, crowded>>
          /\ list[head] # NULL =>
                /\ active' = list[head] /\ UNCHANGED halted
                /\ gnc' = IF status[list[head]] = "RUNNING" THEN "none" ELSE "enq"
          /\ list[head] = NULL => halted'
      BY <1>9, After1 DEF Take, procVars, RingTypeOK
    <2>2. SUFFICES ASSUME Sound' PROVE EntriesApart' /\ NobodyLost' /\ TailKept' /\ StatusFits'
      BY DEF RingInv
    <2>3. EntriesApart /\ NobodyLost /\ TailKept /\ StatusFits
      BY <2>1, <2>2 DEF Sound, RingInv
    <2>4. list[head] # NULL /\ gnc' \in {"none", "enq"}
      BY <2>1, <2>2 DEF Sound
    <2>5. Used(head) /\ head \in Slots
      BY <2>1 DEF Used, FullTurn, RingTypeOK, Slots
    <2>6. \A s \in Slots : Used(s)' <=> (Used(s) /\ s # head)
      BY <2>1, <2>4, RingAssumption DEF Used, FullTurn, After, RingTypeOK, Slots
    <2>7. EntriesApart'
      BY <2>1, <2>3, <2>4, <2>5, <2>6 DEF EntriesApart, BeingMade
    <2>8. NobodyLost'
      BY <2>1, <2>3, <2>4, <2>5, <2>6 DEF NobodyLost, BeingMade, Live
    <2>9. TailKept'
      BY <2>1, <2>3, <2>4 DEF TailKept
    <2>10. StatusFits'
      BY <2>1, <2>3, <2>4 DEF StatusFits, BeingMade
    <2> QED BY <2>7, <2>8, <2>9, <2>10
  <1>10. CASE notify_stdin
    <2>1. /\ UNCHANGED <<ring, active, pid, pc, reg, kid, gnc, halted, cut, crowded>>
          /\ \A q \in Procs : status'[q] = status[q]
                              \/ (status[q] = "WAITING" /\ status'[q] = "RUNNING")
      BY <1>10 DEF notify_stdin
    <2>2. Live' \subseteq Live
      BY <2>1 DEF Live
    <2>3. SUFFICES ASSUME Sound' PROVE StatusFits' /\ TailKept'
      BY <1>a, <2>1, <2>2, RingKept DEF Sound
    <2>4. TailKept /\ StatusFits
      BY <2>1, <2>3 DEF Sound, RingInv
    <2>5. StatusFits'
      BY <1>b, <2>1, <2>4 DEF StatusFits, BeingMade, RingTypeOK
    <2> QED BY <2>1, <2>4, <2>5 DEF TailKept, ring
  <1>11. CASE preempt
    <2>1. /\ UNCHANGED <<ring, active, status, pid, pc, reg, kid, halted, crowded>>
          /\ gnc = "none" /\ gnc' = "enq" /\ cut' = cut \cup PlaceOf(active)
      BY <1>11 DEF preempt, procVars
    <2>2. Live' \subseteq Live /\ (Sound' => Sound)
      BY <2>1 DEF Live, Sound
    <2>3. SUFFICES ASSUME Sound' PROVE StatusFits' /\ TailKept'
      BY <1>a, <2>1, <2>2, RingKept
    <2>4. TailKept /\ StatusFits
      BY <2>2, <2>3 DEF RingInv
    <2>5. pc[active] \notin {"fork_store", "fork_tail"}
      BY <2>1, <2>3 DEF Sound, PlaceOf
    <2>6. TailKept'
      BY <2>1, <2>4, <2>5 DEF TailKept, ring
    <2> QED BY <2>1, <2>4, <2>6 DEF StatusFits, BeingMade
  <1>12. CASE NestedSchedule
    BY <1>12 DEF NestedSchedule, RingInv, Sound
  <1>13. CASE Halted \/ UNCHANGED vars
    <2>1. UNCHANGED <<ring, active, status, pid, pc, reg, kid, gnc, halted, cut, crowded>>
      BY <1>13 DEF Halted, vars, procVars
    <2>2. (Sound' => Sound) /\ Live' \subseteq Live /\ (StatusFits => StatusFits') /\ (TailKept => TailKept')
      BY <2>1 DEF Sound, Live, StatusFits, TailKept, BeingMade, ring
    <2> QED BY <1>a, <2>1, <2>2, RingKept DEF RingInv
  <1> QED BY <1>1, <1>2, <1>3, <1>4, <1>5, <1>6, <1>7, <1>8, <1>9, <1>10, <1>11, <1>12, <1>13
          DEF Next

(* At boot the shell is in the ring and the idle process is active. *)
LEMMA RingInit == Init => RingInv
  <1> SUFFICES ASSUME Init PROVE EntriesApart /\ NobodyLost /\ TailKept /\ StatusFits
    BY DEF RingInv
  <1>1. Idle \in Procs /\ Shell \in Procs /\ NULL \notin Procs /\ Idle # Shell
    BY RingAssumption DEF Procs, Idle, Shell, NULL
  <1>2. 1 \in Slots /\ \A s \in Slots : Used(s) <=> s = 1
    BY RingAssumption DEF Init, Used, FullTurn, Slots
  <1>3. list[1] = Shell /\ active = Idle /\ gnc = "none"
    BY <1>2 DEF Init
  <1>4. \A p \in Procs : kid[p] = NULL /\ pc[p] = "user" /\ ~BeingMade(p)
    BY <1>1 DEF Init, BeingMade
  <1>5. \A p \in Procs : status[p] = IF p \in {Idle, Shell} THEN "RUNNING" ELSE "none"
    BY DEF Init
  <1>6. pid[Idle] = 1
    BY <1>1 DEF Init, Idle
  <1>7. EntriesApart
    BY <1>1, <1>2, <1>3, <1>4 DEF EntriesApart
  <1>8. NobodyLost
    BY <1>2, <1>3, <1>5 DEF NobodyLost, Live
  <1>9. TailKept /\ StatusFits
    BY <1>1, <1>3, <1>4, <1>5, <1>6 DEF TailKept, StatusFits
  <1> QED BY <1>7, <1>8, <1>9
-----------------------------------------------------------------------------
(* What RingInv says of the loops from head to tail, which count entries. *)
LEMMA InvImpliesKept ==
    ASSUME RingTypeOK, RingInv, Sound, NEW p \in Live, ~BeingMade(p)
    PROVE  Places(p) = 1
  <1> DEFINE I == {i \in 0..(Entries - 1) : Entry(i) = p}
  <1>1. EntriesApart /\ NobodyLost
    BY DEF RingInv
  <1>2. Entries \in 0..SIZE /\ SIZE \in Nat
    BY EntriesAreUsed, RingAssumption
  <1>3. \A i \in 0..(Entries - 1) : Turned(i) \in Slots
    BY <1>2, TurnedIs
  <1>4. CASE active = p /\ gnc # "take"
    <2>1. I = {}
      BY <1>1, <1>3, <1>4, EntriesAreUsed DEF EntriesApart
    <2> QED BY <1>4, <2>1, FS_EmptySet DEF Places
  <1>5. CASE ~(active = p /\ gnc # "take")
    <2>1. PICK s \in Slots : Used(s) /\ list[s] = p
      BY <1>1, <1>5 DEF NobodyLost
    <2>2. PICK k \in 0..(Entries - 1) : Turned(k) = s
      BY <2>1, EntriesAreUsed
    <2>3. I = {k}
      <3>1. k \in I
        BY <2>1, <2>2, EntriesAreUsed
      <3>2. ASSUME NEW i \in I PROVE i = k
        <4>1. Turned(i) = s
          BY <1>1, <1>3, <2>1, <3>2, EntriesAreUsed DEF EntriesApart
        <4> QED BY <2>2, <4>1, EntriesAreUsed
      <3> QED BY <3>1, <3>2
    <2>4. Cardinality(I) = 1
      BY <2>3, FS_Singleton
    <2> HIDE DEF I
    <2>5. Places(p) = Cardinality(I)
      BY <1>5, <2>4 DEF Places, I
    <2> QED BY <2>4, <2>5
  <1> QED BY <1>4, <1>5

(* RingInv is an invariant. *)
LEMMA RingInvariant ==
    ASSUME Idle \notin Killable PROVE Spec => [](RingTypeOK /\ PcbInv /\ RingInv)
  BY RingTypeInit, PcbInit, RingInit, RingTypeStep, PcbStep, RingStep, PTL DEF Spec

(* RingKeepsEveryone: the ring, whatever its size, keeps every living process *)
(* in exactly one place, as long as no slice ended inside process_run and     *)
(* there was a slot for everybody.  If the idle process could be killed, the  *)
(* ring could run empty and get_next_context would take from it all the same. *)
THEOREM RingKeepsEveryoneAlways ==
    ASSUME Idle \notin Killable PROVE Spec => []RingKeepsEveryone
  <1>1. RingTypeOK /\ RingInv => RingKeepsEveryone
    BY InvImpliesKept DEF RingKeepsEveryone, Sound
  <1> QED BY <1>1, RingInvariant, PTL

(* NotifyMissesOnlyTheActive: a notify loop wakes everybody that waits, but   *)
(* for the process get_next_context carries and the turn of a full ring.     *)
THEOREM NotifyMissesOnlyTheActiveAlways ==
    ASSUME Idle \notin Killable PROVE Spec => NotifyMissesOnlyTheActive
  <1> DEFINE Reached == ("enqueue" \notin cut /\ ~crowded /\ notify_stdin) =>
                            \A p \in Procs : status'[p] = "WAITING" => p = active \/ FullTurn
  <1>1. RingTypeOK /\ RingInv /\ [Next]_vars => [Reached]_vars
    <2> SUFFICES ASSUME RingTypeOK, RingInv, "enqueue" \notin cut, ~crowded, notify_stdin,
                        NEW p \in Procs, status'[p] = "WAITING", p # active, ~FullTurn
                 PROVE  FALSE
      OBVIOUS
    <2>1. status[p] = "WAITING" /\ p \notin Seen
      BY DEF notify_stdin, RingTypeOK
    <2>2. EntriesApart /\ NobodyLost /\ StatusFits
      BY DEF RingInv, Sound, notify_stdin
    <2>3. PICK s \in Slots : Used(s) /\ list[s] = p
      BY <2>1, <2>2 DEF NobodyLost, StatusFits, Live
    <2>4. PICK i \in 0..(Entries - 1) : Turned(i) = s
      BY <2>3, EntriesAreUsed
    <2>5. Entry(i) = p /\ i \in 0..(Length - 1)
      BY <2>3, <2>4, EntriesAreUsed DEF Entries
    <2> QED BY <2>1, <2>5 DEF Seen
  <1>2. RingTypeOK /\ PcbInv /\ RingInv /\ [Next]_vars => [Reached]_vars
    BY <1>1
  <1> QED BY <1>2, RingInvariant, PTL DEF Spec, NotifyMissesOnlyTheActive
=============================================================================
