--------------------------- MODULE TerminalProofs ---------------------------
(***************************************************************************)
(* Proofs about modules Keyboard, Stdin and Terminal, for every keyboard,     *)
(* number of strokes, size of the buffer and of the reads: strokes that do    *)
(* not overlap are decoded as they were meant; as long as none of the four    *)
(* damaging events has happened the ring is the queue of module LineQueue and *)
(* input_count the number of its lines; and what is echoed is what a reader   *)
(* will get.                                                                 *)
(***************************************************************************)
EXTENDS Terminal, FiniteSetTheorems, FunctionTheorems, SequenceTheorems, WellFoundedInduction, TLAPS

(* The decoder. *)
(* Where the decoder is while the typist is in each phase of a stroke. *)
AllUp ==
    /\ held = {} /\ stroke = {}
    /\ state = "S_INPUT" /\ ~shift /\ ~ctrl
    /\ emitted = meant

ModifierDown ==
    \E m \in Modifiers :
        /\ held = {m} /\ stroke = {m}
        /\ state = "S_INPUT"
        /\ shift = (m = "K_SHIFTDOWN") /\ ctrl = (m = "K_CTRLDOWN")
        /\ emitted = <<>>

PlainKeyDown ==
    \E k \in Keys :
        /\ held = {k} /\ stroke = {k}
        /\ state = "S_NEED_1" /\ key = Down(k)
        /\ shift = FALSE /\ ctrl = FALSE
        /\ emitted = <<>>

(* With both keys down two codes are missing, with one of them down one is,  *)
(* whichever was released first.                                             *)
ModifiedKeyDown ==
    \E k \in Keys, m \in Modifiers :
        /\ stroke = {m, k}
        /\ \/ held = {m, k} /\ state = "S_NEED_2"
           \/ held \in {{m}, {k}} /\ state = "S_NEED_1"
        /\ key = Down(k)
        /\ shift = (m = "K_SHIFTDOWN") /\ ctrl = (m = "K_CTRLDOWN")
        /\ emitted = <<>>

InStep == AllUp \/ ModifierDown \/ PlainKeyDown \/ ModifiedKeyDown

KeyboardInv == apart \in BOOLEAN /\ (apart => InStep)

(* Codes of different keys, or of a press and a release, are different. *)
LEMMA CodesDiffer ==
    /\ \A k \in Keys : k \notin Modifiers
    /\ \A k \in Keys : Down(k) \notin {Down(m) : m \in Modifiers}
    /\ \A k, m : Up(k) # Down(m)
    /\ \A m \in Modifiers : Down(m) \in {Down(n) : n \in Modifiers}
    /\ "K_SHIFTDOWN" # "K_CTRLDOWN"
    /\ Down("K_SHIFTDOWN") # Down("K_CTRLDOWN")
  BY KeysAssumption DEF Down, Up, Modifiers

(* At boot all keys are up. *)
LEMMA InitiallyInStep == KeyInit => KeyboardInv
  BY DEF KeyInit, KeyboardInv, InStep, AllUp

(* What the decoder makes of a press, by the state it is in. *)
LEMMA FeedInput ==
    ASSUME NEW k \in Keys \cup Modifiers, state = "S_INPUT", keyboard_feed(Down(k))
    PROVE  \/ /\ k \in Modifiers
              /\ shift' = (shift \/ k = "K_SHIFTDOWN") /\ ctrl' = (ctrl \/ k = "K_CTRLDOWN")
              /\ emitted' = Before /\ state' = state
           \/ /\ k \in Keys
              /\ key' = Down(k) /\ state' = IF ctrl \/ shift THEN "S_NEED_2" ELSE "S_NEED_1"
              /\ emitted' = Before /\ shift' = shift /\ ctrl' = ctrl
  <1>1. Down(k) = Down("K_SHIFTDOWN") <=> k = "K_SHIFTDOWN"
    BY DEF Down
  <1>2. Down(k) = Down("K_CTRLDOWN") <=> k = "K_CTRLDOWN"
    BY DEF Down
  <1>3. FeedModifier(Down(k)) \/ FeedKey(Down(k))
    BY DEF keyboard_feed, FeedRelease, FeedLast
  <1>4. CASE FeedModifier(Down(k))
    <2>1. k \in Modifiers
      BY <1>4, CodesDiffer DEF FeedModifier
    <2> QED BY <1>1, <1>2, <1>4, <2>1 DEF FeedModifier
  <1>5. CASE FeedKey(Down(k))
    <2>1. k \notin Modifiers
      BY <1>5, CodesDiffer DEF FeedKey
    <2> QED BY <1>5, <2>1 DEF FeedKey
  <1> QED BY <1>3, <1>4, <1>5

(* A press that keeps the strokes apart comes with all keys up or after the  *)
(* modifier it goes with.                                                    *)
LEMMA PressStep ==
    ASSUME KeyboardInv, NEW k \in Keys \cup Modifiers, Press(k)
    PROVE  KeyboardInv'
  <1>1. /\ apart' = (/\ apart /\ held = stroke
                     /\ stroke = {} \/ (k \in Keys /\ \E m \in Modifiers : stroke = {m}))
        /\ held' = held \cup {k} /\ stroke' = stroke \cup {k}
        /\ keyboard_feed(Down(k))
    BY DEF Press
  <1>2. apart' \in BOOLEAN
    BY <1>1
  <1>3. ASSUME apart' PROVE InStep'
    <2>1. apart /\ held = stroke /\ InStep
      BY <1>1, <1>3 DEF KeyboardInv
    <2>2. CASE stroke = {}
      <3>1. AllUp
        BY <2>1, <2>2 DEF InStep, ModifierDown, PlainKeyDown, ModifiedKeyDown
      <3>2. emitted' = <<>>
        BY <1>1, <2>2, <3>1, FeedInput DEF AllUp, Before
      <3>3. CASE k \in Modifiers
        <4>1. /\ state = "S_INPUT" /\ k \notin Keys
              /\ held' = {k} /\ stroke' = {k}
          BY <1>1, <2>2, <3>1, <3>3, CodesDiffer DEF AllUp
        <4>2. /\ shift' = (shift \/ k = "K_SHIFTDOWN") /\ ctrl' = (ctrl \/ k = "K_CTRLDOWN")
              /\ state' = "S_INPUT" /\ ~shift /\ ~ctrl
          BY <1>1, <3>1, <4>1, FeedInput DEF AllUp
        <4>3. shift' = (k = "K_SHIFTDOWN") /\ ctrl' = (k = "K_CTRLDOWN")
          BY <4>2
        <4> QED BY <3>2, <3>3, <4>1, <4>2, <4>3 DEF InStep, ModifierDown
      <3>4. CASE k \in Keys
        BY <1>1, <2>2, <3>1, <3>2, <3>4, FeedInput, CodesDiffer DEF AllUp, InStep, PlainKeyDown
      <3> QED BY <3>3, <3>4
    <2>3. CASE k \in Keys /\ \E m \in Modifiers : stroke = {m}
      <3>1. PICK m \in Modifiers : /\ held = {m} /\ stroke = {m} /\ state = "S_INPUT"
                                   /\ shift = (m = "K_SHIFTDOWN") /\ ctrl = (m = "K_CTRLDOWN")
                                   /\ emitted = <<>>
        BY <2>1, <2>3, CodesDiffer
           DEF InStep, AllUp, ModifierDown, PlainKeyDown, ModifiedKeyDown
      <3>2. ctrl \/ shift
        BY <3>1 DEF Modifiers
      <3>3. /\ key' = Down(k) /\ state' = "S_NEED_2" /\ emitted' = <<>>
            /\ shift' = shift /\ ctrl' = ctrl
        BY <1>1, <2>3, <3>1, <3>2, FeedInput, CodesDiffer DEF Before
      <3> QED BY <1>1, <2>3, <3>1, <3>3 DEF InStep, ModifiedKeyDown
    <2> QED BY <1>1, <1>3, <2>2, <2>3
  <1> QED BY <1>2, <1>3 DEF KeyboardInv

(* A release is what the decoder was counting for. *)
LEMMA ReleaseStep ==
    ASSUME KeyboardInv, NEW k \in Keys \cup Modifiers, Release(k)
    PROVE  KeyboardInv'
  <1>1. /\ k \in held /\ held' = held \ {k}
        /\ apart' = (apart /\ stroke \cap Keys # {})
        /\ stroke' = IF held = {k} THEN {} ELSE stroke
        /\ keyboard_feed(Up(k))
    BY DEF Release
  <1>2. apart' \in BOOLEAN
    BY <1>1
  <1>3. ASSUME apart' PROVE InStep'
    <2>1. apart /\ stroke \cap Keys # {} /\ InStep
      BY <1>1, <1>3 DEF KeyboardInv
    <2>2. PlainKeyDown \/ ModifiedKeyDown
      BY <2>1, CodesDiffer DEF InStep, AllUp, ModifierDown
    <2>3. ASSUME NEW p \in Keys, stroke \cap Keys = {p}, held = {k}, key = Down(p),
                 state = "S_NEED_1", emitted = <<>>, stroke # {},
                 shift = ("K_SHIFTDOWN" \in stroke), ctrl = ("K_CTRLDOWN" \in stroke)
          PROVE  AllUp'
      <3>1. /\ emitted' = Append(Before, Char(key, shift, ctrl))
            /\ state' = "S_INPUT" /\ shift' = FALSE /\ ctrl' = FALSE
        BY <1>1, <2>3 DEF keyboard_feed, FeedModifier, FeedKey, FeedRelease, FeedLast
      <3>2. Before = <<>>
        BY <2>3 DEF Before
      <3>3. (CHOOSE q \in Keys : q \in stroke) = p
        BY <2>3
      <3>4. meant' = <<Char(Down(p), "K_SHIFTDOWN" \in stroke, "K_CTRLDOWN" \in stroke)>>
        BY <1>3, <2>3, <3>3 DEF Release
      <3>5. emitted' = meant'
        BY <2>3, <3>1, <3>2, <3>4
      <3> QED BY <1>1, <2>3, <3>1, <3>5 DEF AllUp
    <2>4. CASE PlainKeyDown
      <3>1. PICK p \in Keys : /\ held = {p} /\ stroke = {p}
                              /\ state = "S_NEED_1" /\ key = Down(p)
                              /\ shift = FALSE /\ ctrl = FALSE
                              /\ emitted = <<>>
        BY <2>4 DEF PlainKeyDown
      <3>2. ("K_SHIFTDOWN" \in stroke) = FALSE /\ ("K_CTRLDOWN" \in stroke) = FALSE
        BY <3>1, CodesDiffer DEF Modifiers
      <3>3. stroke \cap Keys = {p} /\ held = {k} /\ stroke # {}
        BY <1>1, <3>1
      <3>4. shift = ("K_SHIFTDOWN" \in stroke) /\ ctrl = ("K_CTRLDOWN" \in stroke)
        BY <3>1, <3>2
      <3> QED BY <2>3, <3>1, <3>3, <3>4 DEF InStep
    <2>5. CASE ModifiedKeyDown
      <3>1. PICK p \in Keys, m \in Modifiers :
                /\ stroke = {m, p}
                /\ \/ held = {m, p} /\ state = "S_NEED_2"
                   \/ held \in {{m}, {p}} /\ state = "S_NEED_1"
                /\ key = Down(p)
                /\ shift = (m = "K_SHIFTDOWN") /\ ctrl = (m = "K_CTRLDOWN")
                /\ emitted = <<>>
        BY <2>5 DEF ModifiedKeyDown
      <3>2. /\ stroke \cap Keys = {p} /\ stroke # {} /\ m # p
            /\ ("K_SHIFTDOWN" \in stroke) = (m = "K_SHIFTDOWN")
            /\ ("K_CTRLDOWN" \in stroke) = (m = "K_CTRLDOWN")
        BY <3>1, CodesDiffer DEF Modifiers
      <3>3. CASE held \in {{m}, {p}} /\ state = "S_NEED_1"
        <4>1. held = {k}
          BY <1>1, <3>3
        <4> QED BY <2>3, <3>1, <3>2, <3>3, <4>1 DEF InStep
      <3>4. CASE held = {m, p} /\ state = "S_NEED_2"
        <4>1. /\ state' = "S_NEED_1" /\ emitted' = Before
              /\ key' = key /\ shift' = shift /\ ctrl' = ctrl
          BY <1>1, <3>4 DEF keyboard_feed, FeedModifier, FeedKey, FeedRelease, FeedLast
        <4>2. emitted' = <<>>
          BY <3>1, <4>1 DEF Before
        <4>3. stroke' = {m, p} /\ held' \in {{m}, {p}}
          BY <1>1, <3>1, <3>2, <3>4
        <4> QED BY <3>1, <4>1, <4>2, <4>3 DEF InStep, ModifiedKeyDown
      <3> QED BY <3>1, <3>3, <3>4
    <2> QED BY <2>2, <2>4, <2>5
  <1> QED BY <1>2, <1>3 DEF KeyboardInv

(* For all keys and any number of strokes: a stroke that is over before the  *)
(* next begins gives its own character and leaves the decoder in S_INPUT.    *)
THEOREM DecodedAsMeantAlways == KeySpec => []DecodedAsMeant
  <1>1. KeyboardInv /\ [KeyNext]_keyVars => KeyboardInv'
    <2> SUFFICES ASSUME KeyboardInv, [KeyNext]_keyVars PROVE KeyboardInv'
      OBVIOUS
    <2>1. CASE UNCHANGED keyVars
      BY <2>1 DEF keyVars, decoderVars, typistVars, KeyboardInv, InStep, AllUp,
                  ModifierDown, PlainKeyDown, ModifiedKeyDown
    <2> QED BY <2>1, PressStep, ReleaseStep DEF KeyNext, AllTyped
  <1>2. KeyboardInv => DecodedAsMeant
    BY DEF KeyboardInv, InStep, AllUp, ModifierDown, PlainKeyDown, ModifiedKeyDown,
           DecodedAsMeant
  <1> QED BY <1>1, <1>2, InitiallyInStep, PTL DEF KeySpec
-----------------------------------------------------------------------------
(* The input ring. *)
N == STDIN_BUFFER_SIZE
RingChars == Chars \cup {"nul"}
Ring == [Slots -> RingChars]
After(s) == IF s = N - 1 THEN 0 ELSE s + 1
Held(s, e) == IF s <= e THEN e - s ELSE e - s + N
At(s, k) == IF s + k - 1 < N THEN s + k - 1 ELSE s + k - 1 - N

(* The first n characters of a ring b from slot s on. *)
Listing(b, s, n) == [k \in 1..n |-> b[At(s, k)]]

(* The window of a ring b with the indices s and e. *)
WindowOf(b, s, e) == [k \in 1..((e - s) % N) |-> b[(s + k - 1) % N]]

(* C's % at the places the code uses it. *)
LEMMA WrapIs ==
    ASSUME NEW s \in Slots
    PROVE  Wrap(s + 1) = After(s) /\ After(s) \in Slots /\ (s > 0 => Wrap(s - 1) = s - 1)
  BY SizeAssumption DEF Wrap, After, Slots, N

(* The window counts from start_point to end_point, around the wrap. *)
LEMMA WindowIs ==
    ASSUME NEW b, NEW s \in Slots, NEW e \in Slots
    PROVE  /\ Held(s, e) \in 0..(N - 1)
           /\ \A k \in 1..Held(s, e) : At(s, k) \in Slots
           /\ WindowOf(b, s, e) = Listing(b, s, Held(s, e))
  <1>1. s \in 0..(N - 1) /\ e \in 0..(N - 1) /\ N \in Nat /\ N > 1
    BY SizeAssumption DEF Slots, N
  <1>2. (e - s) % N = Held(s, e)
    <2>1. CASE s <= e
      BY <1>1, <2>1 DEF Held
    <2>2. CASE ~(s <= e)
      BY <1>1, <2>2 DEF Held
    <2> QED BY <2>1, <2>2
  <1>3. Held(s, e) \in 0..(N - 1)
    BY <1>1 DEF Held
  <1>4. ASSUME NEW k \in 1..Held(s, e) PROVE (s + k - 1) % N = At(s, k) /\ At(s, k) \in Slots
    <2>1. k \in 1..(N - 1)
      BY <1>1, <1>3
    <2>2. CASE s + k - 1 < N
      BY <1>1, <2>1, <2>2 DEF At, Slots, N
    <2>3. CASE ~(s + k - 1 < N)
      BY <1>1, <2>1, <2>3 DEF At, Slots, N
    <2> QED BY <2>2, <2>3
  <1> QED BY <1>2, <1>3, <1>4 DEF WindowOf, Listing

(* Storing a character at the end of a ring that is not full appends it. *)
LEMMA WindowAppends ==
    ASSUME NEW b \in Ring, NEW s \in Slots, NEW e \in Slots, NEW c \in Chars, After(e) # s
    PROVE  WindowOf([b EXCEPT ![e] = c], s, After(e)) = Append(WindowOf(b, s, e), c)
  <1>1. s \in 0..(N - 1) /\ e \in 0..(N - 1) /\ N \in Nat /\ N > 1 /\ After(e) \in Slots
    BY SizeAssumption, WrapIs DEF Slots, N
  <1>2. Held(s, After(e)) = Held(s, e) + 1 /\ Held(s, e) \in Nat
    BY <1>1 DEF Held, After
  <1>3. At(s, Held(s, e) + 1) = e
    BY <1>1 DEF At, Held
  <1>4. \A k \in 1..Held(s, e) : At(s, k) \in Slots /\ At(s, k) # e
    <2> TAKE k \in 1..Held(s, e)
    <2>1. At(s, k) \in Slots
      BY WindowIs
    <2>2. At(s, k) # e
      BY <1>1 DEF At, Held
    <2> QED BY <2>1, <2>2
  <1>5. \A k \in 1..(Held(s, e) + 1) :
           [b EXCEPT ![e] = c][At(s, k)] = IF k = Held(s, e) + 1 THEN c ELSE b[At(s, k)]
    BY <1>2, <1>3, <1>4 DEF Ring
  <1>6. WindowOf([b EXCEPT ![e] = c], s, After(e)) =
            [k \in 1..(Held(s, e) + 1) |-> IF k = Held(s, e) + 1 THEN c ELSE b[At(s, k)]]
    <2>1. WindowOf([b EXCEPT ![e] = c], s, After(e))
            = Listing([b EXCEPT ![e] = c], s, Held(s, e) + 1)
      BY <1>1, <1>2, WindowIs
    <2> QED BY <1>5, <2>1 DEF Listing
  <1>7. WindowOf(b, s, e) = Listing(b, s, Held(s, e))
    BY WindowIs
  <1>8. /\ WindowOf(b, s, e) \in Seq(RingChars)
        /\ Len(WindowOf(b, s, e)) = Held(s, e)
        /\ \A k \in 1..Held(s, e) : WindowOf(b, s, e)[k] = b[At(s, k)]
    <2>1. \A k \in 1..Held(s, e) : b[At(s, k)] \in RingChars
      BY <1>4 DEF Ring
    <2> QED BY <1>2, <1>7, <2>1 DEF Listing
  <1> DEFINE T == RingChars
             w == WindowOf(b, s, e)
             v == WindowOf([b EXCEPT ![e] = c], s, After(e))
  <1>9. /\ v \in Seq(T) /\ Len(v) = Len(w) + 1
        /\ \A k \in 1..Len(w) : v[k] = w[k]
        /\ v[Len(w) + 1] = c
    <2>1. \A k \in 1..Held(s, e) : b[At(s, k)] \in T
      BY <1>4 DEF Ring
    <2>2. v = [k \in 1..(Held(s, e) + 1) |-> IF k = Held(s, e) + 1 THEN c ELSE b[At(s, k)]]
      BY <1>6
    <2> HIDE DEF v
    <2>3. v \in Seq(T) /\ Len(v) = Held(s, e) + 1
      BY <1>2, <2>1, <2>2 DEF RingChars
    <2>4. v[Held(s, e) + 1] = c /\ \A k \in 1..Held(s, e) : v[k] = b[At(s, k)]
      BY <1>2, <2>2
    <2> QED BY <1>8, <2>3, <2>4
  <1>10. w \in Seq(T) /\ c \in T /\ Len(w) \in Nat
    BY <1>2, <1>8 DEF RingChars
  <1> HIDE DEF T, w, v
  <1>11. /\ Append(w, c) \in Seq(T) /\ Len(Append(w, c)) = Len(w) + 1
         /\ \A k \in 1..Len(w) : Append(w, c)[k] = w[k]
         /\ Append(w, c)[Len(w) + 1] = c
    BY <1>10, AppendProperties
  <1>12. v = Append(w, c)
    BY <1>9, <1>10, <1>11, SeqEqual
  <1> QED BY <1>12 DEF w, v

(* Moving the end back takes the last character off. *)
LEMMA WindowErases ==
    ASSUME NEW b \in Ring, NEW s \in Slots, NEW e \in Slots, s # e, e > 0
    PROVE  /\ WindowOf(b, s, e) # <<>>
           /\ WindowOf(b, s, e - 1) = SubSeq(WindowOf(b, s, e), 1, Len(WindowOf(b, s, e)) - 1)
           /\ WindowOf(b, s, e)[Len(WindowOf(b, s, e))] = b[e - 1]
  <1>1. s \in 0..(N - 1) /\ e \in 0..(N - 1) /\ N \in Nat /\ N > 1 /\ e - 1 \in Slots
    BY SizeAssumption DEF Slots, N
  <1>2. Held(s, e - 1) = Held(s, e) - 1 /\ Held(s, e) \in Nat /\ Held(s, e) > 0
    BY <1>1 DEF Held
  <1>3. WindowOf(b, s, e) = Listing(b, s, Held(s, e))
    BY WindowIs
  <1>4. WindowOf(b, s, e - 1) = Listing(b, s, Held(s, e) - 1)
    BY <1>1, <1>2, WindowIs
  <1>5. Len(WindowOf(b, s, e)) = Held(s, e)
    BY <1>2, <1>3 DEF Listing
  <1>6. At(s, Held(s, e)) = e - 1
    BY <1>1 DEF At, Held
  <1> QED BY <1>2, <1>3, <1>4, <1>5, <1>6 DEF Listing

(* Moving the start forward takes the first character off. *)
LEMMA WindowTakes ==
    ASSUME NEW b \in Ring, NEW s \in Slots, NEW e \in Slots, s # e
    PROVE  /\ WindowOf(b, s, e) # <<>>
           /\ WindowOf(b, After(s), e) = Tail(WindowOf(b, s, e))
           /\ WindowOf(b, s, e)[1] = b[s]
  <1>1. s \in 0..(N - 1) /\ e \in 0..(N - 1) /\ N \in Nat /\ N > 1 /\ After(s) \in Slots
    BY SizeAssumption, WrapIs DEF Slots, N
  <1>2. Held(After(s), e) = Held(s, e) - 1 /\ Held(s, e) \in Nat /\ Held(s, e) > 0
    BY <1>1 DEF Held, After
  <1>3. WindowOf(b, s, e) = Listing(b, s, Held(s, e))
    BY WindowIs
  <1>4. WindowOf(b, After(s), e) = Listing(b, After(s), Held(s, e) - 1)
    BY <1>1, <1>2, WindowIs
  <1>5. \A k \in 1..(Held(s, e) - 1) : At(After(s), k) = At(s, k + 1)
    BY <1>1 DEF At, After, Held
  <1>6. At(s, 1) = s
    BY <1>1 DEF At
  <1> QED BY <1>2, <1>3, <1>4, <1>5, <1>6 DEF Listing
-----------------------------------------------------------------------------
(* The number of lines in a sequence of characters. *)
LineEnds(w) == {k \in DOMAIN w : w[k] \in Terminators}

(* LinesIn counts a finite set; a sequence with a line in it is not empty. *)
LEMMA LinesFinite ==
    ASSUME NEW T, NEW w \in Seq(T)
    PROVE  /\ LinesIn(w) = Cardinality(LineEnds(w)) /\ LinesIn(w) \in Nat
           /\ \A k : k \in LineEnds(w) <=> (k \in 1..Len(w) /\ w[k] \in Terminators)
           /\ IsFiniteSet(LineEnds(w))
           /\ LinesIn(w) > 0 => w # <<>>
  <1>1. Len(w) \in Nat /\ LineEnds(w) = {k \in 1..Len(w) : w[k] \in Terminators}
    BY DEF LineEnds
  <1>2. IsFiniteSet(1..Len(w))
    BY <1>1, FS_Interval
  <1>3. IsFiniteSet(LineEnds(w))
    BY <1>1, <1>2, FS_Subset
  <1>4. LinesIn(w) = Cardinality(LineEnds(w)) /\ LinesIn(w) \in Nat
    BY <1>3, FS_CardinalityType DEF LinesIn, LineEnds
  <1>5. w = <<>> => LineEnds(w) = {}
    BY <1>1
  <1> QED BY <1>1, <1>3, <1>4, <1>5, FS_EmptySet

(* What typing, erasing and taking a character do to it. *)
LEMMA LinesTyped ==
    ASSUME NEW T, NEW w \in Seq(T), NEW c \in T
    PROVE  LinesIn(Append(w, c)) = LinesIn(w) + (IF c \in Terminators THEN 1 ELSE 0)
  <1>1. /\ Append(w, c) \in Seq(T) /\ Len(w) \in Nat
        /\ Len(Append(w, c)) = Len(w) + 1
        /\ \A k \in 1..Len(w) : Append(w, c)[k] = w[k]
        /\ Append(w, c)[Len(w) + 1] = c
    BY AppendProperties, LenProperties
  <1>2. LineEnds(Append(w, c)) =
            IF c \in Terminators THEN LineEnds(w) \cup {Len(w) + 1} ELSE LineEnds(w)
    <2>1. \A k : k \in LineEnds(w) <=> (k \in 1..Len(w) /\ w[k] \in Terminators)
      BY LinesFinite
    <2>2. \A k : k \in LineEnds(Append(w, c)) <=>
                    (k \in 1..(Len(w) + 1) /\ Append(w, c)[k] \in Terminators)
      BY <1>1, LinesFinite
    <2>3. ASSUME NEW k PROVE k \in LineEnds(Append(w, c)) <=>
                                 (k \in LineEnds(w) \/ (k = Len(w) + 1 /\ c \in Terminators))
      <3>1. k \in 1..(Len(w) + 1) <=> (k \in 1..Len(w) \/ k = Len(w) + 1)
        BY <1>1
      <3>2. Len(w) + 1 \notin 1..Len(w)
        BY <1>1
      <3> QED BY <1>1, <2>1, <2>2, <3>1, <3>2
    <2> QED BY <2>3
  <1>3. Len(w) + 1 \notin LineEnds(w)
    BY <1>1, LinesFinite
  <1>4. LinesIn(Append(w, c)) = Cardinality(LineEnds(Append(w, c)))
    BY <1>1, LinesFinite
  <1>5. LinesIn(w) = Cardinality(LineEnds(w)) /\ IsFiniteSet(LineEnds(w)) /\ LinesIn(w) \in Nat
    BY LinesFinite
  <1>6. Cardinality(LineEnds(w) \cup {Len(w) + 1}) = Cardinality(LineEnds(w)) + 1
    BY <1>3, <1>5, FS_AddElement
  <1> QED BY <1>2, <1>4, <1>5, <1>6

(* A sequence without its last element. *)
LEMMA WithoutLast ==
    ASSUME NEW T, NEW w \in Seq(T), w # <<>>
    PROVE  /\ Len(w) \in Nat /\ Len(w) > 0
           /\ SubSeq(w, 1, Len(w) - 1) \in Seq(T)
           /\ Len(SubSeq(w, 1, Len(w) - 1)) = Len(w) - 1
           /\ \A k \in 1..(Len(w) - 1) : SubSeq(w, 1, Len(w) - 1)[k] = w[k]
  <1> DEFINE v == SubSeq(w, 1, Len(w) - 1)
  <1>1. Len(w) \in Nat /\ Len(w) > 0
    BY EmptySeq
  <1>2. \A k \in 1..(Len(w) - 1) : w[k] \in T
    BY <1>1, ElementOfSeq
  <1>3. 1 \in Int /\ Len(w) - 1 \in Int
    BY <1>1
  <1>4. /\ v \in Seq(T)
        /\ Len(v) = IF 1 <= Len(w) - 1 THEN (Len(w) - 1) - 1 + 1 ELSE 0
        /\ \A k \in 1..((Len(w) - 1) - 1 + 1) : v[k] = w[1 + k - 1]
    BY <1>2, <1>3, SubSeqProperties
  <1>5. (Len(w) - 1) - 1 + 1 = Len(w) - 1 /\ \A k \in 1..(Len(w) - 1) : 1 + k - 1 = k
    BY <1>1
  <1> HIDE DEF v
  <1>6. Len(v) = Len(w) - 1
    <2>1. CASE 1 <= Len(w) - 1
      BY <1>4, <1>5, <2>1
    <2>2. CASE ~(1 <= Len(w) - 1)
      <3>1. \A n \in Nat : n > 0 /\ ~(1 <= n - 1) => n - 1 = 0
        OBVIOUS
      <3>2. Len(w) - 1 = 0
        BY <1>1, <2>2, <3>1
      <3> QED BY <1>4, <2>2, <3>2
    <2> QED BY <2>1, <2>2
  <1>7. ASSUME NEW k \in 1..(Len(w) - 1) PROVE v[k] = w[k]
    <2>1. v[k] = w[1 + k - 1]
      BY <1>4, <1>5
    <2>2. 1 + k - 1 = k
      BY <1>5
    <2> QED BY <2>1, <2>2
  <1> QED BY <1>1, <1>4, <1>6, <1>7

(* Erasing a character that ends no line leaves the count. *)
LEMMA LinesErased ==
    ASSUME NEW T, NEW w \in Seq(T), w # <<>>, w[Len(w)] \notin Terminators
    PROVE  LinesIn(SubSeq(w, 1, Len(w) - 1)) = LinesIn(w)
  <1> DEFINE v == SubSeq(w, 1, Len(w) - 1)
  <1>1. /\ v \in Seq(T) /\ Len(w) \in Nat /\ Len(w) > 0 /\ Len(v) = Len(w) - 1
        /\ \A k \in 1..(Len(w) - 1) : v[k] = w[k]
    BY WithoutLast
  <1> HIDE DEF v
  <1>2. LineEnds(v) = LineEnds(w)
    <2>1. \A k : k \in LineEnds(w) <=> (k \in 1..Len(w) /\ w[k] \in Terminators)
      BY LinesFinite
    <2>2. \A k : k \in LineEnds(v) <=> (k \in 1..(Len(w) - 1) /\ v[k] \in Terminators)
      BY <1>1, LinesFinite
    <2>3. ASSUME NEW k PROVE k \in LineEnds(v) <=> k \in LineEnds(w)
      <3>1. k \in 1..Len(w) <=> (k \in 1..(Len(w) - 1) \/ k = Len(w))
        BY <1>1
      <3> QED BY <1>1, <2>1, <2>2, <3>1
    <2> QED BY <2>3
  <1> QED BY <1>1, <1>2, LinesFinite DEF v

(* Taking the first character lowers it by one if that ended a line. *)
LEMMA LinesTaken ==
    ASSUME NEW T, NEW w \in Seq(T), w # <<>>
    PROVE  LinesIn(w) = LinesIn(Tail(w)) + (IF w[1] \in Terminators THEN 1 ELSE 0)
  <1> DEFINE v == Tail(w)
             Rest == LineEnds(w) \ {1}
             f == [k \in LineEnds(v) |-> k + 1]
  <1>1. /\ v \in Seq(T) /\ Len(w) \in Nat /\ Len(w) > 0 /\ Len(v) = Len(w) - 1
        /\ \A k \in 1..Len(v) : v[k] = w[k + 1]
    BY HeadTailProperties, LenProperties, EmptySeq
  <1> HIDE DEF v
  <1>2. /\ LineEnds(v) = {k \in 1..(Len(w) - 1) : w[k + 1] \in Terminators}
        /\ LineEnds(w) = {k \in 1..Len(w) : w[k] \in Terminators}
        /\ IsFiniteSet(LineEnds(v)) /\ IsFiniteSet(LineEnds(w))
        /\ LinesIn(v) = Cardinality(LineEnds(v)) /\ LinesIn(v) \in Nat
        /\ LinesIn(w) = Cardinality(LineEnds(w)) /\ LinesIn(w) \in Nat
    BY <1>1, LinesFinite
  <1>3. f \in Bijection(LineEnds(v), Rest)
    <2>1. f \in [LineEnds(v) -> Rest]
      BY <1>1, <1>2
    <2>2. \A a, b \in LineEnds(v) : f[a] = f[b] => a = b
      BY <1>1, <1>2
    <2>3. ASSUME NEW t \in Rest PROVE \E a \in LineEnds(v) : f[a] = t
      <3>1. t - 1 \in LineEnds(v)
        BY <1>1, <1>2
      <3> QED BY <1>1, <1>2, <3>1
    <2> HIDE DEF f, Rest
    <2> QED BY <2>1, <2>2, <2>3, Fun_IsBij
  <1>4. Cardinality(Rest) = Cardinality(LineEnds(v))
    BY <1>2, <1>3, FS_Bijection DEF ExistsBijection
  <1>5. Cardinality(Rest) =
            IF w[1] \in Terminators THEN Cardinality(LineEnds(w)) - 1 ELSE Cardinality(LineEnds(w))
    <2>1. 1 \in LineEnds(w) <=> w[1] \in Terminators
      BY <1>1, <1>2
    <2> QED BY <1>2, <2>1, FS_RemoveElement
  <1> QED BY <1>2, <1>4, <1>5 DEF v
-----------------------------------------------------------------------------
(* What is true of the ring as long as it is intact. *)
Whole == /\ start_point \in Slots /\ end_point \in Slots
         /\ input_count = LinesIn(Window)
         /\ copying => input_count > 0

StdinInv ==
    /\ buffer \in Ring
    /\ intact \in BOOLEAN
    /\ copying \in BOOLEAN
    /\ input_count \in Int
    /\ intact => Whole

(* One step of the abstract queue, or none. *)
QueueStep == [Queue!Works \/ Queue!Breaks]_Queue!lineVars

(* What an intact ring gives to every step: it is not empty while a line is  *)
(* waiting, and start_point reads the first character.                       *)
LEMMA WholeRing ==
    ASSUME StdinInv, intact
    PROVE  /\ Window = WindowOf(buffer, start_point, end_point)
           /\ Window \in Seq(RingChars)
           /\ input_count > 0 => start_point # end_point
           /\ Current = {buffer[start_point]}
  <1> DEFINE s == start_point
             e == end_point
  <1>1. buffer \in Ring /\ s \in Slots /\ e \in Slots /\ input_count = LinesIn(Window)
    BY DEF StdinInv, Whole
  <1>2. Window = WindowOf(buffer, s, e)
    BY DEF Window, WindowOf, N
  <1>3. /\ WindowOf(buffer, s, e) = Listing(buffer, s, Held(s, e))
        /\ Held(s, e) \in Nat
        /\ \A k \in 1..Held(s, e) : At(s, k) \in Slots
    <2>1. /\ Held(s, e) \in 0..(N - 1) /\ N \in Nat
          /\ \A k \in 1..Held(s, e) : At(s, k) \in Slots
          /\ WindowOf(buffer, s, e) = Listing(buffer, s, Held(s, e))
      BY <1>1, WindowIs, SizeAssumption DEF N
    <2> HIDE DEF s, e
    <2> QED BY <2>1
  <1> HIDE DEF s, e
  <1>4. \A k \in 1..Held(s, e) : buffer[At(s, k)] \in RingChars
    BY <1>1, <1>3 DEF Ring
  <1>5. Listing(buffer, s, Held(s, e)) \in Seq(RingChars)
    BY <1>3, <1>4 DEF Listing
  <1>6. ASSUME s = e PROVE Window = <<>>
    <2>1. s \in Int
      BY <1>1, SizeAssumption DEF Slots
    <2>2. Held(s, e) = 0
      BY <1>6, <2>1 DEF Held
    <2> QED BY <1>2, <1>3, <2>2 DEF Listing
  <1>7. input_count > 0 => Window # <<>>
    BY <1>1, <1>2, <1>3, <1>5, LinesFinite
  <1>8. Current = {buffer[s]}
    BY <1>1 DEF Current, s
  <1> QED BY <1>2, <1>3, <1>5, <1>6, <1>7, <1>8 DEF s, e

(* A step that leaves the ring alone. *)
LEMMA RingAlone ==
    ASSUME StdinInv, UNCHANGED ringVars, intact' = intact, copying' \in BOOLEAN,
           copying' => copying \/ input_count > 0
    PROVE  StdinInv' /\ QueueStep
  <1>1. UNCHANGED <<buffer, start_point, end_point, input_count, intact>>
    BY DEF ringVars
  <1>2. UNCHANGED Queue!lineVars /\ Window' = Window
    BY <1>1 DEF Queue!lineVars, Window
  <1>3. QueueStep
    BY <1>2 DEF QueueStep
  <1>4. StdinInv'
    BY <1>1, <1>2 DEF StdinInv, Whole, Ring
  <1> QED BY <1>3, <1>4

(* A step after which the ring is not intact. *)
LEMMA RingDamaged ==
    ASSUME buffer' \in Ring, intact' = FALSE, copying' \in BOOLEAN, input_count' \in Int
    PROVE  StdinInv' /\ QueueStep
  BY DEF StdinInv, QueueStep, Queue!Breaks
-----------------------------------------------------------------------------
(* What a step may do to the window of an intact ring. *)
Queued(c) == intact /\ Window \in Seq(RingChars) /\ Window' = Append(Window, c)
TakenBack ==
    /\ intact /\ Window \in Seq(RingChars)
    /\ Window # <<>> /\ Window[Len(Window)] \notin Terminators
    /\ Window' = SubSeq(Window, 1, Len(Window) - 1)
ReadOff ==
    /\ intact /\ Window \in Seq(RingChars)
    /\ Window # <<>> /\ LinesIn(Window) > 0
    /\ Window' = Tail(Window)

(* Storing a typed character. *)
LEMMA StoredStep ==
    ASSUME StdinInv, NEW c \in Chars, AddStored(c), copying' = copying
    PROVE  StdinInv' /\ QueueStep /\ (intact' => Queued(c))
  <1>1. buffer' = Store(end_point, c) /\ start_point' = start_point /\ intact' = intact
    BY DEF AddStored
  <1>2. buffer' \in Ring
    BY <1>1 DEF StdinInv, Store, Ring, RingChars
  <1>3. input_count' \in Int /\ copying' \in BOOLEAN
    BY DEF StdinInv, AddStored
  <1>4. CASE ~intact
    BY <1>1, <1>2, <1>3, <1>4, RingDamaged DEF StdinInv
  <1>5. CASE intact
    <2>1. /\ buffer \in Ring /\ start_point \in Slots /\ end_point \in Slots
          /\ input_count = LinesIn(Window) /\ (copying => input_count > 0)
      BY <1>5 DEF StdinInv, Whole
    <2>2. end_point' = After(end_point) /\ After(end_point) \in Slots
          /\ After(end_point) # start_point
      BY <2>1, WrapIs DEF AddStored, Full
    <2>3. buffer' = [buffer EXCEPT ![end_point] = c]
      BY <1>1, <2>1 DEF Store
    <2>4. Window' = WindowOf(buffer', start_point', end_point')
      BY DEF Window, WindowOf, N
    <2>5. /\ Window = WindowOf(buffer, start_point, end_point)
          /\ Window \in Seq(RingChars)
      BY <1>5, WholeRing
    <2>6. Window' = Append(Window, c)
      <3>1. WindowOf([buffer EXCEPT ![end_point] = c], start_point, After(end_point))
              = Append(WindowOf(buffer, start_point, end_point), c)
        BY <2>1, <2>2, WindowAppends
      <3> QED BY <1>1, <2>2, <2>3, <2>4, <2>5, <3>1
    <2>7. LinesIn(Window') = LinesIn(Window) + (IF c \in Terminators THEN 1 ELSE 0)
      BY <2>5, <2>6, LinesTyped DEF RingChars
    <2>8. input_count' = IF c \in Terminators THEN input_count + 1 ELSE input_count
      BY DEF AddStored
    <2>9. LinesIn(Window) \in Nat
      BY <2>5, LinesFinite
    <2>10. Whole'
      <3>1. start_point' \in Slots /\ end_point' \in Slots
        BY <1>1, <2>1, <2>2
      <3>2. input_count' = LinesIn(Window')
        BY <2>1, <2>7, <2>8, <2>9
      <3>3. copying' => input_count' > 0
        BY <2>1, <2>8, <2>9
      <3>4. Slots' = Slots /\ LinesIn(Window)' = LinesIn(Window')
        BY DEF Slots, LinesIn, Terminators
      <3> QED BY <3>1, <3>2, <3>3, <3>4 DEF Whole
    <2>11. StdinInv'
      BY <1>1, <1>2, <1>3, <1>5, <2>10 DEF StdinInv
    <2>12. QueueStep
      <3>1. Queue!Typed
        BY <2>6 DEF Queue!Typed
      <3> QED BY <1>1, <1>5, <3>1 DEF QueueStep, Queue!Works
    <2> QED BY <1>5, <2>5, <2>6, <2>11, <2>12 DEF Queued
  <1> QED BY <1>4, <1>5

(* A backspace. *)
LEMMA BackspaceStep ==
    ASSUME StdinInv, NEW c, AddBackspace(c), copying' = copying
    PROVE  StdinInv' /\ QueueStep /\ (intact' => TakenBack)
  <1> DEFINE e == end_point
             T == RingChars
  <1>1. /\ UNCHANGED <<buffer, start_point, input_count>>
        /\ intact' = (intact /\ e > 0 /\ buffer[e - 1] \notin Terminators)
        /\ e' = Wrap(e - 1) /\ e # start_point
    BY DEF AddBackspace, Empty
  <1>2. buffer' \in Ring /\ input_count' \in Int /\ copying' \in BOOLEAN
    BY <1>1 DEF StdinInv, Ring
  <1>3. CASE ~intact'
    BY <1>1, <1>2, <1>3, RingDamaged
  <1>4. CASE intact'
    <2>1. /\ buffer \in Ring /\ start_point \in Slots /\ e \in Slots
          /\ input_count = LinesIn(Window) /\ (copying => input_count > 0)
          /\ intact /\ e > 0 /\ buffer[e - 1] \notin Terminators
      BY <1>1, <1>4 DEF StdinInv, Whole
    <2>2. e' = e - 1 /\ e - 1 \in Slots
      BY <1>1, <2>1, WrapIs, SizeAssumption DEF Slots
    <2>3. Window' = WindowOf(buffer', start_point', end_point')
      BY DEF Window, WindowOf, N
    <2>4. Window = WindowOf(buffer, start_point, e) /\ Window \in Seq(T)
      BY <2>1, WholeRing
    <2> HIDE DEF T
    <2>5. /\ WindowOf(buffer, start_point, e) # <<>>
          /\ WindowOf(buffer, start_point, e - 1)
               = SubSeq(WindowOf(buffer, start_point, e), 1,
                        Len(WindowOf(buffer, start_point, e)) - 1)
          /\ WindowOf(buffer, start_point, e)[Len(WindowOf(buffer, start_point, e))]
               = buffer[e - 1]
      BY <1>1, <2>1, WindowErases
    <2>6. /\ Window # <<>> /\ Window[Len(Window)] \notin Terminators
          /\ Window' = SubSeq(Window, 1, Len(Window) - 1)
      BY <1>1, <2>1, <2>2, <2>3, <2>4, <2>5
    <2>7. LinesIn(Window') = LinesIn(Window)
      BY <2>4, <2>6, LinesErased
    <2>8. Whole'
      <3>1. Slots' = Slots /\ LinesIn(Window)' = LinesIn(Window')
        BY DEF Slots, LinesIn, Terminators
      <3> QED BY <1>1, <2>1, <2>2, <2>7, <3>1 DEF Whole
    <2>9. StdinInv'
      BY <1>2, <1>4, <2>8 DEF StdinInv
    <2>10. QueueStep
      <3>1. Queue!Erased
        BY <2>6 DEF Queue!Erased
      <3> QED BY <1>4, <2>1, <3>1 DEF QueueStep, Queue!Works
    <2>11. TakenBack
      BY <2>1, <2>4, <2>6 DEF TakenBack, T
    <2> QED BY <2>9, <2>10, <2>11
  <1> QED BY <1>3, <1>4

(* Taking the first character, which ends a line or does not. *)
LEMMA TakenStep ==
    ASSUME StdinInv, intact, intact', input_count > 0,
           UNCHANGED <<buffer, end_point>>, start_point' = After(start_point),
           input_count' = IF buffer[start_point] \in Terminators THEN input_count - 1
                          ELSE input_count,
           copying' \in BOOLEAN, copying' => buffer[start_point] \notin Terminators
    PROVE  StdinInv' /\ QueueStep /\ ReadOff
  <1> DEFINE s == start_point
             T == RingChars
  <1>1. /\ buffer \in Ring /\ s \in Slots /\ end_point \in Slots
        /\ input_count = LinesIn(Window) /\ input_count \in Int
    BY DEF StdinInv, Whole
  <1>2. Window = WindowOf(buffer, s, end_point) /\ Window \in Seq(T) /\ s # end_point
    BY WholeRing
  <1>3. Window' = WindowOf(buffer', start_point', end_point')
    BY DEF Window, WindowOf, N
  <1> HIDE DEF T
  <1>4. /\ WindowOf(buffer, s, end_point) # <<>>
        /\ WindowOf(buffer, After(s), end_point) = Tail(WindowOf(buffer, s, end_point))
        /\ WindowOf(buffer, s, end_point)[1] = buffer[s]
    BY <1>1, <1>2, WindowTakes
  <1>5. Window # <<>> /\ Window' = Tail(Window) /\ Window[1] = buffer[s]
    BY <1>2, <1>3, <1>4
  <1>6. LinesIn(Window) = LinesIn(Window') + (IF buffer[s] \in Terminators THEN 1 ELSE 0)
    BY <1>2, <1>5, LinesTaken
  <1>7. LinesIn(Window') \in Nat
    <2>1. Window' \in Seq(T)
      BY <1>2, <1>5, HeadTailProperties
    <2> QED BY <2>1, LinesFinite
  <1>8. input_count' = LinesIn(Window')
    BY <1>1, <1>6, <1>7
  <1>9. Whole'
    <2>1. After(s) \in Slots
      BY <1>1, WrapIs
    <2>2. Slots' = Slots /\ LinesIn(Window)' = LinesIn(Window')
      BY DEF Slots, LinesIn, Terminators
    <2>3. copying' => input_count' > 0
      OBVIOUS
    <2> QED BY <1>1, <1>8, <2>1, <2>2, <2>3 DEF Whole
  <1>10. StdinInv'
    <2>1. input_count' \in Int
      BY <1>7, <1>8
    <2>2. buffer' \in Ring
      BY <1>1 DEF Ring, Slots, Chars, N
    <2>3. (buffer \in Ring)'
      BY <2>2 DEF Ring, Slots, Chars
    <2>4. intact' \in BOOLEAN
      BY DEF StdinInv
    <2> QED BY <1>9, <2>1, <2>3 DEF StdinInv
  <1>11. QueueStep
    <2>1. Queue!Taken
      BY <1>5 DEF Queue!Taken
    <2> QED BY <2>1 DEF QueueStep, Queue!Works
  <1>12. ReadOff
    BY <1>1, <1>2, <1>5 DEF ReadOff, T
  <1> QED BY <1>10, <1>11, <1>12

(* The three ways copy_input takes a character. *)
LEMMA CopyEofStep ==
    ASSUME StdinInv, CopyEof
    PROVE  StdinInv' /\ QueueStep /\ (intact' => ReadOff)
  <1>1. /\ UNCHANGED <<buffer, end_point, copying>> /\ ~copying
        /\ start_point' = start_point + 1 /\ input_count' = input_count - 1
        /\ input_count > 0 /\ "eof" \in Current
        /\ intact' = (intact /\ start_point + 1 \in Slots)
    BY DEF CopyEof, buffer_is_ready
  <1>2. buffer' \in Ring /\ input_count' \in Int /\ copying' \in BOOLEAN
    BY <1>1 DEF StdinInv, Ring
  <1>3. CASE ~intact'
    BY <1>1, <1>2, <1>3, RingDamaged
  <1>4. CASE intact'
    <2>1. intact /\ start_point + 1 \in Slots /\ start_point \in Slots
      BY <1>1, <1>4 DEF StdinInv, Whole
    <2>2. buffer[start_point] = "eof"
      BY <1>1, <2>1, WholeRing
    <2>3. start_point' = After(start_point)
      BY <1>1, <2>1, SizeAssumption DEF Slots, After, N
    <2> QED BY <1>1, <1>2, <1>4, <2>1, <2>2, <2>3, TakenStep DEF Terminators
  <1> QED BY <1>3, <1>4

(* copy_input takes a character that ends no line, or meets a ctrl-D. *)
LEMMA CopyCharStep ==
    ASSUME StdinInv, CopyChar
    PROVE  StdinInv' /\ QueueStep /\ (intact' => ReadOff)
  <1>1. PICK c \in Current \ {"nl"} : intact' = (intact /\ c # "eof")
    BY DEF CopyChar
  <1>2. /\ UNCHANGED <<buffer, end_point, input_count>> /\ copying
        /\ start_point' = Wrap(start_point + 1) /\ copying' \in BOOLEAN
    BY DEF CopyChar, StdinInv
  <1>3. buffer' \in Ring /\ input_count' \in Int
    BY <1>2 DEF StdinInv, Ring
  <1>4. CASE ~intact'
    BY <1>1, <1>2, <1>3, <1>4, RingDamaged
  <1>5. CASE intact'
    <2>1. intact /\ c # "eof" /\ start_point \in Slots /\ input_count > 0
      BY <1>1, <1>2, <1>5 DEF StdinInv, Whole
    <2>2. buffer[start_point] \notin Terminators
      BY <1>1, <2>1, WholeRing DEF Terminators
    <2>3. start_point' = After(start_point)
      BY <1>2, <2>1, WrapIs
    <2> QED BY <1>2, <1>5, <2>1, <2>2, <2>3, TakenStep
  <1> QED BY <1>4, <1>5

(* copy_input takes the newline it stops at. *)
LEMMA CopyNewlineStep ==
    ASSUME StdinInv, CopyNewline
    PROVE  StdinInv' /\ QueueStep /\ (intact' => ReadOff)
  <1>1. /\ UNCHANGED <<buffer, end_point, intact>> /\ copying /\ copying' = FALSE
        /\ start_point' = Wrap(start_point + 1) /\ input_count' = input_count - 1
        /\ "nl" \in Current
    BY DEF CopyNewline
  <1>2. buffer' \in Ring /\ input_count' \in Int
    BY <1>1 DEF StdinInv, Ring
  <1>3. CASE ~intact
    <2>1. intact' = FALSE /\ copying' \in BOOLEAN
      BY <1>1, <1>3 DEF StdinInv
    <2> QED BY <1>2, <2>1, RingDamaged
  <1>4. CASE intact
    <2>1. start_point \in Slots /\ input_count > 0 /\ intact'
      BY <1>1, <1>4 DEF StdinInv, Whole
    <2>2. buffer[start_point] \in Terminators
      BY <1>1, <1>4, WholeRing DEF Terminators
    <2>3. start_point' = After(start_point)
      BY <1>1, <2>1, WrapIs
    <2> QED BY <1>1, <1>4, <2>1, <2>2, <2>3, TakenStep
  <1> QED BY <1>3, <1>4
-----------------------------------------------------------------------------
(* The invariant holds at boot, where the queue is empty. *)
LEMMA InitiallyWhole == Init => StdinInv /\ Queue!QueueInit
  <1> SUFFICES ASSUME Init PROVE StdinInv /\ Queue!QueueInit
    OBVIOUS
  <1>1. 0 \in Slots
    BY SizeAssumption DEF Slots
  <1>2. /\ start_point = 0 /\ end_point = 0 /\ input_count = 0
        /\ copying = FALSE /\ intact = TRUE /\ buffer = [s \in Slots |-> "nul"]
    BY DEF Init
  <1>3. Window = <<>>
    <2>1. WindowOf(buffer, 0, 0) = Listing(buffer, 0, Held(0, 0))
      BY <1>1, WindowIs
    <2>2. Held(0, 0) = 0
      BY DEF Held
    <2>3. Window = WindowOf(buffer, 0, 0)
      BY <1>2 DEF Window, WindowOf, N
    <2> QED BY <2>1, <2>2, <2>3 DEF Listing
  <1>4. LinesIn(Window) = 0
    <2>1. DOMAIN Window = {}
      BY <1>3
    <2>2. {k \in DOMAIN Window : Window[k] \in Terminators} = {}
      BY <2>1
    <2> QED BY <2>2, FS_EmptySet DEF LinesIn
  <1>5. Whole
    BY <1>1, <1>2, <1>4 DEF Whole
  <1>6. buffer \in Ring
    BY <1>2 DEF Ring, RingChars
  <1>7. StdinInv
    <2>1. intact \in BOOLEAN /\ copying \in BOOLEAN
      BY <1>2, Zenon
    <2>2. input_count \in Int
      BY <1>2
    <2> QED BY <1>5, <1>6, <2>1, <2>2 DEF StdinInv
  <1> QED BY <1>2, <1>3, <1>7 DEF Queue!QueueInit

(* Every step keeps the invariant and is one of the queue, or none. *)
LEMMA EveryStep ==
    ASSUME StdinInv, [Next]_vars
    PROVE  StdinInv' /\ QueueStep
  <1>1. ASSUME NEW c \in Chars \cup {"bs"}, buffer_add_char(c) PROVE StdinInv' /\ QueueStep
    <2>1. UNCHANGED copying /\ copying \in BOOLEAN
      BY <1>1 DEF buffer_add_char, copyVars, StdinInv
    <2>2. CASE AddIgnored(c)
      BY <2>1, <2>2, RingAlone DEF AddIgnored
    <2>3. CASE AddBackspace(c)
      BY <2>1, <2>3, BackspaceStep
    <2>4. CASE AddStored(c)
      <3>1. c \in Chars
        BY <2>4 DEF AddStored
      <3> QED BY <2>1, <2>4, <3>1, StoredStep
    <2> QED BY <1>1, <2>2, <2>3, <2>4 DEF buffer_add_char
  <1>2. ASSUME NEW n \in ReadSizes, CopyStart(n) PROVE StdinInv' /\ QueueStep
    <2>1. UNCHANGED ringVars /\ intact' = intact /\ copying' = TRUE /\ input_count > 0
      BY <1>2 DEF CopyStart, buffer_is_ready
    <2> QED BY <2>1, RingAlone
  <1>3. CASE UNCHANGED vars
    <2>1. UNCHANGED ringVars /\ intact' = intact /\ copying' = copying /\ copying' \in BOOLEAN
      BY <1>3 DEF vars, copyVars, StdinInv
    <2> QED BY <2>1, RingAlone
  <1> QED BY <1>1, <1>2, <1>3, CopyEofStep, CopyCharStep, CopyNewlineStep
          DEF Next, copy_input, Done

(* StdinInv holds in every reachable state. *)
LEMMA StdinInvAlways == Spec => []StdinInv
  BY InitiallyWhole, EveryStep, PTL DEF Spec

(* Of every buffer size: input_count is the number of line ends between      *)
(* start_point and end_point whenever an interrupt or the reader can look.   *)
THEOREM CountMatchesLinesAlways == Spec => []CountMatchesLines
  <1>1. StdinInv => CountMatchesLines
    BY DEF StdinInv, Whole, CountMatchesLines
  <1> QED BY <1>1, StdinInvAlways, PTL

(* Of every buffer size: until one of the damaging events, typing and         *)
(* reading interleaved at any character implement the abstract queue.        *)
THEOREM RingIsQueue == Spec => ImplementsLineQueue
  <1>1. StdinInv /\ [Next]_vars => [Queue!Works \/ Queue!Breaks]_Queue!lineVars
    BY EveryStep DEF QueueStep
  <1> QED BY <1>1, InitiallyWhole, StdinInvAlways, PTL
          DEF Spec, ImplementsLineQueue, Queue!QueueSpec
-----------------------------------------------------------------------------
(* The line behind the last line end of a sequence of characters. *)
LastEnd(w, m) ==
    /\ m \in 0..Len(w)
    /\ m > 0 => w[m] \in Terminators
    /\ \A k \in (m + 1)..Len(w) : w[k] \notin Terminators

(* A set of numbers that is not empty has a least one. *)
LEMMA Least ==
    ASSUME NEW S \in SUBSET Nat, S # {}
    PROVE  \E m \in S : \A k \in S : m <= k
  <1>1. PICK m \in S : \A y \in S : ~(<<y, m>> \in OpToRel(<, Nat))
    BY NatLessThanWellFounded, WFMin
  <1>2. \A y \in S : ~(y < m)
    BY <1>1 DEF OpToRel
  <1> QED BY <1>2

(* There is a last line end, or it is before the first character. *)
LEMMA LastEndExists ==
    ASSUME NEW T, NEW w \in Seq(T)
    PROVE  \E m : LastEnd(w, m)
  <1>1. Len(w) \in Nat
    BY LenProperties
  <1>2. CASE \A k \in 1..Len(w) : w[k] \notin Terminators
    <2>1. LastEnd(w, 0)
      BY <1>1, <1>2 DEF LastEnd
    <2> QED BY <2>1
  <1>3. CASE \E k \in 1..Len(w) : w[k] \in Terminators
    <2>1. PICK S : S = {Len(w) - k : k \in {j \in 1..Len(w) : w[j] \in Terminators}}
      OBVIOUS
    <2>2. S \in SUBSET Nat /\ S # {}
      BY <1>1, <1>3, <2>1
    <2>3. PICK t \in S : \A u \in S : t <= u
      BY <2>2, Least
    <2>4. PICK m \in 1..Len(w) : w[m] \in Terminators /\ t = Len(w) - m
      BY <2>1, <2>3
    <2>5. ASSUME NEW k \in (m + 1)..Len(w), w[k] \in Terminators PROVE FALSE
      <3>1. k \in 1..Len(w) /\ k \in Int /\ m \in Int /\ k > m
        BY <1>1, <2>4
      <3>2. Len(w) - k \in S
        BY <2>1, <2>5, <3>1
      <3>3. Len(w) - m <= Len(w) - k
        BY <2>3, <2>4, <3>2
      <3> QED BY <1>1, <3>1, <3>3
    <2>6. LastEnd(w, m)
      BY <1>1, <2>4, <2>5 DEF LastEnd
    <2> QED BY <2>6
  <1> QED BY <1>2, <1>3

(* LastLine is what comes after it. *)
LEMMA LastLineIs ==
    ASSUME NEW T, NEW w \in Seq(T), NEW m, LastEnd(w, m)
    PROVE  /\ m \in Nat /\ Len(w) \in Nat /\ m <= Len(w)
           /\ LastLine(w) \in Seq(T) /\ Len(LastLine(w)) = Len(w) - m
           /\ \A k \in 1..(Len(w) - m) : LastLine(w)[k] = w[m + k]
  <1>1. Len(w) \in Nat /\ DOMAIN w = 1..Len(w)
    BY LenProperties
  <1>2. m \in Nat /\ m <= Len(w)
    BY <1>1 DEF LastEnd
  <1> DEFINE ends == {k \in DOMAIN w : w[k] \in Terminators}
             last == IF ends = {} THEN 0 ELSE CHOOSE k \in ends : \A j \in ends : j <= k
  <1>3. LastLine(w) = SubSeq(w, last + 1, Len(w))
    BY Zenon DEF LastLine
  <1>4. last = m
    <2>1. \A j \in ends : j \in Nat /\ j <= m /\ j > 0
      BY <1>1, <1>2 DEF LastEnd
    <2> HIDE DEF ends
    <2>2. CASE m = 0
      <3>1. ends = {}
        BY <2>1, <2>2
      <3> QED BY <2>2, <3>1
    <2>3. CASE m > 0
      <3>1. m \in ends
        BY <1>1, <1>2, <2>3 DEF LastEnd, ends
      <3>2. ASSUME NEW k \in ends, \A j \in ends : j <= k PROVE k = m
        BY <1>2, <2>1, <3>1, <3>2
      <3>3. \A j \in ends : j <= m
        BY <2>1
      <3> QED BY <3>1, <3>2, <3>3
    <2> QED BY <1>2, <2>2, <2>3
  <1>5. LastLine(w) = SubSeq(w, m + 1, Len(w))
    BY <1>3, <1>4
  <1>6. \A k \in (m + 1)..Len(w) : w[k] \in T
    BY <1>1, <1>2, ElementOfSeq
  <1>7. m + 1 \in Int /\ Len(w) \in Int
    BY <1>1, <1>2
  <1>8. /\ LastLine(w) \in Seq(T)
        /\ Len(LastLine(w)) = IF m + 1 <= Len(w) THEN Len(w) - (m + 1) + 1 ELSE 0
        /\ \A k \in 1..(Len(w) - (m + 1) + 1) : LastLine(w)[k] = w[m + 1 + k - 1]
    BY <1>5, <1>6, <1>7, SubSeqProperties
  <1>9. Len(LastLine(w)) = Len(w) - m
    <2>1. CASE m + 1 <= Len(w)
      BY <1>1, <1>2, <1>8, <2>1
    <2>2. CASE ~(m + 1 <= Len(w))
      <3>1. \A n, j \in Nat : j <= n /\ ~(j + 1 <= n) => n - j = 0
        OBVIOUS
      <3>2. Len(w) - m = 0
        BY <1>1, <1>2, <2>2, <3>1
      <3> QED BY <1>8, <2>2, <3>2
    <2> QED BY <2>1, <2>2
  <1>10. ASSUME NEW k \in 1..(Len(w) - m) PROVE LastLine(w)[k] = w[m + k]
    <2>1. k \in 1..(Len(w) - (m + 1) + 1) /\ m + 1 + k - 1 = m + k
      BY <1>1, <1>2
    <2> QED BY <1>8, <2>1
  <1> QED BY <1>1, <1>2, <1>8, <1>9, <1>10

(* Two sequences behind their last line ends. *)
LEMMA SameLastLine ==
    ASSUME NEW T, NEW w \in Seq(T), NEW v \in Seq(T), NEW m, NEW n,
           LastEnd(w, m), LastEnd(v, n), Len(w) - m = Len(v) - n,
           \A k \in 1..(Len(w) - m) : w[m + k] = v[n + k]
    PROVE  LastLine(w) = LastLine(v)
  <1>1. /\ LastLine(w) \in Seq(T) /\ LastLine(v) \in Seq(T)
        /\ Len(LastLine(w)) = Len(w) - m /\ Len(LastLine(v)) = Len(v) - n
        /\ \A k \in 1..(Len(w) - m) : LastLine(w)[k] = w[m + k]
        /\ \A k \in 1..(Len(v) - n) : LastLine(v)[k] = v[n + k]
    BY LastLineIs
  <1>2. \A k \in 1..Len(LastLine(w)) : LastLine(w)[k] = LastLine(v)[k]
    BY <1>1
  <1> QED BY <1>1, <1>2, SeqEqual

(* What typing, erasing and taking a character do to it. *)
LEMMA LastLineTyped ==
    ASSUME NEW T, NEW w \in Seq(T), NEW c \in T
    PROVE  LastLine(Append(w, c)) =
               IF c \in Terminators THEN <<>> ELSE Append(LastLine(w), c)
  <1>1. PICK m : LastEnd(w, m)
    BY LastEndExists
  <1>2. /\ m \in Nat /\ Len(w) \in Nat /\ m <= Len(w)
        /\ LastLine(w) \in Seq(T) /\ Len(LastLine(w)) = Len(w) - m
        /\ \A k \in 1..(Len(w) - m) : LastLine(w)[k] = w[m + k]
    BY <1>1, LastLineIs
  <1>3. PICK v : v = Append(w, c)
    OBVIOUS
  <1>4. /\ v \in Seq(T) /\ Len(v) = Len(w) + 1
        /\ \A k \in 1..Len(w) : v[k] = w[k]
        /\ v[Len(w) + 1] = c
    BY <1>3, AppendProperties
  <1>5. CASE c \in Terminators
    <2>1. LastEnd(v, Len(v))
      BY <1>2, <1>4, <1>5 DEF LastEnd
    <2>2. LastLine(v) \in Seq(T) /\ Len(LastLine(v)) = Len(v) - Len(v) /\ Len(v) \in Nat
      BY <1>4, <2>1, LastLineIs
    <2>3. Len(LastLine(v)) = 0
      BY <2>2
    <2>4. LastLine(v) = <<>>
      BY ONLY <2>2, <2>3, EmptySeq
    <2> QED BY <1>3, <1>5, <2>4
  <1>6. CASE c \notin Terminators
    <2>1. \A k \in (m + 1)..Len(v) : v[k] \notin Terminators
      <3> TAKE k \in (m + 1)..Len(v)
      <3>1. k \in (m + 1)..Len(w) \/ k = Len(w) + 1
        BY <1>2, <1>4
      <3>2. CASE k \in (m + 1)..Len(w)
        <4>1. w[k] \notin Terminators /\ k \in 1..Len(w)
          BY <1>1, <1>2, <3>2 DEF LastEnd
        <4> QED BY <1>4, <4>1
      <3> QED BY <1>4, <1>6, <3>1, <3>2
    <2>2. LastEnd(v, m)
      <3>1. m > 0 => m \in 1..Len(w) /\ w[m] \in Terminators
        BY <1>1, <1>2 DEF LastEnd
      <3>2. m \in 0..Len(v)
        BY <1>2, <1>4
      <3> QED BY <1>4, <2>1, <3>1, <3>2 DEF LastEnd
    <2>3. /\ LastLine(v) \in Seq(T) /\ Len(LastLine(v)) = Len(v) - m
          /\ \A k \in 1..(Len(v) - m) : LastLine(v)[k] = v[m + k]
      BY <1>4, <2>2, LastLineIs
    <2>4. PICK u : u = LastLine(w)
      OBVIOUS
    <2>5. /\ u \in Seq(T) /\ Len(u) = Len(w) - m
          /\ Append(u, c) \in Seq(T) /\ Len(Append(u, c)) = Len(u) + 1
          /\ \A k \in 1..Len(u) : Append(u, c)[k] = u[k]
          /\ Append(u, c)[Len(u) + 1] = c
      BY <1>2, <2>4, AppendProperties
    <2>6. Len(LastLine(v)) = Len(Append(u, c))
      BY <1>2, <1>4, <2>3, <2>5
    <2>7. ASSUME NEW k \in 1..Len(LastLine(v)) PROVE LastLine(v)[k] = Append(u, c)[k]
      <3>1. k \in 1..(Len(v) - m) /\ k \in Nat /\ LastLine(v)[k] = v[m + k]
        BY <1>2, <1>4, <2>3
      <3>2. CASE k \in 1..Len(u)
        <4>1. m + k \in 1..Len(w) /\ k \in 1..(Len(w) - m)
          BY <1>2, <2>5, <3>2
        <4> QED BY <1>2, <1>4, <2>4, <2>5, <3>1, <3>2, <4>1
      <3>3. CASE k = Len(u) + 1
        <4>1. m + k = Len(w) + 1
          BY <1>2, <2>5, <3>3
        <4> QED BY <1>4, <2>5, <3>1, <3>3, <4>1
      <3> QED BY <1>2, <1>4, <2>5, <3>1, <3>2, <3>3, SMTT(30)
    <2>8. LastLine(v) = Append(u, c)
      BY <2>3, <2>5, <2>6, <2>7, SeqEqual
    <2> QED BY <1>3, <1>6, <2>4, <2>8
  <1> QED BY <1>5, <1>6

(* Erasing. *)
LEMMA LastLineErased ==
    ASSUME NEW T, NEW w \in Seq(T), w # <<>>, w[Len(w)] \notin Terminators
    PROVE  /\ LastLine(w) # <<>>
           /\ LastLine(SubSeq(w, 1, Len(w) - 1)) =
                  SubSeq(LastLine(w), 1, Len(LastLine(w)) - 1)
  <1>1. PICK m : LastEnd(w, m)
    BY LastEndExists
  <1>2. /\ m \in Nat /\ Len(w) \in Nat /\ m <= Len(w)
        /\ LastLine(w) \in Seq(T) /\ Len(LastLine(w)) = Len(w) - m
        /\ \A k \in 1..(Len(w) - m) : LastLine(w)[k] = w[m + k]
    BY <1>1, LastLineIs
  <1>3. PICK v : v = SubSeq(w, 1, Len(w) - 1)
    OBVIOUS
  <1>4. /\ v \in Seq(T) /\ Len(v) = Len(w) - 1 /\ Len(w) > 0
        /\ \A k \in 1..(Len(w) - 1) : v[k] = w[k]
    BY <1>3, WithoutLast
  <1>5. m < Len(w)
    <2>1. m # Len(w)
      BY <1>1, <1>4 DEF LastEnd
    <2> QED BY <1>2, <2>1
  <1>6. LastEnd(v, m)
    <2>1. m \in 0..Len(v) /\ (m > 0 => m \in 1..(Len(w) - 1))
      BY <1>2, <1>4, <1>5
    <2>2. \A k \in (m + 1)..Len(v) : v[k] \notin Terminators
      <3> TAKE k \in (m + 1)..Len(v)
      <3>1. k \in (m + 1)..Len(w) /\ k \in 1..(Len(w) - 1)
        BY <1>2, <1>4
      <3> QED BY <1>1, <1>4, <3>1 DEF LastEnd
    <2> QED BY <1>1, <1>4, <2>1, <2>2 DEF LastEnd
  <1>7. /\ LastLine(v) \in Seq(T) /\ Len(LastLine(v)) = Len(v) - m
        /\ \A k \in 1..(Len(v) - m) : LastLine(v)[k] = v[m + k]
    BY <1>4, <1>6, LastLineIs
  <1>8. PICK u : u = LastLine(w)
    OBVIOUS
  <1>9. u # <<>>
    <2>1. Len(u) # 0
      BY <1>2, <1>5, <1>8
    <2> QED BY <2>1
  <1>10. PICK t : t = SubSeq(u, 1, Len(u) - 1)
    OBVIOUS
  <1>11. /\ t \in Seq(T) /\ Len(t) = Len(u) - 1
         /\ \A k \in 1..(Len(u) - 1) : t[k] = u[k]
    BY <1>2, <1>8, <1>9, <1>10, WithoutLast
  <1>12. Len(u) = Len(w) - m
    BY <1>2, <1>8
  <1>13. Len(LastLine(v)) = Len(t)
    BY <1>2, <1>4, <1>7, <1>11, <1>12
  <1>14. ASSUME NEW k \in 1..Len(LastLine(v)) PROVE LastLine(v)[k] = t[k]
    <2>1. /\ k \in 1..(Len(v) - m) /\ k \in 1..(Len(u) - 1) /\ k \in 1..(Len(w) - m)
          /\ m + k \in 1..(Len(w) - 1)
      BY <1>2, <1>4, <1>7, <1>12
    <2> QED BY <1>2, <1>4, <1>7, <1>8, <1>11, <2>1
  <1>15. LastLine(v) = t
    BY <1>7, <1>11, <1>13, <1>14, SeqEqual
  <1> QED BY <1>3, <1>8, <1>9, <1>10, <1>15

(* Taking the first character while there is a line end in the sequence. *)
LEMMA LastLineTaken ==
    ASSUME NEW T, NEW w \in Seq(T), w # <<>>, LinesIn(w) > 0
    PROVE  LastLine(Tail(w)) = LastLine(w)
  <1>1. PICK m : LastEnd(w, m)
    BY LastEndExists
  <1>2. m \in Nat /\ Len(w) \in Nat /\ m <= Len(w)
    BY <1>1, LastLineIs
  <1>3. PICK v : v = Tail(w)
    OBVIOUS
  <1>4. /\ v \in Seq(T) /\ Len(v) = Len(w) - 1
        /\ \A k \in 1..(Len(w) - 1) : v[k] = w[k + 1]
    BY <1>3, HeadTailProperties
  <1>5. m > 0
    <2>1. LineEnds(w) # {}
      <3>1. LinesIn(w) = Cardinality(LineEnds(w))
        BY LinesFinite
      <3> QED BY <3>1, FS_EmptySet
    <2>2. PICK k : k \in 1..Len(w) /\ w[k] \in Terminators
      BY <2>1, LinesFinite
    <2>3. ~(k \in (m + 1)..Len(w))
      BY <1>1, <2>2 DEF LastEnd
    <2> QED BY <1>2, <2>2, <2>3
  <1>6. LastEnd(v, m - 1)
    <2>1. m - 1 \in 0..Len(v)
      BY <1>2, <1>4, <1>5
    <2>2. m - 1 > 0 => v[m - 1] \in Terminators
      <3>1. m - 1 > 0 => m - 1 \in 1..(Len(w) - 1) /\ (m - 1) + 1 = m
        BY <1>2, <1>5
      <3> QED BY <1>1, <1>4, <1>5, <3>1 DEF LastEnd
    <2>3. \A k \in ((m - 1) + 1)..Len(v) : v[k] \notin Terminators
      <3> TAKE k \in ((m - 1) + 1)..Len(v)
      <3>1. k + 1 \in (m + 1)..Len(w) /\ k \in 1..(Len(w) - 1)
        BY <1>2, <1>4, <1>5
      <3> QED BY <1>1, <1>4, <3>1 DEF LastEnd
    <2> QED BY <2>1, <2>2, <2>3 DEF LastEnd
  <1>7. Len(v) - (m - 1) = Len(w) - m
    BY <1>2, <1>4
  <1>8. ASSUME NEW k \in 1..(Len(v) - (m - 1)) PROVE v[m - 1 + k] = w[m + k]
    <2>1. m - 1 + k \in 1..(Len(w) - 1) /\ (m - 1 + k) + 1 = m + k
      BY <1>2, <1>4, <1>5
    <2> QED BY <1>4, <2>1
  <1>9. LastLine(v) = LastLine(w)
    BY <1>1, <1>4, <1>6, <1>7, <1>8, SameLastLine
  <1> QED BY <1>3, <1>9
-----------------------------------------------------------------------------
(* The terminal.  What the key register can hold when a character is due. *)
KeyTyped ==
    state # "S_INPUT" => key \in {Up(k) : k \in Keys \cup Modifiers} \cup {Down(k) : k \in Keys}

EchoInv == StdinInv /\ KeyTyped /\ EchoMatches

(* A code leaves in the key register a key or a release. *)
LEMMA KeyTypedStep ==
    ASSUME KeyTyped, NEW k \in Keys \cup Modifiers, NEW code \in {Down(k), Up(k)},
           keyboard_feed(code)
    PROVE  KeyTyped'
  <1>1. CASE FeedModifier(code) \/ FeedRelease \/ FeedLast
    <2>1. state' = "S_INPUT" \/ (state # "S_INPUT" /\ key' = key)
      BY <1>1 DEF FeedModifier, FeedRelease, FeedLast
    <2> QED BY <2>1 DEF KeyTyped, Modifiers, Up, Down
  <1>2. CASE FeedKey(code)
    <2>1. key' = code /\ code \notin {Down(m) : m \in Modifiers}
      BY <1>2 DEF FeedKey
    <2>2. code \in {Up(j) : j \in Keys \cup Modifiers} \cup {Down(j) : j \in Keys}
      BY <2>1
    <2> QED BY <2>1, <2>2 DEF KeyTyped, Modifiers, Up, Down
  <1> QED BY <1>1, <1>2 DEF keyboard_feed

(* The characters a complete code can stand for. *)
LEMMA CharsTyped ==
    ASSUME KeyTyped, state = "S_NEED_1", NEW c \in CharsOf(Char(key, shift, ctrl))
    PROVE  c \in Chars \cup {"bs"}
  <1>1. CASE key \in {Up(k) : k \in Keys \cup Modifiers}
    BY <1>1 DEF CharsOf, Char, Up
  <1>2. CASE key \in {Down(k) : k \in Keys}
    <2>1. PICK k \in {"d", "nl", "bs"} : key = <<k, "down">>
      BY <1>2, TerminalKeysAssumption DEF Down
    <2> QED BY <2>1 DEF CharsOf, Char, Plain, Chars
  <1> QED BY <1>1, <1>2 DEF KeyTyped

(* A character that reaches _add_char is stored and shown, taken back on both *)
(* sides, swallowed by a full ring, or nothing.                              *)
LEMMA AddCharStep ==
    ASSUME StdinInv, EchoMatches, NEW c \in Chars \cup {"bs"}, AddChar(c)
    PROVE  StdinInv' /\ QueueStep /\ EchoMatches'
  <1>1. /\ UNCHANGED copying /\ copying \in BOOLEAN
        /\ shown' = IF Echoed(c) THEN Echo(c) ELSE shown
        /\ swallowed' = (swallowed \/ Full)
    BY DEF AddChar, reader, copyVars, StdinInv
  <1>2. CASE AddIgnored(c)
    <2>1. StdinInv' /\ QueueStep
      BY <1>1, <1>2, RingAlone DEF AddIgnored
    <2>2. CASE Full
      BY <1>1, <2>1, <2>2 DEF EchoMatches
    <2>3. CASE c = "bs" /\ Empty
      <3>1. shown' = shown /\ UNCHANGED <<ringVars, intact>>
        BY <1>1, <1>2, <2>3 DEF Echoed, AddIgnored
      <3>2. Window' = Window /\ intact' = intact
        BY <3>1 DEF Window, ringVars
      <3>3. LastLine(Window)' = LastLine(Window')
        BY DEF LastLine, Terminators
      <3>4. ~swallowed' => ~swallowed
        BY <1>1
      <3>5. EchoMatches'
        BY <3>1, <3>2, <3>3, <3>4 DEF EchoMatches
      <3> QED BY <2>1, <3>5
    <2> QED BY <1>2, <2>2, <2>3 DEF AddIgnored
  <1>3. CASE AddBackspace(c)
    <2>1. StdinInv' /\ QueueStep /\ (intact' => TakenBack)
      BY <1>1, <1>3, BackspaceStep
    <2>2. c = "bs" /\ ~Full /\ ~Empty
      BY <1>3 DEF AddBackspace
    <2>3. ASSUME intact', ~swallowed' PROVE LastLine(Window') = shown'
      <3>1. TakenBack /\ LastLine(Window) = shown
        BY <1>1, <2>1, <2>3 DEF EchoMatches, TakenBack
      <3>2. /\ LastLine(Window) # <<>>
            /\ LastLine(Window') = SubSeq(LastLine(Window), 1, Len(LastLine(Window)) - 1)
        BY <3>1, LastLineErased DEF TakenBack
      <3>3. shown' = SubSeq(shown, 1, Len(shown) - 1)
        BY <1>1, <2>2, <3>1, <3>2 DEF Echoed, Echo, Terminators
      <3> QED BY <3>1, <3>2, <3>3
    <2>4. LastLine(Window)' = LastLine(Window')
      BY DEF LastLine, Terminators
    <2> QED BY <2>1, <2>3, <2>4 DEF EchoMatches
  <1>4. CASE AddStored(c)
    <2>1. c \in Chars /\ c # "bs"
      BY <1>4 DEF AddStored
    <2>2. StdinInv' /\ QueueStep /\ (intact' => Queued(c))
      BY <1>1, <1>4, <2>1, StoredStep
    <2>3. ASSUME intact', ~swallowed' PROVE LastLine(Window') = shown'
      <3>1. Queued(c) /\ LastLine(Window) = shown
        BY <1>1, <2>2, <2>3 DEF EchoMatches, Queued
      <3>2. LastLine(Window') = IF c \in Terminators THEN <<>> ELSE Append(LastLine(Window), c)
        BY <2>1, <3>1, LastLineTyped DEF Queued, RingChars
      <3> QED BY <1>1, <2>1, <3>1, <3>2 DEF Echoed, Echo
    <2>4. LastLine(Window)' = LastLine(Window')
      BY DEF LastLine, Terminators
    <2> QED BY <2>2, <2>3, <2>4 DEF EchoMatches
  <1> QED BY <1>2, <1>3, <1>4 DEF AddChar

(* A read takes from the front, and only while there is a line end in the     *)
(* ring, so that the line being typed is not touched.                        *)
LEMMA ReadStep ==
    ASSUME StdinInv, EchoMatches, Read
    PROVE  StdinInv' /\ QueueStep /\ EchoMatches'
  <1>1. UNCHANGED <<shown, swallowed>>
    BY DEF Read
  <1>2. LastLine(Window)' = LastLine(Window')
    BY DEF LastLine, Terminators
  <1>3. ASSUME StdinInv', intact' => ReadOff PROVE EchoMatches'
    <2>1. ReadOff => LastLine(Window') = LastLine(Window)
      BY LastLineTaken DEF ReadOff
    <2> QED BY <1>1, <1>2, <1>3, <2>1 DEF EchoMatches, ReadOff
  <1>4. ASSUME NEW n \in ReadSizes, CopyStart(n) PROVE StdinInv' /\ QueueStep /\ EchoMatches'
    <2>1. UNCHANGED ringVars /\ intact' = intact /\ copying' = TRUE /\ input_count > 0
      BY <1>4 DEF CopyStart, buffer_is_ready
    <2>2. Window' = Window
      BY <2>1 DEF Window, ringVars
    <2>3. EchoMatches'
      BY <1>1, <1>2, <2>1, <2>2 DEF EchoMatches
    <2> QED BY <2>1, <2>3, RingAlone
  <1> QED BY <1>3, <1>4, CopyEofStep, CopyCharStep, CopyNewlineStep DEF Read, copy_input

(* Every step of the terminal keeps the invariant. *)
LEMMA EchoStep == EchoInv /\ [TerminalNext]_terminalVars => EchoInv' /\ QueueStep
  <1> SUFFICES ASSUME EchoInv, [TerminalNext]_terminalVars PROVE EchoInv' /\ QueueStep
    OBVIOUS
  <1>1. StdinInv /\ KeyTyped /\ EchoMatches
    BY DEF EchoInv
  <1>2. ASSUME UNCHANGED <<vars, shown, swallowed>> PROVE StdinInv' /\ QueueStep /\ EchoMatches'
    <2>1. UNCHANGED ringVars /\ intact' = intact /\ copying' = copying /\ copying' \in BOOLEAN
      BY <1>1, <1>2 DEF vars, copyVars, StdinInv
    <2>2. Window' = Window
      BY <2>1 DEF Window, ringVars
    <2>3. LastLine(Window)' = LastLine(Window')
      BY DEF LastLine, Terminators
    <2>4. EchoMatches'
      BY <1>1, <1>2, <2>1, <2>2, <2>3 DEF EchoMatches
    <2> QED BY <1>1, <2>1, <2>4, RingAlone
  <1>3. ASSUME UNCHANGED keyVars PROVE KeyTyped'
    BY <1>1, <1>3 DEF keyVars, decoderVars, KeyTyped, Modifiers, Up, Down
  <1>4. CASE KeyboardInterrupt
    <2>1. KeyTyped'
      <3>1. PICK k \in Keys \cup Modifiers : Press(k) \/ Release(k)
        BY <1>4 DEF KeyboardInterrupt
      <3>2. keyboard_feed(Down(k)) \/ keyboard_feed(Up(k))
        BY <3>1 DEF Press, Release
      <3> QED BY <1>1, <3>2, KeyTypedStep
    <2>2. StdinInv' /\ QueueStep /\ EchoMatches'
      <3>1. CASE state = "S_NEED_1"
        <4>1. PICK c \in CharsOf(Char(key, shift, ctrl)) : AddChar(c)
          BY <1>4, <3>1 DEF KeyboardInterrupt
        <4> QED BY <1>1, <3>1, <4>1, CharsTyped, AddCharStep
      <3>2. CASE state # "S_NEED_1"
        BY <1>2, <1>4, <3>2 DEF KeyboardInterrupt
      <3> QED BY <3>1, <3>2
    <2> QED BY <2>1, <2>2 DEF EchoInv
  <1>5. CASE Read
    <2>1. UNCHANGED keyVars
      BY <1>5 DEF Read
    <2> QED BY <1>1, <1>3, <1>5, <2>1, ReadStep DEF EchoInv
  <1>6. CASE UNCHANGED terminalVars
    <2>1. UNCHANGED keyVars /\ UNCHANGED <<vars, shown, swallowed>>
      BY <1>6 DEF terminalVars
    <2> QED BY <1>2, <1>3, <2>1 DEF EchoInv
  <1> QED BY <1>4, <1>5, <1>6 DEF TerminalNext, Idle

(* At boot the line on the screen and the ring are empty. *)
LEMMA InitiallyEchoed == TerminalInit => EchoInv /\ Queue!QueueInit
  <1> SUFFICES ASSUME TerminalInit PROVE EchoInv /\ Queue!QueueInit
    OBVIOUS
  <1>1. StdinInv /\ Window = <<>> /\ Queue!QueueInit
    BY InitiallyWhole DEF TerminalInit, Queue!QueueInit
  <1>2. KeyTyped
    BY DEF TerminalInit, KeyInit, KeyTyped
  <1>3. LastLine(<<>>) = <<>>
    <2>1. <<>> \in Seq({}) /\ Len(<<>>) = 0
      OBVIOUS
    <2>2. LastEnd(<<>>, 0)
      BY <2>1 DEF LastEnd
    <2>3. LastLine(<<>>) \in Seq({}) /\ Len(LastLine(<<>>)) = Len(<<>>) - 0
      BY ONLY <2>1, <2>2, LastLineIs
    <2>4. Len(LastLine(<<>>)) = 0
      BY <2>1, <2>3
    <2> QED BY ONLY <2>3, <2>4, EmptySeq
  <1> QED BY <1>1, <1>2, <1>3 DEF EchoInv, EchoMatches, TerminalInit

(* Of every keyboard, buffer and reader: what was echoed since the last line  *)
(* end is what the ring holds behind its last line end, as long as the ring   *)
(* is intact and was never full.                                             *)
THEOREM EchoMatchesAlways == TerminalSpec => []EchoMatches
  <1>1. EchoInv => EchoMatches
    BY DEF EchoInv
  <1> QED BY <1>1, EchoStep, InitiallyEchoed, PTL DEF TerminalSpec

(* The terminal with its keyboard and its echo still implements the queue. *)
THEOREM TerminalIsQueue == TerminalSpec => ImplementsLineQueue
  <1>1. EchoInv /\ [TerminalNext]_terminalVars => [Queue!Works \/ Queue!Breaks]_Queue!lineVars
    BY EchoStep DEF QueueStep
  <1> QED BY <1>1, EchoStep, InitiallyEchoed, PTL
          DEF TerminalSpec, ImplementsLineQueue, Queue!QueueSpec

(* The decoder behaves within the terminal as it does alone. *)
THEOREM TerminalDecodes == TerminalSpec => KeySpec
  <1>1. TerminalInit => KeyInit
    BY DEF TerminalInit
  <1>2. [TerminalNext]_terminalVars => [KeyNext]_keyVars
    BY DEF TerminalNext, KeyboardInterrupt, Read, Idle, terminalVars, KeyNext
  <1> QED BY <1>1, <1>2, PTL DEF TerminalSpec, KeySpec
=============================================================================
