------------------------------ MODULE Keyboard ------------------------------
(***************************************************************************)
(* The decoding of scan codes into characters: _stdin_keyboard_feed of        *)
(* sys/stdin.c, of which keyboard_feed of sys/keyboard_helpers.c is a copy    *)
(* that feeds the status line.  The decoder counts codes instead of reading  *)
(* them: after a key it takes the next code for its release, and after a     *)
(* key with a modifier the next two.  The typist is modelled as pressing and *)
(* releasing keys in any order; the variable apart records that so far every *)
(* stroke was over before the next one began, with at most one modifier.     *)
(***************************************************************************)
EXTENDS Integers, Sequences, FiniteSets

CONSTANTS
    Keys,        \* ordinary keys
    MaxStrokes,  \* bound: keys pressed in a behaviour, modifiers included
    MaxHeld      \* bound: keys that are down at the same time

Modifiers == {"K_SHIFTDOWN", "K_CTRLDOWN"}

ASSUME KeysAssumption == Keys \cap (Modifiers \cup {"none"}) = {}
ASSUME StrokesAssumption == MaxStrokes \in Nat /\ MaxHeld \in Nat

(* The code of the release of k is 0x80 + the code of k. *)
Down(k) == <<k, "down">>
Up(k) == <<k, "up">>
NoKey == <<"none", "down">>

VARIABLES
    state,    \* _stdin_state
    key,      \* _stdin_key, the code of a press or a release
    shift,    \* _stdin_shift
    ctrl,     \* _std_ctrl
    emitted,  \* what was given to _add_char since all keys were up: keys with modifiers
    held,     \* the keys that are down
    stroke,   \* the keys pressed since all were up
    meant,    \* the character the last stroke was meant for, once it is complete
    apart,    \* strokes never overlapped
    pressed   \* number of presses, for the bound

decoderVars == <<state, key, shift, ctrl, emitted>>
typistVars == <<held, stroke, meant, apart, pressed>>
keyVars == <<decoderVars, typistVars>>

KeyInit ==
    /\ state = "S_INPUT"
    /\ key = NoKey
    /\ shift = FALSE
    /\ ctrl = FALSE
    /\ emitted = <<>>
    /\ held = {}
    /\ stroke = {}
    /\ meant = <<>>
    /\ apart = TRUE
    /\ pressed = 0

(* The character of a code: with no entry in __smalls and __capitals for a   *)
(* release code.                                                             *)
Char(k, s, c) == [key |-> k, shift |-> s, ctrl |-> c]
-----------------------------------------------------------------------------
(* Each stroke begins a history of its own; after an overlap none is kept. *)
Before == IF stroke = {} \/ ~apart THEN <<>> ELSE emitted

(* _stdin_keyboard_feed(code), by the state it finds. *)
FeedModifier(code) ==
    /\ state = "S_INPUT"
    /\ code \in {Down(m) : m \in Modifiers}
    /\ shift' = (shift \/ code = Down("K_SHIFTDOWN"))
    /\ ctrl' = (ctrl \/ code = Down("K_CTRLDOWN"))
    /\ emitted' = Before
    /\ UNCHANGED <<state, key>>

FeedKey(code) ==
    /\ state = "S_INPUT"
    /\ code \notin {Down(m) : m \in Modifiers}
    /\ key' = code
    /\ state' = IF ctrl \/ shift THEN "S_NEED_2" ELSE "S_NEED_1"
    /\ emitted' = Before
    /\ UNCHANGED <<shift, ctrl>>

FeedRelease ==
    /\ state = "S_NEED_2"
    /\ state' = "S_NEED_1"
    /\ emitted' = Before
    /\ UNCHANGED <<key, shift, ctrl>>

(* Variant: the modifiers are kept for the next key. *)
M_FeedLast_modifiers_kept ==
    /\ state = "S_NEED_1"
    /\ emitted' = Append(Before, Char(key, shift, ctrl))
    /\ state' = "S_INPUT"
    /\ key' = NoKey
    /\ UNCHANGED <<shift, ctrl>>

(* S_FINISHED is left in the same call: fill_single_elem_buffer, and reset. *)
FeedLast ==
    /\ state = "S_NEED_1"
    /\ emitted' = Append(Before, Char(key, shift, ctrl))
    /\ state' = "S_INPUT"
    /\ key' = NoKey
    /\ shift' = FALSE
    /\ ctrl' = FALSE

keyboard_feed(code) ==
    FeedModifier(code) \/ FeedKey(code) \/ FeedRelease \/ FeedLast
-----------------------------------------------------------------------------
(* The typist.  A press is apart from earlier strokes if no key is down, or  *)
(* only the modifier it goes with.                                           *)
Press(k) ==
    /\ pressed < MaxStrokes
    /\ k \notin held /\ Cardinality(held) < MaxHeld
    /\ keyboard_feed(Down(k))
    /\ held' = held \cup {k}
    /\ stroke' = stroke \cup {k}
    /\ apart' = (/\ apart
                 /\ held = stroke
                 /\ stroke = {} \/ (k \in Keys /\ \E m \in Modifiers : stroke = {m}))
    /\ pressed' = pressed + 1
    /\ meant' = IF stroke = {} THEN <<>> ELSE meant

(* A stroke without an ordinary key means nothing, and is not a stroke. *)
Release(k) ==
    /\ k \in held
    /\ keyboard_feed(Up(k))
    /\ held' = held \ {k}
    /\ stroke' = IF held = {k} THEN {} ELSE stroke
    /\ apart' = (apart /\ stroke \cap Keys # {})
    /\ meant' = IF held = {k} /\ apart'
                THEN LET p == CHOOSE p \in Keys : p \in stroke
                     IN  <<Char(Down(p), "K_SHIFTDOWN" \in stroke, "K_CTRLDOWN" \in stroke)>>
                ELSE meant
    /\ UNCHANGED pressed

AllTyped == pressed = MaxStrokes /\ held = {} /\ UNCHANGED keyVars

KeyNext ==
    \/ \E k \in Keys \cup Modifiers : Press(k) \/ Release(k)
    \/ AllTyped

KeySpec == KeyInit /\ [][KeyNext]_keyVars
-----------------------------------------------------------------------------
(* DecodedAsMeant: if strokes never overlap, then whenever all keys are up    *)
(* the decoder has produced the one character that was typed, with its own   *)
(* modifier, and it is back in S_INPUT: no code was taken for a key that was *)
(* not one, although the decoder only counts.                                *)
DecodedAsMeant ==
    (apart /\ held = {}) =>
        /\ emitted = meant
        /\ state = "S_INPUT" /\ ~shift /\ ~ctrl
=============================================================================
