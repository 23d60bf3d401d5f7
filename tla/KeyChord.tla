------------------------------ MODULE KeyChord ------------------------------
(***************************************************************************)
(* The uinput keyboard runtime (crates/gesture-actions/src/                *)
(* uinput_keyboard.rs): the action "uinput.key-chord" presses the keys of  *)
(* a chord in order, holds them, and releases them in reverse order, one   *)
(* packet per key.  Any packet may be refused.  An emergency release then  *)
(* walks the recorded keys in reverse order and stops at the first packet  *)
(* that is refused in its turn.                                            *)
(*                                                                         *)
(* A chord runs under the keyboard's mutex, but its packets go out one by  *)
(* one and the desktop acts on each: a step here is a packet.              *)
(***************************************************************************)
EXTENDS Naturals, Sequences, SequencesExt

CONSTANTS
    Keys,       \* KEY_* codes below the button range
    MaxKeys,    \* MAX_CHORD_KEYS
    MaxFaults   \* bound: refused packets and failed openings in a behaviour

ASSUME MaxKeysAssumption == MaxKeys \in Nat \ {0}
ASSUME FaultAssumption == MaxFaults \in Nat

\* What parse_key_chord lets through: one to MaxKeys distinct keys.
Chords == {ch \in SeqOf(Keys, MaxKeys) : ch # <<>> /\ IsInjective(ch)}

VARIABLES
    pc,         \* where tap_chord is: see Steps
    chord,      \* the keys of the running or last chord
    todo,       \* keys whose packet is still to be emitted, in order
    pressed,    \* UinputKeyboardRuntime.pressed
    created,    \* UinputKeyboardRuntime.device is Some
    down,       \* the keys the kernel holds down on the virtual keyboard
    outcome,    \* what the last tap_chord returned
    stranded,   \* history: keys left down by a failed emergency release
    faults      \* bound: refusals so far

vars == <<pc, chord, todo, pressed, created, down, outcome, stranded, faults>>

Steps == {"idle",       \* no chord is running
          "stale",      \* tap_chord clears what an earlier chord left
          "open",       \* about to open the device
          "press",      \* emitting key presses
          "hold",       \* sleeping
          "release",    \* emitting key releases
          "emergency"}  \* release_all_keys after a refused packet

-----------------------------------------------------------------------------
Refused ==
    /\ faults < MaxFaults
    /\ faults' = faults + 1

KeyDown(k) ==
    /\ down' = down \cup {k}
    /\ stranded' = stranded \ {k}

KeyUp(k) ==
    /\ down' = down \ {k}
    /\ stranded' = stranded \ {k}

\* release_all_keys with nothing recorded returns at once.
Tap(keys) ==
    /\ pc = "idle"
    /\ chord' = keys
    /\ pc' = IF pressed = <<>> THEN "open" ELSE "stale"
    /\ todo' = Reverse(pressed)
    /\ UNCHANGED <<pressed, created, down, outcome, stranded, faults>>

OpenDevice ==
    /\ pc = "open"
    /\ created' = TRUE
    /\ pressed' = chord
    /\ todo' = chord
    /\ pc' = "press"
    /\ UNCHANGED <<chord, down, outcome, stranded, faults>>

\* Mutant of OpenFails: the keys were recorded before the device was opened.
OpenFailsRecorded ==
    /\ pc = "open"
    /\ ~created
    /\ Refused
    /\ pressed' = chord
    /\ outcome' = "error"
    /\ pc' = "idle"
    /\ UNCHANGED <<chord, todo, created, down, stranded>>

\* create_virtual_keyboard fails: nothing was recorded.
OpenFails ==
    /\ pc = "open"
    /\ ~created
    /\ Refused
    /\ outcome' = "error"
    /\ pc' = "idle"
    /\ UNCHANGED <<chord, todo, pressed, created, down, stranded>>

PressKey ==
    /\ pc = "press"
    /\ KeyDown(Head(todo))
    /\ todo' = Tail(todo)
    /\ pc' = IF Len(todo) = 1 THEN "hold" ELSE "press"
    /\ UNCHANGED <<chord, pressed, created, outcome, faults>>

\* Mutant of HoldEnds: keys are released in the order they were pressed.
HoldEndsInOrder ==
    /\ pc = "hold"
    /\ todo' = chord
    /\ pc' = "release"
    /\ UNCHANGED <<chord, pressed, created, down, outcome, stranded, faults>>

HoldEnds ==
    /\ pc = "hold"
    /\ todo' = Reverse(chord)
    /\ pc' = "release"
    /\ UNCHANGED <<chord, pressed, created, down, outcome, stranded, faults>>

ReleaseKey ==
    /\ pc = "release"
    /\ KeyUp(Head(todo))
    /\ todo' = Tail(todo)
    /\ IF Len(todo) = 1
       THEN pressed' = <<>> /\ outcome' = "ok" /\ pc' = "idle"
       ELSE UNCHANGED <<pressed, outcome, pc>>
    /\ UNCHANGED <<chord, created, faults>>

\* A press or a release is refused: release_all_keys starts over with every
\* recorded key.
PacketRefused ==
    /\ pc \in {"press", "release"}
    /\ Refused
    /\ todo' = Reverse(pressed)
    /\ pc' = "emergency"
    /\ UNCHANGED <<chord, pressed, created, down, outcome, stranded>>

\* After the last key of release_all_keys the record is cleared, and the chord
\* goes on (it was clearing stale state) or reports its error.
ClearKey ==
    /\ pc \in {"stale", "emergency"}
    /\ KeyUp(Head(todo))
    /\ todo' = Tail(todo)
    /\ IF Len(todo) = 1
       THEN /\ pressed' = <<>>
            /\ pc' = IF pc = "stale" THEN "open" ELSE "idle"
            /\ outcome' = IF pc = "stale" THEN outcome ELSE "error"
       ELSE UNCHANGED <<pressed, outcome, pc>>
    /\ UNCHANGED <<chord, created, faults>>

\* The record is cleared although keys are still down.
ClearRefused ==
    /\ pc \in {"stale", "emergency"}
    /\ Refused
    /\ pressed' = <<>>
    /\ todo' = <<>>
    /\ outcome' = "error"
    /\ pc' = "idle"
    /\ stranded' = down
    /\ UNCHANGED <<chord, created, down>>

\* The provider is dropped between chords and a new one takes its place: the
\* kernel releases the keys of a device that is closed.
ReplaceProvider ==
    /\ pc = "idle"
    /\ created' = FALSE
    /\ pressed' = <<>>
    /\ down' = {}
    /\ stranded' = {}
    /\ UNCHANGED <<pc, chord, todo, outcome, faults>>

Init ==
    /\ pc = "idle"
    /\ chord = <<>>
    /\ todo = <<>>
    /\ pressed = <<>>
    /\ created = FALSE
    /\ down = {}
    /\ outcome = "none"
    /\ stranded = {}
    /\ faults = 0

Next ==
    \/ \E keys \in Chords : Tap(keys)
    \/ OpenDevice
    \/ OpenFails
    \/ PressKey
    \/ HoldEnds
    \/ ReleaseKey
    \/ PacketRefused
    \/ ClearKey
    \/ ClearRefused
    \/ ReplaceProvider

Spec == Init /\ [][Next]_vars

-----------------------------------------------------------------------------
(***************************************************************************)
(* Properties.                                                             *)
(***************************************************************************)

\* The runtime's variables are well formed: the record names the keys of the
\* running chord and is empty between chords, and a recorded key implies an
\* opened device.
TypeOK ==
    /\ pc \in Steps
    /\ chord \in Chords \cup {<<>>}
    /\ pressed \in {<<>>, chord}
    /\ created \in BOOLEAN
    /\ down \subseteq Keys
    /\ outcome \in {"none", "ok", "error"}
    /\ stranded \subseteq down
    /\ faults \in 0 .. MaxFaults
    /\ pc \in {"idle", "open"} => pressed = <<>>
    /\ pressed # <<>> => created
    /\ pc \in {"press", "release", "emergency"} => todo # <<>>

\* Keys nest: apart from keys an earlier failed emergency release left behind,
\* the keys down are at every moment the first n of the chord (a modifier is
\* down before and after the keys it modifies, through refusals of any packet
\* and the emergency release that follows), all of them while it is held, and
\* none of them between chords.
KeysNest ==
    \E n \in 0 .. Len(chord) :
        /\ down \ stranded = {chord[i] : i \in 1 .. n}
        /\ pc = "hold" => n = Len(chord)
        /\ pc = "idle" => n = 0
=============================================================================
