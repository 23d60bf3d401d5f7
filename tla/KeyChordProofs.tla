---------------------------- MODULE KeyChordProofs ----------------------------
(***************************************************************************)
(* Keys nest, for chords of any length over any keys and any number of     *)
(* refused packets.                                                        *)
(*                                                                         *)
(* KeysNest needs to know which packets are still to come (Course): the    *)
(* presses of the rest of the chord, or the releases of a first part of    *)
(* it, last key first.  Of an emergency release it says that it covers at  *)
(* least the keys that are down, as it starts over with all of them.       *)
(***************************************************************************)
EXTENDS KeyChord, SequenceTheorems, TLAPS

\* The keys this chord holds down, and its first n keys.
Mine == down \ stranded
First(n) == {chord[i] : i \in 1 .. n}

Types ==
    /\ pc \in Steps \ {"stale"}
    /\ chord \in Chords \cup {<<>>}
    /\ todo \in Seq(Keys)
    /\ created \in BOOLEAN
    /\ down \subseteq Keys /\ stranded \subseteq down
    /\ outcome \in {"none", "ok", "error"}
    /\ faults \in 0 .. MaxFaults

\* What is recorded where.
Record ==
    IF pc \in {"idle", "open"} THEN pressed = <<>> ELSE pressed = chord /\ created

\* What is still to be emitted, and what is down meanwhile.
Course ==
    /\ pc # "idle" => chord \in Chords
    /\ pc \in {"idle", "open"} => Mine = {}
    /\ pc = "press" =>
          /\ Len(todo) \in 1 .. Len(chord)
          /\ \A i \in 1 .. Len(todo) : todo[i] = chord[Len(chord) - Len(todo) + i]
          /\ Mine = First(Len(chord) - Len(todo))
    /\ pc = "hold" => Mine = First(Len(chord))
    /\ pc \in {"release", "emergency"} =>
          /\ Len(todo) \in 1 .. Len(chord)
          /\ \A i \in 1 .. Len(todo) : todo[i] = chord[Len(todo) - i + 1]
    /\ pc = "release" => Mine = First(Len(todo))
    /\ pc = "emergency" => \E n \in 0 .. Len(todo) : Mine = First(n)

IInv == Types /\ Record /\ Course

-----------------------------------------------------------------------------
LEMMA ChordFacts ==
    ASSUME NEW ch \in Chords
    PROVE  /\ ch \in Seq(Keys) /\ Len(ch) \in Nat \ {0} /\ ch # <<>>
           /\ \A i, j \in 1 .. Len(ch) : ch[i] = ch[j] => i = j
<1>1. PICK m \in 0 .. MaxKeys : ch \in [1 .. m -> Keys]
  BY MaxKeysAssumption DEF Chords, SeqOf
<1>2. ch \in Seq(Keys)
  BY <1>1, MaxKeysAssumption, SeqDef
<1>3. ch # <<>> /\ IsInjective(ch)
  BY DEF Chords
<1>4. DOMAIN ch = 1 .. Len(ch) /\ Len(ch) \in Nat
  BY <1>2, LenProperties
<1> QED
  BY <1>2, <1>3, <1>4, EmptySeq DEF IsInjective

LEMMA ReverseFacts ==
    ASSUME NEW ch \in Seq(Keys)
    PROVE  /\ Reverse(ch) \in Seq(Keys)
           /\ Len(Reverse(ch)) = Len(ch)
           /\ \A i \in 1 .. Len(ch) : Reverse(ch)[i] = ch[Len(ch) - i + 1]
<1>1. Len(ch) \in Nat /\ ch \in [1 .. Len(ch) -> Keys]
  BY LenProperties
<1>2. Reverse(ch) \in [1 .. Len(ch) -> Keys]
  BY <1>1 DEF Reverse
<1>3. Reverse(ch) \in Seq(Keys)
  BY <1>1, <1>2, SeqDef
<1>4. DOMAIN Reverse(ch) = 1 .. Len(Reverse(ch)) /\ Len(Reverse(ch)) \in Nat
  BY <1>3, LenProperties
<1>5. 1 .. Len(Reverse(ch)) = 1 .. Len(ch)
  BY <1>2, <1>4
<1>6. Len(Reverse(ch)) = Len(ch)
  <2> DEFINE a == Len(Reverse(ch))
             b == Len(ch)
  <2>1. a \in Nat /\ b \in Nat /\ 1 .. a = 1 .. b
    BY <1>1, <1>4, <1>5
  <2> HIDE DEF a, b
  <2>2. /\ a = 0 \/ a \in 1 .. b
        /\ b = 0 \/ b \in 1 .. a
    BY <2>1
  <2>3. a = b
    BY <2>1, <2>2
  <2> QED
    BY <2>3 DEF a, b
<1> QED
  BY <1>1, <1>3, <1>6 DEF Reverse

\* Lifting key L of the chord from its first n keys, with n at most L.
LEMMA LiftLast ==
    ASSUME chord \in Chords, NEW L \in 1 .. Len(chord), NEW n \in 0 .. L
    PROVE  First(n) \ {chord[L]} = First(IF n = L THEN L - 1 ELSE n)
<1>1. /\ Len(chord) \in Nat
      /\ \A i, j \in 1 .. Len(chord) : chord[i] = chord[j] => i = j
  BY ChordFacts
<1>2. CASE n = L
  <2>1. \A i \in 1 .. L : i \in 1 .. L - 1 <=> chord[i] # chord[L]
    BY <1>1
  <2> QED
    BY <1>1, <1>2, <2>1 DEF First
<1>3. CASE n # L
  <2>1. \A i \in 1 .. n : chord[i] # chord[L]
    BY <1>1, <1>3
  <2> QED
    BY <1>3, <2>1 DEF First
<1> QED
  BY <1>2, <1>3

LEMMA KeyEffects ==
    ASSUME NEW k
    PROVE  /\ KeyDown(k) => Mine' = Mine \cup {k}
           /\ KeyUp(k) => Mine' = Mine \ {k}
  BY DEF KeyDown, KeyUp, Mine

\* The next key to be emitted.
LEMMA NextKey ==
    ASSUME IInv, pc \in {"press", "release", "emergency"}
    PROVE  /\ Head(todo) = todo[1] /\ Head(todo) \in Keys
           /\ Tail(todo) \in Seq(Keys)
           /\ Len(Tail(todo)) = Len(todo) - 1
           /\ \A i \in 1 .. Len(todo) - 1 : Tail(todo)[i] = todo[i + 1]
           /\ Len(chord) \in Nat
<1>1. todo \in Seq(Keys) /\ Len(todo) >= 1 /\ chord \in Chords
  BY DEF IInv, Types, Course
<1>2. todo # <<>>
  BY <1>1, EmptySeq
<1>3. Head(todo) = todo[1]
  BY <1>1, <1>2
<1>4. /\ Head(todo) \in Keys /\ Tail(todo) \in Seq(Keys)
      /\ Len(Tail(todo)) = Len(todo) - 1
      /\ \A i \in 1 .. Len(Tail(todo)) : Tail(todo)[i] = todo[i + 1]
  BY <1>1, <1>2, HeadTailProperties
<1> QED
  BY <1>1, <1>3, <1>4, ChordFacts

-----------------------------------------------------------------------------
LEMMA InvInit == Init => IInv
<1> SUFFICES ASSUME Init PROVE IInv
  OBVIOUS
<1>1. created \in BOOLEAN /\ todo \in Seq(Keys)
  BY EmptySeq DEF Init
<1>2. faults \in 0 .. MaxFaults
  BY FaultAssumption DEF Init
<1> QED
  BY <1>1, <1>2 DEF Init, IInv, Types, Steps, Record, Course, Mine

LEMMA TapKeeps ==
    ASSUME IInv, NEW keys \in Chords, Tap(keys)
    PROVE  IInv'
<1>1. pc = "idle" /\ pressed = <<>> /\ pc' = "open" /\ chord' = keys
  BY DEF Tap, IInv, Record
<1>2. todo' \in Seq(Keys)
  BY <1>1, EmptySeq, ReverseFacts DEF Tap
<1> QED
  BY <1>1, <1>2 DEF Tap, IInv, Types, Steps, Record, Course, Mine

LEMMA OpenDeviceKeeps ==
    ASSUME IInv, OpenDevice
    PROVE  IInv'
<1>1. chord \in Chords /\ Mine = {} /\ todo' = chord /\ chord' = chord /\ pc' = "press"
  BY DEF OpenDevice, IInv, Course
<1>2. chord \in Seq(Keys) /\ Len(chord) \in Nat \ {0}
  BY <1>1, ChordFacts
<1>3. Mine' = First(0)'
  BY <1>1 DEF OpenDevice, Mine, First
<1>4. Course'
  BY <1>1, <1>2, <1>3 DEF Course
<1>5. created' \in BOOLEAN /\ created'
  BY DEF OpenDevice
<1> QED
  BY <1>1, <1>2, <1>4, <1>5 DEF OpenDevice, IInv, Types, Steps, Record

LEMMA OpenFailsKeeps ==
    ASSUME IInv, OpenFails
    PROVE  IInv'
  BY FaultAssumption DEF OpenFails, Refused, IInv, Types, Steps, Record, Course, Mine

LEMMA PressKeyKeeps ==
    ASSUME IInv, PressKey
    PROVE  IInv'
<1> DEFINE L == Len(todo)
           N == Len(chord)
<1>1. /\ pc = "press" /\ chord \in Chords /\ L \in 1 .. N
      /\ \A i \in 1 .. L : todo[i] = chord[N - L + i]
      /\ Mine = First(N - L)
  BY DEF PressKey, IInv, Course
<1>2. /\ Head(todo) = todo[1] /\ Head(todo) \in Keys /\ Tail(todo) \in Seq(Keys)
      /\ Len(Tail(todo)) = L - 1 /\ N \in Nat
      /\ \A i \in 1 .. L - 1 : Tail(todo)[i] = todo[i + 1]
  BY <1>1, NextKey
<1>3. /\ todo' = Tail(todo) /\ pc' = IF L = 1 THEN "hold" ELSE "press"
      /\ UNCHANGED <<chord, pressed, created, outcome, faults>>
      /\ KeyDown(Head(todo))
  BY DEF PressKey
<1>4. Head(todo) = chord[N - L + 1]
  BY <1>1, <1>2
<1>5. Mine' = First(N - L + 1)
  <2>1. Mine' = First(N - L) \cup {chord[N - L + 1]}
    BY <1>1, <1>3, <1>4, KeyEffects
  <2> QED
    BY <1>1, <1>2, <2>1 DEF First
<1>6. Mine' = {chord'[i] : i \in 1 .. N - L + 1}
  BY <1>3, <1>5 DEF First
<1>7. Course'
  <2>1. CASE L = 1
    BY <1>1, <1>2, <1>3, <1>6, <2>1 DEF Course, First
  <2>2. CASE L # 1
    <3>1. N - Len(todo') = N - L + 1 /\ Len(todo') \in 1 .. N
      BY <1>1, <1>2, <1>3, <2>2
    <3>2. \A i \in 1 .. Len(todo') : todo'[i] = chord[N - Len(todo') + i]
      BY <1>1, <1>2, <1>3, <3>1
    <3>3. Mine' = {chord'[i] : i \in 1 .. Len(chord') - Len(todo')}
      BY <1>3, <1>6, <3>1
    <3>4. First(Len(chord) - Len(todo))' = {chord'[i] : i \in 1 .. Len(chord') - Len(todo')}
      BY DEF First
    <3>5. pc' = "press" /\ chord' = chord
      BY <1>3, <2>2
    <3> QED
      BY <1>1, <3>1, <3>2, <3>3, <3>4, <3>5 DEF Course
  <2> QED
    BY <2>1, <2>2
<1>8. down' \subseteq Keys /\ stranded' \subseteq down'
  BY <1>2, <1>3 DEF KeyDown, IInv, Types
<1> QED
  BY <1>1, <1>2, <1>3, <1>7, <1>8 DEF IInv, Types, Steps, Record

LEMMA HoldEndsKeeps ==
    ASSUME IInv, HoldEnds
    PROVE  IInv'
<1>1. chord \in Chords /\ Mine = First(Len(chord)) /\ pc = "hold"
  BY DEF HoldEnds, IInv, Course
<1>2. chord \in Seq(Keys) /\ Len(chord) \in Nat \ {0}
  BY <1>1, ChordFacts
<1>3. /\ todo' = Reverse(chord) /\ todo' \in Seq(Keys) /\ Len(todo') = Len(chord)
      /\ \A i \in 1 .. Len(todo') : todo'[i] = chord[Len(todo') - i + 1]
  BY <1>2, ReverseFacts DEF HoldEnds
<1>4. Course'
  BY <1>1, <1>2, <1>3 DEF HoldEnds, Course, Mine, First
<1> QED
  BY <1>1, <1>3, <1>4 DEF HoldEnds, IInv, Types, Steps, Record

LEMMA ReleaseKeyKeeps ==
    ASSUME IInv, ReleaseKey
    PROVE  IInv'
<1> DEFINE L == Len(todo)
<1>1. /\ pc = "release" /\ chord \in Chords /\ L \in 1 .. Len(chord)
      /\ \A i \in 1 .. L : todo[i] = chord[L - i + 1]
      /\ Mine = First(L)
  BY DEF ReleaseKey, IInv, Course
<1>2. /\ Head(todo) = todo[1] /\ Tail(todo) \in Seq(Keys)
      /\ Len(Tail(todo)) = L - 1 /\ Len(chord) \in Nat
      /\ \A i \in 1 .. L - 1 : Tail(todo)[i] = todo[i + 1]
  BY <1>1, NextKey
<1>3. /\ todo' = Tail(todo) /\ UNCHANGED <<chord, created, faults>>
      /\ KeyUp(Head(todo))
      /\ IF L = 1 THEN pressed' = <<>> /\ outcome' = "ok" /\ pc' = "idle"
         ELSE UNCHANGED <<pressed, outcome, pc>>
  BY DEF ReleaseKey
<1>4. Mine' = First(L - 1)
  <2>1. Head(todo) = chord[L]
    BY <1>1, <1>2
  <2>2. Mine' = First(L) \ {chord[L]}
    BY <1>1, <1>3, <2>1, KeyEffects
  <2> QED
    BY <1>1, <2>2, LiftLast
<1>5. Course'
  <2>1. CASE L = 1
    BY <1>3, <1>4, <2>1 DEF Course, First
  <2>2. CASE L # 1
    <3>0. Len(todo') = L - 1 /\ Len(todo') \in 1 .. Len(chord)
      BY <1>1, <1>2, <1>3, <2>2
    <3>1. /\ Len(todo') = L - 1 /\ Len(todo') \in 1 .. Len(chord)
          /\ \A i \in 1 .. Len(todo') : todo'[i] = chord[Len(todo') - i + 1]
      <4>1. ASSUME NEW i \in 1 .. L - 1 PROVE todo'[i] = chord[L - 1 - i + 1]
        <5>1. todo'[i] = todo[i + 1] /\ i + 1 \in 1 .. L
          BY <1>1, <1>2, <1>3
        <5>2. todo[i + 1] = chord[L - (i + 1) + 1]
          BY <1>1, <5>1
        <5>3. L - (i + 1) + 1 = L - 1 - i + 1
          BY <1>1
        <5> QED
          BY <5>1, <5>2, <5>3
      <4> QED
        BY <3>0, <4>1
    <3> QED
      BY <1>1, <1>3, <1>4, <2>2, <3>1 DEF Course, First
  <2> QED
    BY <2>1, <2>2
<1>6. down' \subseteq Keys /\ stranded' \subseteq down'
  BY <1>3 DEF KeyUp, IInv, Types
<1> QED
  BY <1>1, <1>2, <1>3, <1>5, <1>6 DEF IInv, Types, Steps, Record

LEMMA PacketRefusedKeeps ==
    ASSUME IInv, PacketRefused
    PROVE  IInv'
<1>1. /\ chord \in Chords /\ pressed = chord /\ Len(todo) \in 1 .. Len(chord)
      /\ \E n \in 0 .. Len(chord) : Mine = First(n)
  <2>1. chord \in Chords /\ Len(chord) \in Nat
    BY ChordFacts DEF PacketRefused, IInv, Course
  <2> QED
    BY <2>1 DEF PacketRefused, IInv, Course, Record
<1>2. chord \in Seq(Keys) /\ Len(chord) \in Nat \ {0}
  BY <1>1, ChordFacts
<1>3. /\ todo' \in Seq(Keys) /\ Len(todo') = Len(chord)
      /\ \A i \in 1 .. Len(todo') : todo'[i] = chord[Len(todo') - i + 1]
  BY <1>1, <1>2, ReverseFacts DEF PacketRefused
<1>4. Course'
  <2>1. PICK n \in 0 .. Len(chord) : Mine = First(n)
    BY <1>1
  <2>2. pc' = "emergency" /\ chord' = chord /\ Mine' = Mine
    BY DEF PacketRefused, Mine
  <2>3. First(n)' = First(n)
    BY <2>2 DEF First
  <2>4. \E k \in 0 .. Len(todo') : Mine' = First(k)'
    BY <1>3, <2>1, <2>2, <2>3
  <2> QED
    BY <1>1, <1>2, <1>3, <2>2, <2>4 DEF Course
<1>5. faults' \in 0 .. MaxFaults
  BY FaultAssumption DEF PacketRefused, Refused, IInv, Types
<1> QED
  BY <1>1, <1>3, <1>4, <1>5 DEF PacketRefused, IInv, Types, Steps, Record

LEMMA ClearKeyKeeps ==
    ASSUME IInv, ClearKey
    PROVE  IInv'
<1> DEFINE L == Len(todo)
<1>1. /\ pc = "emergency" /\ chord \in Chords /\ L \in 1 .. Len(chord)
      /\ \A i \in 1 .. L : todo[i] = chord[L - i + 1]
  BY DEF ClearKey, IInv, Types, Course
<1>2. PICK n \in 0 .. L : Mine = First(n)
  BY <1>1 DEF IInv, Course
<1>3. /\ Head(todo) = todo[1] /\ Tail(todo) \in Seq(Keys)
      /\ Len(Tail(todo)) = L - 1 /\ Len(chord) \in Nat
      /\ \A i \in 1 .. L - 1 : Tail(todo)[i] = todo[i + 1]
  BY <1>1, NextKey
<1>4. /\ todo' = Tail(todo) /\ UNCHANGED <<chord, created, faults>>
      /\ KeyUp(Head(todo))
      /\ IF L = 1 THEN pressed' = <<>> /\ outcome' = "error" /\ pc' = "idle"
         ELSE UNCHANGED <<pressed, outcome, pc>>
  BY <1>1 DEF ClearKey
<1>5. PICK m \in 0 .. L - 1 : Mine' = First(m)
  <2>1. Head(todo) = chord[L]
    BY <1>1, <1>3
  <2>2. Mine' = First(n) \ {chord[L]}
    BY <1>2, <1>4, <2>1, KeyEffects
  <2>3. Mine' = First(IF n = L THEN L - 1 ELSE n)
    BY <1>1, <2>2, LiftLast
  <2> QED
    BY <1>1, <2>3
<1>6. Course'
  <2>1. CASE L = 1
    BY <1>4, <1>5, <2>1 DEF Course, First
  <2>2. CASE L # 1
    <3>0. Len(todo') = L - 1 /\ Len(todo') \in 1 .. Len(chord)
      BY <1>1, <1>3, <1>4, <2>2
    <3>1. /\ Len(todo') = L - 1 /\ Len(todo') \in 1 .. Len(chord)
          /\ \A i \in 1 .. Len(todo') : todo'[i] = chord[Len(todo') - i + 1]
      <4>1. ASSUME NEW i \in 1 .. L - 1 PROVE todo'[i] = chord[L - 1 - i + 1]
        <5>1. todo'[i] = todo[i + 1] /\ i + 1 \in 1 .. L
          BY <1>1, <1>3, <1>4
        <5>2. todo[i + 1] = chord[L - (i + 1) + 1]
          BY <1>1, <5>1
        <5>3. L - (i + 1) + 1 = L - 1 - i + 1
          BY <1>1
        <5> QED
          BY <5>1, <5>2, <5>3
      <4> QED
        BY <3>0, <4>1
    <3> QED
      BY <1>1, <1>4, <1>5, <2>2, <3>1 DEF Course, First
  <2> QED
    BY <2>1, <2>2
<1>7. down' \subseteq Keys /\ stranded' \subseteq down'
  BY <1>4 DEF KeyUp, IInv, Types
<1> QED
  BY <1>1, <1>3, <1>4, <1>6, <1>7 DEF IInv, Types, Steps, Record

LEMMA ClearRefusedKeeps ==
    ASSUME IInv, ClearRefused
    PROVE  IInv'
<1>1. todo' \in Seq(Keys) /\ faults' \in 0 .. MaxFaults
  BY EmptySeq, FaultAssumption DEF ClearRefused, Refused, IInv, Types
<1> QED
  BY <1>1 DEF ClearRefused, IInv, Types, Steps, Record, Course, Mine

LEMMA ReplaceProviderKeeps ==
    ASSUME IInv, ReplaceProvider
    PROVE  IInv'
<1>1. created' \in BOOLEAN
  BY DEF ReplaceProvider
<1> QED
  BY <1>1 DEF ReplaceProvider, IInv, Types, Steps, Record, Course, Mine

LEMMA InvStep == IInv /\ [Next]_vars => IInv'
<1> SUFFICES ASSUME IInv, [Next]_vars PROVE IInv'
  OBVIOUS
<1>1. CASE UNCHANGED vars
  BY <1>1 DEF vars, IInv, Types, Record, Course, Mine, First
<1> QED
  BY <1>1, TapKeeps, OpenDeviceKeeps, OpenFailsKeeps, PressKeyKeeps, HoldEndsKeeps,
     ReleaseKeyKeeps, PacketRefusedKeeps, ClearKeyKeeps, ClearRefusedKeeps,
     ReplaceProviderKeeps DEF Next

LEMMA InvAlways == Spec => []IInv
  BY InvInit, InvStep, PTL DEF Spec

-----------------------------------------------------------------------------
\* The runtime is well formed, and the step with which tap_chord clears what
\* earlier chords left is never needed: nothing is recorded between chords.
THEOREM KeyboardTypeCorrect == Spec => [](TypeOK /\ pc # "stale")
<1>1. IInv => TypeOK /\ pc # "stale"
  <2> SUFFICES ASSUME IInv PROVE TypeOK /\ pc # "stale"
    OBVIOUS
  <2>1. pressed \in {<<>>, chord}
    BY DEF IInv, Record
  <2>2. pc \in {"press", "release", "emergency"} => todo # <<>>
    BY EmptySeq DEF IInv, Types, Course
  <2> QED
    BY <2>1, <2>2 DEF IInv, Types, Record, TypeOK
<1> QED
  BY <1>1, InvAlways, PTL

\* A modifier is down before and after the keys it modifies, whatever packet
\* is refused (tap_chord and release_all_keys).
THEOREM KeysAlwaysNest == Spec => []KeysNest
<1>1. IInv => KeysNest
  <2> SUFFICES ASSUME IInv PROVE KeysNest
    OBVIOUS
  <2>1. Len(chord) \in Nat
    BY ChordFacts, EmptySeq DEF IInv, Types
  <2>2. First(0) = {}
    BY DEF First
  <2>3. PICK n \in 0 .. Len(chord) : /\ Mine = First(n)
                                     /\ pc = "hold" => n = Len(chord)
                                     /\ pc = "idle" => n = 0
    <3>1. CASE pc \in {"idle", "open"}
      <4>1. 0 \in 0 .. Len(chord) /\ Mine = First(0) /\ pc # "hold"
        BY <2>1, <2>2, <3>1 DEF IInv, Course
      <4> QED
        BY <4>1
    <3>2. CASE pc = "hold"
      BY <2>1, <3>2 DEF IInv, Course
    <3>3. CASE pc \in {"press", "release"}
      BY <2>1, <3>3 DEF IInv, Course
    <3>4. CASE pc = "emergency"
      BY <2>1, <3>4 DEF IInv, Course
    <3> QED
      BY <3>1, <3>2, <3>3, <3>4 DEF IInv, Types, Steps
  <2> QED
    BY <2>3 DEF KeysNest, Mine, First
<1> QED
  BY <1>1, InvAlways, PTL
=============================================================================
