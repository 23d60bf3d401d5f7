---------------------------- MODULE TouchpadProofs ----------------------------
(***************************************************************************)
(* The pad of Touchpad is well formed, and so are the events it sends: what *)
(* the proofs about its readers rest on.                                   *)
(***************************************************************************)
EXTENDS Touchpad, FiniteSetTheorems, SequenceTheorems, WellFoundedInduction, TLAPS

\* A set of numbers that has 0 and with n also n + 1 has every number.
LEMMA Induction ==
    ASSUME NEW A, A \subseteq Nat, 0 \in A, \A n \in A : n + 1 \in A
    PROVE  A = Nat
<1> DEFINE T == Nat \ A
<1> SUFFICES ASSUME T # {} PROVE FALSE
  OBVIOUS
<1>1. PICK m \in T : \A n \in T : ~(<<n, m>> \in OpToRel(<, Nat))
  BY WFMin, NatLessThanWellFounded, Zenon
<1>2. m # 0 /\ m - 1 \in Nat /\ m - 1 \notin A
  <2>1. m \in Nat /\ m # 0
    OBVIOUS
  <2>2. m - 1 \in A => (m - 1) + 1 \in A
    OBVIOUS
  <2> QED
    BY <2>1, <2>2
<1>3. <<m - 1, m>> \in OpToRel(<, Nat)
  BY <1>2 DEF OpToRel
<1> QED
  BY <1>1, <1>2, <1>3

Finger == [id : Touches, x : Xs, y : Ys]

PadTypes ==
    /\ DOMAIN pad \subseteq Slots /\ pad \in [DOMAIN pad -> Finger]
    /\ touches \in 0 .. MaxTouches
    /\ untracked \in Nat /\ untracked <= MaxUntracked
    /\ counted \in Nat
    /\ announced \in Slots
    /\ last \in [Slots -> Points]
    /\ \A s \in DOMAIN pad : last[s].x = pad[s].x /\ last[s].y = pad[s].y

AllEvents ==
    {Event("slot", s) : s \in Slots} \cup {Event("id", i) : i \in Touches \cup {-1}}
    \cup {Event("x", x) : x \in Xs} \cup {Event("y", y) : y \in Ys}
    \cup {Event("button", b) : b \in 0 .. 1}
    \cup {Event("tool_up", n) : n \in 1 .. 5} \cup {Event("tool_down", n) : n \in 1 .. 5}
    \cup {Event("syn", 0)}

\* Functions on some of the slots.
LEMMA SomeSlotsIs ==
    ASSUME NEW f, NEW R
    PROVE  f \in SomeSlots(R) <=> DOMAIN f \subseteq Slots /\ f \in [DOMAIN f -> R]
  BY DEF SomeSlots

LEMMA FiniteSlots ==
    ASSUME NEW S, S \subseteq Slots
    PROVE  IsFiniteSet(S) /\ Cardinality(S) \in Nat
  BY SlotAssumption, FS_Subset, FS_CardinalityType

LEMMA PadTypesInit == PadInit => PadTypes /\ wire \in Seq(AllEvents)
<1> SUFFICES ASSUME PadInit PROVE PadTypes /\ wire \in Seq(AllEvents)
  OBVIOUS
<1> USE DEF PadInit
<1>1. DOMAIN pad \subseteq Slots /\ pad \in [DOMAIN pad -> Finger]
  BY SomeSlotsIs DEF Finger
<1>2. Cardinality(DOMAIN pad) \in Nat
  BY <1>1, FiniteSlots
<1>3. untracked \in Nat /\ untracked <= MaxUntracked /\ counted \in Nat
  BY <1>2, BoundAssumption DEF Fingers
<1>4. touches \in 0 .. MaxTouches
  <2>1. {pad[s].id : s \in DOMAIN pad} \subseteq Touches
    BY <1>1 DEF Finger
  <2>2. 1 .. touches \subseteq Touches
    BY <2>1
  <2>3. touches \in Nat
    BY <1>2
  <2>4. touches = 0 \/ touches \in 1 .. touches
    BY <2>3
  <2> QED
    BY <2>2, <2>3, <2>4, BoundAssumption DEF Touches
<1>5. announced \in Slots
  BY SlotAssumption
<1>6. ASSUME NEW s \in DOMAIN pad PROVE last[s].x = pad[s].x /\ last[s].y = pad[s].y
  <2>1. last[s] = [x |-> pad[s].x, y |-> pad[s].y]
    OBVIOUS
  <2> QED
    BY <2>1
<1> QED
  BY <1>1, <1>3, <1>4, <1>5, <1>6 DEF PadTypes

LEMMA AnnounceTypes ==
    ASSUME PadTypes, NEW s \in Slots, NEW id \in Seq(AllEvents), NEW x \in Xs, NEW y \in Ys,
           Announce(s, id, x, y)
    PROVE  /\ wire' \in Seq(AllEvents)
           /\ announced' \in Slots
           /\ last' \in [Slots -> Points]
           /\ last'[s].x = x /\ last'[s].y = y
           /\ \A t \in Slots \ {s} : last'[t] = last[t]
<1> USE DEF Announce
<1>1. Event("slot", s) \in AllEvents /\ Event("x", x) \in AllEvents /\ Event("y", y) \in AllEvents
  BY DEF AllEvents
<1> HIDE DEF Announce
<1>2. <<Event("slot", s)>> \in Seq(AllEvents) /\ <<Event("x", x)>> \in Seq(AllEvents)
      /\ <<Event("y", y)>> \in Seq(AllEvents) /\ <<>> \in Seq(AllEvents)
  BY <1>1
<1>3. wire' \in Seq(AllEvents)
  BY <1>2 DEF Announce
<1> QED
  BY <1>3 DEF Announce, PadTypes, Points

LEMMA TouchChangesTypes ==
    ASSUME PadTypes, TouchChanges
    PROVE  PadTypes' /\ wire' \in Seq(AllEvents)
<1> PICK s \in Slots \ reported : Land(s) \/ Move(s) \/ Lift(s)
  BY DEF TouchChanges
<1>1. UNCHANGED <<untracked, counted>>
  BY DEF TouchChanges
<1>2. CASE Land(s)
  <2>1. PICK p \in Points :
           /\ pad' = [t \in DOMAIN pad \cup {s} |->
                         IF t = s THEN [id |-> touches', x |-> p.x, y |-> p.y] ELSE pad[t]]
           /\ Announce(s, <<Event("id", touches')>>, p.x, p.y)
    BY <1>2 DEF Land
  <2>2. touches' \in Touches /\ touches' \in 0 .. MaxTouches
    BY <1>2, BoundAssumption DEF Land, PadTypes, Touches
  <2>3. p.x \in Xs /\ p.y \in Ys
    BY DEF Points
  <2>4. <<Event("id", touches')>> \in Seq(AllEvents)
    BY <2>2 DEF AllEvents
  <2>5. /\ wire' \in Seq(AllEvents)
        /\ announced' \in Slots
        /\ last' \in [Slots -> Points]
        /\ last'[s].x = p.x /\ last'[s].y = p.y
        /\ \A t \in Slots \ {s} : last'[t] = last[t]
    BY <2>1, <2>3, <2>4, AnnounceTypes
  <2>6. DOMAIN pad' \subseteq Slots /\ pad' \in [DOMAIN pad' -> Finger]
    BY <2>1, <2>2, <2>3 DEF PadTypes, Finger
  <2>7. \A t \in DOMAIN pad' : last'[t].x = pad'[t].x /\ last'[t].y = pad'[t].y
    BY <2>1, <2>5 DEF PadTypes
  <2> QED
    BY <1>1, <2>2, <2>5, <2>6, <2>7 DEF PadTypes
<1>3. CASE Move(s)
  <2>1. PICK p \in Points :
           /\ pad' = [pad EXCEPT ![s].x = p.x, ![s].y = p.y]
           /\ Announce(s, <<>>, p.x, p.y)
    BY <1>3 DEF Move
  <2>3. p.x \in Xs /\ p.y \in Ys /\ s \in DOMAIN pad /\ touches' = touches
    BY <1>3 DEF Points, Move
  <2>4. <<>> \in Seq(AllEvents)
    OBVIOUS
  <2>5. /\ wire' \in Seq(AllEvents)
        /\ announced' \in Slots
        /\ last' \in [Slots -> Points]
        /\ last'[s].x = p.x /\ last'[s].y = p.y
        /\ \A t \in Slots \ {s} : last'[t] = last[t]
    BY <2>1, <2>3, <2>4, AnnounceTypes
  <2>6. DOMAIN pad' \subseteq Slots /\ pad' \in [DOMAIN pad' -> Finger]
    BY <2>1, <2>3 DEF PadTypes, Finger
  <2>7. \A t \in DOMAIN pad' : last'[t].x = pad'[t].x /\ last'[t].y = pad'[t].y
    BY <2>1, <2>3, <2>5 DEF PadTypes, Finger
  <2> QED
    BY <1>1, <2>3, <2>5, <2>6, <2>7 DEF PadTypes
<1>4. CASE Lift(s)
  <2>1. /\ pad' = [t \in DOMAIN pad \ {s} |-> pad[t]]
        /\ Announce(s, <<Event("id", -1)>>, last[s].x, last[s].y)
        /\ touches' = touches
    BY <1>4 DEF Lift
  <2>3. last[s].x \in Xs /\ last[s].y \in Ys
    BY DEF Points, PadTypes
  <2>4. <<Event("id", -1)>> \in Seq(AllEvents)
    BY DEF AllEvents
  <2>5. /\ wire' \in Seq(AllEvents)
        /\ announced' \in Slots
        /\ last' \in [Slots -> Points]
        /\ \A t \in Slots \ {s} : last'[t] = last[t]
    BY <2>1, <2>3, <2>4, AnnounceTypes
  <2>6. DOMAIN pad' \subseteq Slots /\ pad' \in [DOMAIN pad' -> Finger]
    BY <2>1 DEF PadTypes
  <2>7. \A t \in DOMAIN pad' : last'[t].x = pad'[t].x /\ last'[t].y = pad'[t].y
    BY <2>1, <2>5 DEF PadTypes
  <2> QED
    BY <1>1, <2>1, <2>5, <2>6, <2>7 DEF PadTypes
<1> QED
  BY <1>2, <1>3, <1>4

LEMMA ToolKeyTypes ==
    ASSUME NEW c \in {"tool_up", "tool_down"}, NEW n
    PROVE  ToolKey(c, n) \in Seq(AllEvents)
<1>1. n \in 1 .. 5 => Event(c, n) \in AllEvents
  BY DEF AllEvents
<1>2. n \in 1 .. 5 => <<Event(c, n)>> \in Seq(AllEvents)
  BY <1>1
<1> QED
  BY <1>2 DEF ToolKey

LEMMA ReportEndsTypes ==
    ASSUME PadTypes, ReportEnds
    PROVE  PadTypes' /\ wire' \in Seq(AllEvents)
<1> DEFINE count == Cardinality(DOMAIN pad) + untracked'
<1>1. /\ untracked' \in 0 .. MaxUntracked
      /\ counted' = count
      /\ wire' = (IF count = counted THEN <<>>
                  ELSE ToolKey("tool_up", counted) \o ToolKey("tool_down", count))
                 \o <<Event("syn", 0)>>
      /\ UNCHANGED <<pad, touches, announced, last>>
  BY DEF ReportEnds
<1>2. untracked' \in Nat /\ untracked' <= MaxUntracked /\ counted' \in Nat
  BY <1>1, BoundAssumption, FiniteSlots DEF PadTypes
<1>3. PadTypes'
  BY <1>1, <1>2 DEF PadTypes
<1>4. Event("syn", 0) \in AllEvents
  BY DEF AllEvents
<1>5. <<Event("syn", 0)>> \in Seq(AllEvents)
  BY <1>4
<1>6. ToolKey("tool_up", counted) \in Seq(AllEvents) /\ ToolKey("tool_down", count) \in Seq(AllEvents)
  BY ToolKeyTypes
<1>7. wire' \in Seq(AllEvents)
  BY <1>1, <1>5, <1>6
<1> QED
  BY <1>3, <1>7

\* What is read is an event of its code, and the pad stays as it is.
LEMMA ReadTypes ==
    ASSUME PadTypes, wire \in Seq(AllEvents), NEW c, Read(c)
    PROVE  /\ PadTypes' /\ wire' \in Seq(AllEvents)
           /\ c = "slot" => Value \in Slots
           /\ c = "id" => Value \in Touches \cup {-1}
           /\ c = "x" => Value \in Xs
           /\ c = "y" => Value \in Ys
           /\ c \in {"tool_up", "tool_down"} => Value \in 1 .. 5
<1>1. Head(wire) \in AllEvents /\ Tail(wire) \in Seq(AllEvents)
  BY DEF Read
<1>2. UNCHANGED padVars /\ wire' = Tail(wire) /\ Head(wire).code = c
  BY DEF Read
<1>3. PadTypes'
  BY <1>2 DEF PadTypes, padVars
<1> QED
  BY <1>1, <1>2, <1>3 DEF AllEvents, Event, Value
==============================================================================
