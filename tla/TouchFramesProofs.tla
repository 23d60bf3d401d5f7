-------------------------- MODULE TouchFramesProofs --------------------------
(***************************************************************************)
(* What the tracker promises, for every touchpad: frames that agree with   *)
(* the pad, and no motion that is not the fingers'.                        *)
(*                                                                         *)
(* The tracker is always a few events behind the pad.  The invariant says  *)
(* what the unread events are and of which parts of a contact they still   *)
(* have to tell; of all others the tracker's view is right.                *)
(***************************************************************************)
EXTENDS TouchFrames, TouchpadProofs

-----------------------------------------------------------------------------
(***************************************************************************)
(* Sums.                                                                   *)
(***************************************************************************)
Chosen(U) == CHOOSE s \in U : TRUE

\* What SumFunction is defined by: it sums up one index after the other.
SumsUp(iter, f, D) ==
    iter = [U \in D |-> IF U = {} THEN 0 ELSE f[Chosen(U)] + iter[U \ {Chosen(U)}]]

LEMMA ExistsSumsUp ==
    ASSUME NEW S, IsFiniteSet(S), NEW f
    PROVE  \E iter : SumsUp(iter, f, SUBSET S)
<1> DEFINE D(n) == {U \in SUBSET S : Cardinality(U) <= n}
           A == {n \in Nat : \E iter : SumsUp(iter, f, D(n))}
<1>0. ASSUME NEW n \in Nat, NEW U \in D(n + 1), U # {}
      PROVE  U \ {Chosen(U)} \in D(n)
  <2>1. Chosen(U) \in U
    BY <1>0 DEF Chosen
  <2>2. IsFiniteSet(U) /\ Cardinality(U) \in Nat
    BY FS_Subset, FS_CardinalityType
  <2>3. Cardinality(U \ {Chosen(U)}) = Cardinality(U) - 1
    BY <2>1, <2>2, FS_RemoveElement
  <2> QED
    BY <2>2, <2>3
<1>1. 0 \in A
  <2> DEFINE g == [U \in D(0) |-> 0]
  <2>1. D(0) = {{}}
    BY FS_EmptySet, FS_Subset, FS_CardinalityType
  <2>2. SumsUp(g, f, D(0))
    BY <2>1 DEF SumsUp
  <2> QED
    BY <2>2
<1>2. ASSUME NEW n \in A PROVE n + 1 \in A
  <2>1. PICK g : SumsUp(g, f, D(n))
    BY <1>2
  <2> DEFINE h == [U \in D(n + 1) |->
                      IF U = {} THEN 0 ELSE f[Chosen(U)] + g[U \ {Chosen(U)}]]
  <2>2. ASSUME NEW U \in D(n) PROVE U \in D(n + 1) /\ h[U] = g[U]
    <3>1. U \in D(n + 1)
      BY FS_Subset, FS_CardinalityType
    <3> QED
      BY <2>1, <3>1, Zenon DEF SumsUp
  <2>3. ASSUME NEW U \in D(n + 1), U # {}
        PROVE  g[U \ {Chosen(U)}] = h[U \ {Chosen(U)}]
    BY <1>0, <2>2, <2>3, Zenon
  <2>4. SumsUp(h, f, D(n + 1))
    BY <2>3, Zenon DEF SumsUp
  <2> HIDE DEF h
  <2>5. \E iter : SumsUp(iter, f, D(n + 1))
    BY <2>4
  <2> HIDE DEF D
  <2> QED
    BY <2>5
<1>3. A = Nat
  BY <1>1, <1>2, Induction, Zenon
<1>4. Cardinality(S) \in A
  BY <1>3, FS_CardinalityType
<1>5. D(Cardinality(S)) = SUBSET S
  BY FS_Subset
<1> QED
  BY <1>4, <1>5

SumOf(f, S) == CHOOSE iter : SumsUp(iter, f, SUBSET S)

\* SumFunction by its definition.
LEMMA SumIs ==
    ASSUME NEW f
    PROVE  SumFunction(f) = SumOf(f, DOMAIN f)[DOMAIN f]
  BY Zenon DEF SumFunction, SumFunctionOnSet, FoldFunctionOnSet, MapThenFoldSet, SumOf, SumsUp, Chosen

\* A sum of differences is a difference of sums.
LEMMA SumOfDifferences ==
    ASSUME NEW S, IsFiniteSet(S), NEW f \in [S -> Int], NEW g \in [S -> Int]
    PROVE  /\ SumFunction(f) \in Int /\ SumFunction(g) \in Int
           /\ SumFunction(f) - SumFunction(g) = SumFunction([s \in S |-> f[s] - g[s]])
<1> DEFINE h == [s \in S |-> f[s] - g[s]]
           F == SumOf(f, S)
           G == SumOf(g, S)
           H == SumOf(h, S)
           Minus(U) == F[U] \in Int /\ G[U] \in Int /\ H[U] = F[U] - G[U]
           A == {n \in Nat : \A U \in SUBSET S : Cardinality(U) <= n => Minus(U)}
<1>1. SumsUp(F, f, SUBSET S) /\ SumsUp(G, g, SUBSET S) /\ SumsUp(H, h, SUBSET S)
  BY ExistsSumsUp, Zenon DEF SumOf
<1> HIDE DEF F, G, H
<1>2. Minus({})
  BY <1>1 DEF SumsUp
<1>3. ASSUME NEW U \in SUBSET S, U # {}, Minus(U \ {Chosen(U)})
      PROVE  Minus(U)
  <2> DEFINE c == Chosen(U)
             V == U \ {c}
  <2>1. c \in S
    BY <1>3 DEF Chosen
  <2>2. F[U] = f[c] + F[V] /\ G[U] = g[c] + G[V] /\ H[U] = h[c] + H[V]
    BY <1>1, <1>3, Zenon DEF SumsUp
  <2>3. f[c] \in Int /\ g[c] \in Int /\ h[c] = f[c] - g[c]
    BY <2>1
  <2> HIDE DEF c, V, h
  <2> QED
    BY <1>3, <2>2, <2>3 DEF c, V
<1> HIDE DEF Minus
<1>4. ASSUME NEW n \in A PROVE n + 1 \in A
  <2>1. ASSUME NEW U \in SUBSET S, Cardinality(U) <= n + 1
        PROVE  Minus(U)
    <3>1. CASE U = {}
      BY <1>2, <3>1
    <3>2. CASE U # {}
      <4>1. Chosen(U) \in U
        BY <3>2 DEF Chosen
      <4>2. IsFiniteSet(U) /\ Cardinality(U) \in Nat
        BY FS_Subset, FS_CardinalityType
      <4>3. Cardinality(U \ {Chosen(U)}) = Cardinality(U) - 1
        BY <4>1, <4>2, FS_RemoveElement
      <4>4. Minus(U \ {Chosen(U)})
        BY <2>1, <4>2, <4>3
      <4> QED
        BY <1>3, <3>2, <4>4
    <3> QED
      BY <3>1, <3>2
  <2> QED
    BY <2>1
<1>5. 0 \in A
  BY <1>2, FS_EmptySet, FS_Subset, FS_CardinalityType
<1>6. A = Nat
  BY <1>4, <1>5, Induction, Zenon
<1>7. Minus(S)
  <2>1. Cardinality(S) \in A
    BY <1>6, FS_CardinalityType
  <2> QED
    BY <2>1, FS_CardinalityType
<1>8. SumFunction(f) = F[S] /\ SumFunction(g) = G[S] /\ SumFunction(h) = H[S]
  BY SumIs, Zenon DEF F, G, H
<1> QED
  BY <1>7, <1>8 DEF Minus

-----------------------------------------------------------------------------
(***************************************************************************)
(* The type invariant.                                                     *)
(***************************************************************************)
TInv == PadTypes /\ wire \in Seq(AllEvents) /\ TypeOK

SlotTypes ==
    /\ DOMAIN slots \subseteq Slots
    /\ slots \in [DOMAIN slots -> Contact]
    /\ current_slot \in Slots
    /\ tool_keys \subseteq 1 .. 5

LEMMA TypeOKSlots == TypeOK => SlotTypes
  BY SomeSlotsIs DEF TypeOK, SlotTypes

LEMMA KeyMax ==
    ASSUME SlotTypes, tool_keys # {}
    PROVE  ReportedFingers \in tool_keys /\ \A n \in tool_keys : n <= ReportedFingers
<1>1. \E m \in tool_keys : \A n \in tool_keys : m >= n
  <2>1. CASE 5 \in tool_keys
    BY <2>1 DEF SlotTypes
  <2>2. CASE 4 \in tool_keys /\ 5 \notin tool_keys
    BY <2>2 DEF SlotTypes
  <2>3. CASE 3 \in tool_keys /\ 4 \notin tool_keys /\ 5 \notin tool_keys
    BY <2>3 DEF SlotTypes
  <2>4. CASE 2 \in tool_keys /\ 3 \notin tool_keys /\ 4 \notin tool_keys /\ 5 \notin tool_keys
    BY <2>4 DEF SlotTypes
  <2>5. CASE tool_keys = {1}
    BY <2>5
  <2> QED
    BY <2>1, <2>2, <2>3, <2>4, <2>5 DEF SlotTypes
<1>2. ReportedFingers = CHOOSE m \in tool_keys : \A n \in tool_keys : m >= n
  BY DEF ReportedFingers, Max
<1>3. ReportedFingers \in tool_keys /\ \A n \in tool_keys : ReportedFingers >= n
  BY <1>1, <1>2
<1> QED
  BY <1>3 DEF SlotTypes

\* The effective count is that of the contacts or that of the tool keys,
\* whichever is higher.
LEMMA EffectiveIs ==
    ASSUME SlotTypes
    PROVE  /\ Cardinality(ActiveContacts) \in Nat
           /\ tool_keys = {} => EffectiveFingers = Cardinality(ActiveContacts)
           /\ tool_keys # {} =>
                 EffectiveFingers = IF ReportedFingers >= Cardinality(ActiveContacts)
                                    THEN ReportedFingers ELSE Cardinality(ActiveContacts)
           /\ EffectiveFingers \in Nat
           /\ Cardinality(ActiveContacts) <= EffectiveFingers
<1> DEFINE c == Cardinality(ActiveContacts)
           k == ReportedFingers
<1>1. c \in Nat
  BY FiniteSlots DEF ActiveContacts, SlotTypes
<1>2. CASE tool_keys = {}
  <2>1. EffectiveFingers = Max({c} \cup {})
    BY <1>2 DEF EffectiveFingers
  <2>2. EffectiveFingers = CHOOSE m \in {c} : \A n \in {c} : m >= n
    BY <2>1 DEF Max
  <2>3. c >= c
    BY <1>1
  <2>4. EffectiveFingers = c
    BY <2>2, <2>3
  <2> QED
    BY <1>1, <1>2, <2>4
<1>3. CASE tool_keys # {}
  <2>1. EffectiveFingers = Max({c} \cup {k})
    BY <1>3 DEF EffectiveFingers
  <2>2. EffectiveFingers = CHOOSE m \in {c, k} : \A n \in {c, k} : m >= n
    BY <2>1 DEF Max
  <2>3. k \in 1 .. 5
    BY <1>3, KeyMax DEF SlotTypes
  <2>4. \E m \in {c, k} : \A n \in {c, k} : m >= n
    BY <1>1, <2>3
  <2>5. EffectiveFingers \in {c, k} /\ EffectiveFingers >= c /\ EffectiveFingers >= k
    BY <2>2, <2>4
  <2> QED
    BY <1>1, <1>3, <2>3, <2>5
<1> QED
  BY <1>2, <1>3

LEMMA LocatedTypes ==
    ASSUME SlotTypes
    PROVE  /\ Located \subseteq ActiveContacts /\ ActiveContacts \subseteq DOMAIN slots
           /\ IsFiniteSet(Located) /\ Cardinality(Located) \in Nat
           /\ Cardinality(Located) <= Cardinality(ActiveContacts)
           /\ \A s \in Located : slots[s].x \in Int /\ slots[s].y \in Int
           /\ \A s \in ActiveContacts : slots[s].tracking_id \in Touches
           /\ [s \in Located |-> slots[s].x] \in [Located -> Int]
           /\ [s \in Located |-> slots[s].y] \in [Located -> Int]
<1>1. Located \subseteq ActiveContacts /\ ActiveContacts \subseteq DOMAIN slots
  BY DEF Located, ActiveContacts
<1>2. IsFiniteSet(ActiveContacts) /\ IsFiniteSet(Located) /\ Cardinality(Located) \in Nat
  BY <1>1, FiniteSlots DEF SlotTypes
<1>3. Cardinality(Located) <= Cardinality(ActiveContacts)
  BY <1>1, <1>2, FS_Subset
<1>4. ASSUME NEW s \in Located PROVE slots[s].x \in Int /\ slots[s].y \in Int
  <2>1. slots[s] \in Contact
    BY <1>1 DEF SlotTypes
  <2>2. slots[s].x # None /\ slots[s].y # None
    BY DEF Located, HasPoint
  <2> QED
    BY <2>1, <2>2, IntegerCoordinatesAssumption DEF Contact
<1>5. \A s \in ActiveContacts : slots[s].tracking_id \in Touches
  BY <1>1 DEF SlotTypes, Contact, ActiveContacts
<1> QED
  BY <1>1, <1>2, <1>3, <1>4, <1>5

\* There are as many pairs of slot and id as slots.
LEMMA MotionContactsCount ==
    ASSUME SlotTypes
    PROVE  Cardinality(MotionContacts) = Cardinality(Located)
<1> DEFINE f == [s \in Located |-> <<s, slots[s].tracking_id>>]
<1>1. f \in Surjection(Located, MotionContacts)
  BY DEF Surjection, MotionContacts
<1>2. f \in Injection(Located, MotionContacts)
  BY DEF Injection, IsInjective, MotionContacts
<1> QED
  BY <1>1, <1>2, LocatedTypes, FS_Surjection

LEMMA CentroidTypes ==
    ASSUME SlotTypes
    PROVE  IF MotionContacts = {} THEN Located = {} /\ Centroid = None
           ELSE /\ Centroid \in Sums
                /\ Centroid.n = Cardinality(MotionContacts)
                /\ Centroid.n <= EffectiveFingers
                /\ EffectiveFingers > 0
                /\ Centroid = [x |-> SumFunction([s \in Located |-> slots[s].x]),
                               y |-> SumFunction([s \in Located |-> slots[s].y]),
                               n |-> Cardinality(Located)]
<1>1. MotionContacts = {} <=> Located = {}
  BY DEF MotionContacts
<1>2. CASE Located = {}
  BY <1>1, <1>2 DEF Centroid
<1>3. CASE Located # {}
  <2>1. SumFunction([s \in Located |-> slots[s].x]) \in Int
    BY LocatedTypes, SumOfDifferences
  <2>2. SumFunction([s \in Located |-> slots[s].y]) \in Int
    BY LocatedTypes, SumOfDifferences
  <2>3. Cardinality(Located) \in Nat /\ Cardinality(Located) # 0
    BY <1>3, LocatedTypes, FS_EmptySet
  <2> QED
    BY <1>1, <1>3, <2>1, <2>2, <2>3, MotionContactsCount, EffectiveIs, LocatedTypes
    DEF Centroid, Sums
<1> QED
  BY <1>2, <1>3

PreviousTypes ==
    /\ previous_fingers \in Nat
    /\ previous_motion_contacts \subseteq Slots \X Touches
    /\ IF previous_motion_contacts = {}
       THEN previous_centroid = None
       ELSE /\ previous_centroid \in Sums
            /\ previous_centroid.n = Cardinality(previous_motion_contacts)
            /\ previous_centroid.n <= previous_fingers

LEMMA TypeOKParts ==
    TypeOK <=> /\ SlotTypes /\ PreviousTypes
               /\ dirty \in BOOLEAN
               /\ frame # None => frame \in Frame /\ frame.fingers = previous_fingers
  BY SomeSlotsIs DEF TypeOK, SlotTypes, PreviousTypes

LEMMA TypeOKPartsNext ==
    ASSUME SlotTypes', PreviousTypes', dirty' \in BOOLEAN,
           frame' # None => frame' \in Frame /\ frame'.fingers = previous_fingers'
    PROVE  TypeOK'
  BY SomeSlotsIs DEF TypeOK, SlotTypes, PreviousTypes

LEMMA DeltaTypes ==
    ASSUME SlotTypes, PreviousTypes
    PROVE  Delta \in Motion \cup {None}
<1>1. SUFFICES ASSUME Centroid # None, previous_centroid # None
               PROVE  Delta \in Motion \cup {None}
  BY DEF Delta
<1>2. Centroid \in Sums /\ previous_centroid \in Sums
  BY <1>1, CentroidTypes DEF PreviousTypes
<1> QED
  BY <1>2 DEF Delta, Motion, Sums

LEMMA NewFrameTypes ==
    ASSUME SlotTypes, PreviousTypes
    PROVE  /\ NewFrame \in Frame /\ NewFrame # None
           /\ NewFrame.fingers = EffectiveFingers
           /\ NewFrame.complete = TrackingComplete
           /\ NewFrame.contacts = [s \in ActiveContacts |-> slots[s]]
           /\ NewFrame.delta = Delta
<1>1. [s \in ActiveContacts |-> slots[s]] \in SomeSlots(Contact)
  BY SomeSlotsIs DEF SlotTypes, ActiveContacts
<1>2. TrackingComplete \in BOOLEAN
  BY DEF TrackingComplete
<1>3. Phase \in {"begin", "update", "end"}
  BY DEF Phase
<1>4. NewFrame \in Frame
  BY <1>1, <1>2, <1>3, EffectiveIs, DeltaTypes DEF NewFrame, Frame
<1> QED
  BY <1>4, NullAssumption DEF NewFrame

LEMMA FinishFrameTypes ==
    ASSUME TInv, FinishFrame
    PROVE  TypeOK'
<1> USE DEF TInv
<1>1. SlotTypes /\ PreviousTypes /\ dirty \in BOOLEAN
  BY TypeOKParts
<1>2. SlotTypes' /\ dirty' \in BOOLEAN
  BY <1>1 DEF SlotTypes, FinishFrame
<1>3. CASE dirty
  <2>1. /\ frame' = NewFrame
        /\ previous_fingers' = EffectiveFingers
        /\ previous_motion_contacts' = MotionContacts
        /\ previous_centroid' = IF EffectiveFingers = 0 THEN None ELSE Centroid
    BY <1>3 DEF FinishFrame
  <2>2. MotionContacts \subseteq Slots \X Touches
    BY <1>1, LocatedTypes DEF MotionContacts, SlotTypes
  <2>3. PreviousTypes'
    BY <1>1, <2>1, <2>2, CentroidTypes, EffectiveIs DEF PreviousTypes
  <2>4. frame' \in Frame /\ frame'.fingers = previous_fingers'
    BY <1>1, <2>1, NewFrameTypes
  <2> QED
    BY <1>2, <2>3, <2>4, TypeOKPartsNext
<1>4. CASE ~dirty
  <2>1. frame' = None /\ PreviousTypes'
    BY <1>1, <1>4 DEF FinishFrame, previousVars, PreviousTypes
  <2> QED
    BY <1>2, <2>1, TypeOKPartsNext
<1> QED
  BY <1>3, <1>4

LEMMA TInvInit == Init => TInv
<1> SUFFICES ASSUME Init PROVE TInv
  OBVIOUS
<1>1. PadTypes /\ wire \in Seq(AllEvents)
  BY PadTypesInit DEF Init
<1>2. SlotTypes /\ PreviousTypes
  BY SlotAssumption DEF Init, SlotTypes, PreviousTypes, Nothing
<1> QED
  BY <1>1, <1>2, TypeOKParts DEF TInv, Init

\* The steps that take an event: what they leave alone, and the slots.
LEMMA TrackingIdTypes ==
    ASSUME TInv, TrackingId
    PROVE  SlotTypes'
<1>0. SlotTypes
  BY TypeOKParts DEF TInv
<1>1. Value \in Touches \cup {-1}
  BY ReadTypes DEF TInv, TrackingId
<1>2. CASE Value < 0
  <2>1. slots' = [s \in DOMAIN slots \ {current_slot} |-> slots[s]]
    BY <1>2 DEF TrackingId
  <2> QED
    BY <1>0, <2>1 DEF SlotTypes, TrackingId
<1>3. CASE ~(Value < 0)
  <2>1. Value \in Touches
    BY <1>1, <1>3
  <2>2. [Unknown EXCEPT !.tracking_id = Value] \in Contact
    BY <2>1 DEF Unknown, Contact
  <2>3. slots' = SetCurrent([Unknown EXCEPT !.tracking_id = Value])
    BY <1>3 DEF TrackingId
  <2> QED
    BY <1>0, <2>2, <2>3 DEF SlotTypes, TrackingId, SetCurrent
<1> QED
  BY <1>2, <1>3

LEMMA PositionTypes ==
    ASSUME TInv, Position
    PROVE  SlotTypes'
<1>0. SlotTypes
  BY TypeOKParts DEF TInv
<1>1. Current \in Contact
  BY <1>0 DEF Current, Unknown, Contact, SlotTypes
<1>2. CASE Read("x") /\ slots' = SetCurrent([Current EXCEPT !.x = Value])
  <2>1. Value \in Xs
    BY <1>2, ReadTypes DEF TInv
  <2>2. [Current EXCEPT !.x = Value] \in Contact
    BY <1>1, <2>1 DEF Contact
  <2> QED
    BY <1>0, <1>2, <2>2 DEF SlotTypes, Position, SetCurrent
<1>3. CASE Read("y") /\ slots' = SetCurrent([Current EXCEPT !.y = Value])
  <2>1. Value \in Ys
    BY <1>3, ReadTypes DEF TInv
  <2>2. [Current EXCEPT !.y = Value] \in Contact
    BY <1>1, <2>1 DEF Contact
  <2> QED
    BY <1>0, <1>3, <2>2 DEF SlotTypes, Position, SetCurrent
<1> QED
  BY <1>2, <1>3 DEF Position

LEMMA TInvNext == TInv /\ [Next]_vars => TInv'
<1> SUFFICES ASSUME TInv, [Next]_vars PROVE TInv'
  OBVIOUS
<1>0. SlotTypes /\ PreviousTypes /\ dirty \in BOOLEAN
      /\ (frame # None => frame \in Frame /\ frame.fingers = previous_fingers)
  BY TypeOKParts DEF TInv
<1>1. CASE ChangeSlot
  <2>1. PadTypes' /\ wire' \in Seq(AllEvents)
    BY <1>1, TouchChangesTypes DEF TInv, ChangeSlot
  <2>2. UNCHANGED trackerVars
    BY <1>1 DEF ChangeSlot
  <2>3. TypeOK'
    BY <2>2 DEF TInv, TypeOK, trackerVars, previousVars
  <2> QED
    BY <2>1, <2>3 DEF TInv
<1>2. CASE EndReport
  <2>1. PadTypes' /\ wire' \in Seq(AllEvents)
    BY <1>2, ReportEndsTypes DEF TInv, EndReport
  <2>2. UNCHANGED trackerVars
    BY <1>2 DEF EndReport
  <2>3. TypeOK'
    BY <2>2 DEF TInv, TypeOK, trackerVars, previousVars
  <2> QED
    BY <2>1, <2>3 DEF TInv
<1>3. CASE SelectSlot
  <2>1. PadTypes' /\ wire' \in Seq(AllEvents) /\ Value \in Slots
    BY <1>3, ReadTypes DEF TInv, SelectSlot
  <2>2. SlotTypes' /\ PreviousTypes' /\ dirty' = dirty /\ frame' = None
    BY <1>0, <1>3, <2>1 DEF SelectSlot, SlotTypes, PreviousTypes, previousVars
  <2> QED
    BY <1>0, <2>1, <2>2, TypeOKPartsNext DEF TInv
<1>4. CASE TrackingId
  <2>1. PadTypes' /\ wire' \in Seq(AllEvents)
    BY <1>4, ReadTypes DEF TInv, TrackingId
  <2>2. PreviousTypes' /\ dirty' = TRUE /\ frame' = None
    BY <1>0, <1>4 DEF TrackingId, PreviousTypes, previousVars
  <2> QED
    BY <1>4, <2>1, <2>2, TrackingIdTypes, TypeOKPartsNext DEF TInv
<1>5. CASE Position
  <2>1. PadTypes' /\ wire' \in Seq(AllEvents)
    BY <1>5, ReadTypes DEF TInv, Position
  <2>2. PreviousTypes' /\ dirty' = TRUE /\ frame' = None
    BY <1>0, <1>5 DEF Position, PreviousTypes, previousVars
  <2> QED
    BY <1>5, <2>1, <2>2, PositionTypes, TypeOKPartsNext DEF TInv
<1>6. CASE HandleKey
  <2>1. PadTypes' /\ wire' \in Seq(AllEvents) /\ Value \in 1 .. 5
    BY <1>6, ReadTypes DEF TInv, HandleKey
  <2>2. SlotTypes' /\ PreviousTypes' /\ dirty' = TRUE /\ frame' = None
    BY <1>0, <1>6, <2>1 DEF HandleKey, SlotTypes, PreviousTypes, previousVars
  <2> QED
    BY <2>1, <2>2, TypeOKPartsNext DEF TInv
<1>7. CASE FinishFrame
  <2>1. PadTypes' /\ wire' \in Seq(AllEvents)
    BY <1>7, ReadTypes DEF TInv, FinishFrame
  <2> QED
    BY <1>7, <2>1, FinishFrameTypes DEF TInv
<1>8. CASE UNCHANGED vars
  BY <1>8 DEF vars, padVars, trackerVars, previousVars, TInv, PadTypes, TypeOK
<1> QED
  BY <1>1, <1>2, <1>3, <1>4, <1>5, <1>6, <1>7, <1>8 DEF Next

\* The tracker's variables are well formed, and what it remembers of the last
\* frame hangs together (push, finish_frame), whatever the pad does and
\* whatever slot was announced before the device was opened.
THEOREM TrackerTypeCorrect == Spec => []TypeOK
<1>1. TInv => TypeOK
  BY DEF TInv
<1> QED
  BY <1>1, TInvInit, TInvNext, PTL DEF Spec

-----------------------------------------------------------------------------
(***************************************************************************)
(* What the unread events are, and what they still have to tell.           *)
(***************************************************************************)
Codes == {"slot", "id", "x", "y", "tool_up", "tool_down", "syn"}

\* The events of the codes in C, in the order the kernel sends them, with values v.
When(c, C, v, rest) == IF c \in C THEN <<Event(c, v[c])>> \o rest ELSE rest

Told(C, v) ==
    When("slot", C, v, When("id", C, v, When("x", C, v, When("y", C, v,
        When("tool_up", C, v, When("tool_down", C, v, When("syn", C, v, <<>>)))))))

IdIn(s) == IF s \in DOMAIN pad THEN pad[s].id ELSE -1

\* What the kernel has to say of the pad, and u of the fingers there were.
Said(u) ==
    [slot |-> announced, id |-> IdIn(announced),
     x |-> last[announced].x, y |-> last[announced].y,
     tool_up |-> u, tool_down |-> counted, syn |-> 0]

KnowsId(t) ==
    /\ t \in DOMAIN slots =>
          t \in DOMAIN pad /\ slots[t].tracking_id \in {pad[t].id, None}
    /\ settled /\ t \in DOMAIN pad =>
          t \in DOMAIN slots /\ slots[t].tracking_id = pad[t].id
KnowsX(t) == t \in DOMAIN slots => slots[t].x \in {last[t].x, None}
KnowsY(t) == t \in DOMAIN slots => slots[t].y \in {last[t].y, None}

\* The contacts are known but for what the events of the codes in C tell.
ContactsBehind(C) ==
    /\ "slot" \notin C => current_slot = announced
    /\ \A t \in Slots :
          /\ t # announced \/ "id" \notin C => KnowsId(t)
          /\ t # announced \/ "x" \notin C => KnowsX(t)
          /\ t # announced \/ "y" \notin C => KnowsY(t)
    /\ "x" \in C \/ "y" \in C => announced \in DOMAIN pad
    /\ dirty \/ pad = before \/ "id" \in C \/ "x" \in C \/ "y" \in C

Counted(n) == {n} \cap (1 .. 5)

\* So are the tool keys, which showed u fingers before they show counted.
KeysBehind(C, u) ==
    IF "tool_up" \in C
    THEN /\ u \in 1 .. 5 /\ tool_keys \subseteq {u} /\ (settled => tool_keys = {u})
         /\ "tool_down" \in C <=> counted \in 1 .. 5
    ELSE IF "tool_down" \in C
    THEN tool_keys = {} /\ counted \in 1 .. 5
    ELSE tool_keys \subseteq Counted(counted) /\ (settled => tool_keys = Counted(counted))

\* A change of a contact is being told, or the end of a report.
Behind(C, u) ==
    /\ wire = Told(C, Said(u))
    /\ IF "syn" \in C
       THEN C \subseteq {"tool_up", "tool_down", "syn"} /\ counted = Fingers
       ELSE C \subseteq {"slot", "id", "x", "y"}
    /\ ContactsBehind(C)
    /\ KeysBehind(C, u)

\* What the tracker remembers of the last frame is the pad as it was then.
Remembered ==
    /\ dirty \/ EffectiveFingers = previous_fingers
    /\ DOMAIN before \subseteq Slots /\ before \in [DOMAIN before -> Finger]
    /\ \A c \in previous_motion_contacts : c[1] \in DOMAIN before /\ c[2] = before[c[1]].id
    /\ previous_centroid # None =>
          LET moved == {c[1] : c \in previous_motion_contacts}
          IN  /\ previous_centroid.x = SumFunction([s \in moved |-> before[s].x])
              /\ previous_centroid.y = SumFunction([s \in moved |-> before[s].y])

LEMMA WhenIs ==
    ASSUME NEW c, NEW C, NEW v, NEW E, NEW rest \in Seq(E), Event(c, v[c]) \in E
    PROVE  /\ When(c, C, v, rest) \in Seq(E)
           /\ c \in C => /\ When(c, C, v, rest) # <<>>
                         /\ Head(When(c, C, v, rest)) = Event(c, v[c])
                         /\ Tail(When(c, C, v, rest)) = rest
           /\ c \notin C => When(c, C, v, rest) = rest
<1>1. <<Event(c, v[c])>> \in Seq(E)
  OBVIOUS
<1>2. <<Event(c, v[c])>> \o rest \in Seq(E)
  BY <1>1
<1>3. <<Event(c, v[c])>> \o rest # <<>> /\ Head(<<Event(c, v[c])>> \o rest) = Event(c, v[c])
      /\ Tail(<<Event(c, v[c])>> \o rest) = rest
  BY <1>1
<1> HIDE DEF Event
<1> QED
  BY <1>2, <1>3, Zenon DEF When

\* The reader meets the codes of C in the kernel's order.
LEMMA ReadTold ==
    ASSUME NEW C, C \subseteq Codes, NEW v, wire = Told(C, v), NEW c, Read(c)
    PROVE  /\ c \in C /\ Value = v[c] /\ wire' = Told(C \ {c}, v)
           /\ c = "id" => "slot" \notin C
           /\ c = "x" => C \cap {"slot", "id"} = {}
           /\ c = "y" => C \cap {"slot", "id", "x"} = {}
           /\ c = "tool_down" => "tool_up" \notin C
           /\ c = "syn" => C = {"syn"}
<1> DEFINE E == {Event(k, v[k]) : k \in Codes}
           T8 == <<>>
           T7(D) == When("syn", D, v, T8)
           T6(D) == When("tool_down", D, v, T7(D))
           T5(D) == When("tool_up", D, v, T6(D))
           T4(D) == When("y", D, v, T5(D))
           T3(D) == When("x", D, v, T4(D))
           T2(D) == When("id", D, v, T3(D))
           T1(D) == When("slot", D, v, T2(D))
           First(k, t, rest) ==
              /\ k \in C => t # T8 /\ Head(t) = Event(k, v[k]) /\ Tail(t) = rest
              /\ k \notin C => t = rest
<1>0. \A k \in Codes : Event(k, v[k]) \in E
  OBVIOUS
<1>1. T7(C) \in Seq(E) /\ First("syn", T7(C), T8)
  <2>1. T8 \in Seq(E)
    OBVIOUS
  <2> HIDE DEF T8
  <2> QED
    BY <1>0, <2>1, WhenIs DEF Codes
<1>2. T6(C) \in Seq(E) /\ First("tool_down", T6(C), T7(C))
  BY <1>0, <1>1, WhenIs DEF Codes
<1>3. T5(C) \in Seq(E) /\ First("tool_up", T5(C), T6(C))
  BY <1>0, <1>2, WhenIs DEF Codes
<1>4. T4(C) \in Seq(E) /\ First("y", T4(C), T5(C))
  BY <1>0, <1>3, WhenIs DEF Codes
<1>5. T3(C) \in Seq(E) /\ First("x", T3(C), T4(C))
  BY <1>0, <1>4, WhenIs DEF Codes
<1>6. T2(C) \in Seq(E) /\ First("id", T2(C), T3(C))
  BY <1>0, <1>5, WhenIs DEF Codes
<1>7. T1(C) \in Seq(E) /\ First("slot", T1(C), T2(C))
  BY <1>0, <1>6, WhenIs DEF Codes
<1>8. wire = T1(C)
  BY DEF Told
<1> DEFINE D == C \ {c}
<1>9. /\ T1(D) = Told(D, v)
      /\ "slot" \notin D => T1(D) = T2(D)
      /\ "id" \notin D => T2(D) = T3(D)
      /\ "x" \notin D => T3(D) = T4(D)
      /\ "y" \notin D => T4(D) = T5(D)
      /\ "tool_up" \notin D => T5(D) = T6(D)
      /\ "tool_down" \notin D => T6(D) = T7(D)
      /\ "syn" \notin D => T7(D) = T8
  BY Zenon DEF Told, When
<1>10. /\ c \notin {"syn"} => T7(D) = T7(C)
       /\ c \notin {"syn", "tool_down"} => T6(D) = T6(C)
       /\ c \notin {"syn", "tool_down", "tool_up"} => T5(D) = T5(C)
       /\ c \notin {"syn", "tool_down", "tool_up", "y"} => T4(D) = T4(C)
       /\ c \notin {"syn", "tool_down", "tool_up", "y", "x"} => T3(D) = T3(C)
       /\ c \notin {"syn", "tool_down", "tool_up", "y", "x", "id"} => T2(D) = T2(C)
  <2>7. c # "syn" => T7(D) = T7(C)
    BY DEF When
  <2> HIDE DEF T7
  <2>6. c \notin {"syn", "tool_down"} => T6(D) = T6(C)
    BY <2>7 DEF When
  <2> HIDE DEF T6
  <2>5. c \notin {"syn", "tool_down", "tool_up"} => T5(D) = T5(C)
    BY <2>6 DEF When
  <2> HIDE DEF T5
  <2>4. c \notin {"syn", "tool_down", "tool_up", "y"} => T4(D) = T4(C)
    BY <2>5 DEF When
  <2> HIDE DEF T4
  <2>3. c \notin {"syn", "tool_down", "tool_up", "y", "x"} => T3(D) = T3(C)
    BY <2>4 DEF When
  <2> HIDE DEF T3
  <2>2. c \notin {"syn", "tool_down", "tool_up", "y", "x", "id"} => T2(D) = T2(C)
    BY <2>3 DEF When
  <2> QED
    BY <2>2, <2>3, <2>4, <2>5, <2>6, <2>7
<1>11. wire # T8 /\ Head(wire).code = c /\ Value = Head(wire).value /\ wire' = Tail(wire)
  BY DEF Read, Value
<1>12. \A k : Event(k, v[k]).code = k /\ Event(k, v[k]).value = v[k]
  BY DEF Event
<1>13. D = C \ {c}
  OBVIOUS
<1> HIDE DEF T1, T2, T3, T4, T5, T6, T7, T8, D, E
<1>a. CASE "slot" \in C
  <2>1. c = "slot" /\ Value = v[c] /\ wire' = T2(C)
    BY <1>a, <1>7, <1>8, <1>11, <1>12
  <2> QED
    BY <1>a, <2>1, <1>9, <1>10, <1>13
<1>b. CASE "slot" \notin C /\ "id" \in C
  <2>1. c = "id" /\ Value = v[c] /\ wire' = T3(C)
    BY <1>b, <1>6, <1>7, <1>8, <1>11, <1>12
  <2> QED
    BY <1>b, <2>1, <1>9, <1>10, <1>13
<1>c. CASE C \cap {"slot", "id"} = {} /\ "x" \in C
  <2>1. c = "x" /\ Value = v[c] /\ wire' = T4(C)
    BY <1>c, <1>5, <1>6, <1>7, <1>8, <1>11, <1>12
  <2> QED
    BY <1>c, <2>1, <1>9, <1>10, <1>13
<1>d. CASE C \cap {"slot", "id", "x"} = {} /\ "y" \in C
  <2>1. c = "y" /\ Value = v[c] /\ wire' = T5(C)
    BY <1>d, <1>4, <1>5, <1>6, <1>7, <1>8, <1>11, <1>12
  <2> QED
    BY <1>d, <2>1, <1>9, <1>10, <1>13
<1>e. CASE C \cap {"slot", "id", "x", "y"} = {} /\ "tool_up" \in C
  <2>1. c = "tool_up" /\ Value = v[c] /\ wire' = T6(C)
    BY <1>e, <1>3, <1>4, <1>5, <1>6, <1>7, <1>8, <1>11, <1>12
  <2> QED
    BY <1>e, <2>1, <1>9, <1>10, <1>13
<1>f. CASE C \cap {"slot", "id", "x", "y", "tool_up"} = {} /\ "tool_down" \in C
  <2>1. c = "tool_down" /\ Value = v[c] /\ wire' = T7(C)
    BY <1>f, <1>2, <1>3, <1>4, <1>5, <1>6, <1>7, <1>8, <1>11, <1>12
  <2> QED
    BY <1>f, <2>1, <1>9, <1>10, <1>13
<1>g. CASE C \subseteq {"syn"}
  <2>1. wire = T7(C)
    BY <1>g, <1>2, <1>3, <1>4, <1>5, <1>6, <1>7, <1>8
  <2>2. "syn" \in C
    BY <2>1, <1>1, <1>11
  <2>3. c = "syn" /\ Value = v[c] /\ wire' = T8
    BY <2>1, <2>2, <1>1, <1>11, <1>12
  <2> QED
    BY <1>g, <2>2, <2>3, <1>9, <1>13
<1> QED
  BY <1>a, <1>b, <1>c, <1>d, <1>e, <1>f, <1>g DEF Codes

\* Nothing is unread only when nothing is left to tell.
LEMMA ToldNothing ==
    ASSUME NEW C, C \subseteq Codes, NEW v, Told(C, v) = <<>>
    PROVE  C = {}
<1>1. \A c, D, rest : rest \in Seq({Event(k, v[k]) : k \in Codes}) /\ c \in Codes
         => /\ When(c, D, v, rest) \in Seq({Event(k, v[k]) : k \in Codes})
            /\ c \in D => When(c, D, v, rest) # <<>>
            /\ c \notin D => When(c, D, v, rest) = rest
  <2>1. \A k \in Codes : Event(k, v[k]) \in {Event(j, v[j]) : j \in Codes}
    OBVIOUS
  <2> QED
    BY <2>1, WhenIs
<1>2. <<>> \in Seq({Event(k, v[k]) : k \in Codes})
  OBVIOUS
<1> HIDE DEF Event
<1> DEFINE E == Seq({Event(k, v[k]) : k \in Codes})
           t7 == When("syn", C, v, <<>>)
           t6 == When("tool_down", C, v, t7)
           t5 == When("tool_up", C, v, t6)
           t4 == When("y", C, v, t5)
           t3 == When("x", C, v, t4)
           t2 == When("id", C, v, t3)
           t1 == When("slot", C, v, t2)
<1>3. t7 \in E /\ t6 \in E /\ t5 \in E /\ t4 \in E /\ t3 \in E /\ t2 \in E
  BY <1>1, <1>2 DEF Codes
<1>4. t1 = <<>>
  BY DEF Told
<1>5. "slot" \notin C /\ t2 = <<>>
  BY <1>1, <1>3, <1>4 DEF Codes
<1>6. "id" \notin C /\ t3 = <<>>
  BY <1>1, <1>3, <1>5 DEF Codes
<1>7. "x" \notin C /\ t4 = <<>>
  BY <1>1, <1>3, <1>6 DEF Codes
<1>8. "y" \notin C /\ t5 = <<>>
  BY <1>1, <1>3, <1>7 DEF Codes
<1>9. "tool_up" \notin C /\ t6 = <<>>
  BY <1>1, <1>3, <1>8 DEF Codes
<1>10. "tool_down" \notin C /\ t7 = <<>>
  BY <1>1, <1>3, <1>9 DEF Codes
<1>11. "syn" \notin C
  BY <1>1, <1>2, <1>10 DEF Codes
<1> QED
  BY <1>5, <1>6, <1>7, <1>8, <1>9, <1>10, <1>11 DEF Codes

One(c, C, v) == IF c \in C THEN <<Event(c, v[c])>> ELSE <<>>

LEMMA OneTypes ==
    ASSUME NEW C, NEW v, NEW c \in Codes
    PROVE  One(c, C, v) \in Seq({Event(k, v[k]) : k \in Codes})
<1>1. Event(c, v[c]) \in {Event(k, v[k]) : k \in Codes}
  OBVIOUS
<1>2. <<Event(c, v[c])>> \in Seq({Event(k, v[k]) : k \in Codes})
  BY <1>1
<1>3. <<>> \in Seq({Event(k, v[k]) : k \in Codes})
  OBVIOUS
<1> QED
  BY <1>2, <1>3, Zenon DEF One

LEMMA OneWhen ==
    ASSUME NEW c, NEW C, NEW v, NEW E, NEW rest \in Seq(E)
    PROVE  When(c, C, v, rest) = One(c, C, v) \o rest
<1>1. <<>> \o rest = rest
  BY ConcatEmptySeq
<1> QED
  BY <1>1, Zenon DEF When, One

\* The events of a change and of the end of a report, as the kernel puts them
\* one after the other.
LEMMA ToldChange ==
    ASSUME NEW C, C \subseteq {"slot", "id", "x", "y"}, NEW v
    PROVE  Told(C, v) = One("slot", C, v) \o One("id", C, v) \o One("x", C, v) \o One("y", C, v)
<1> DEFINE E == {Event(k, v[k]) : k \in Codes}
           a == One("slot", C, v)
           b == One("id", C, v)
           c == One("x", C, v)
           d == One("y", C, v)
<1>1. a \in Seq(E) /\ b \in Seq(E) /\ c \in Seq(E) /\ d \in Seq(E)
  BY OneTypes DEF Codes
<1>2. Told(C, v) = a \o (b \o (c \o d))
  <2>1. When("tool_up", C, v, When("tool_down", C, v, When("syn", C, v, <<>>))) = <<>>
    BY Zenon DEF When
  <2>2. When("y", C, v, <<>>) = d
    <3>1. <<Event("y", v["y"])>> \o <<>> = <<Event("y", v["y"])>>
      OBVIOUS
    <3> QED
      BY <3>1, Zenon DEF When, One
  <2>0. \A k, rest : rest \in Seq(E) => When(k, C, v, rest) = One(k, C, v) \o rest
    BY OneWhen
  <2> HIDE DEF E
  <2>3. When("x", C, v, d) = c \o d /\ c \o d \in Seq(E)
    BY <1>1, <2>0, ConcatProperties
  <2>4. When("id", C, v, c \o d) = b \o (c \o d) /\ b \o (c \o d) \in Seq(E)
    BY <1>1, <2>0, <2>3, ConcatProperties
  <2>5. When("slot", C, v, b \o (c \o d)) = a \o (b \o (c \o d))
    BY <2>0, <2>4
  <2> QED
    BY <2>1, <2>2, <2>3, <2>4, <2>5, Zenon DEF Told
<1> HIDE DEF a, b, c, d, E
<1>3. b \o c \in Seq(E) /\ c \o d \in Seq(E)
  BY <1>1, ConcatProperties
<1>4. ((a \o b) \o c) \o d = a \o (b \o (c \o d))
  <2>1. a \o b \in Seq(E)
    BY <1>1, ConcatProperties
  <2>2. ((a \o b) \o c) \o d = (a \o b) \o (c \o d)
    BY <1>1, <2>1, ConcatAssociative
  <2>3. (a \o b) \o (c \o d) = a \o (b \o (c \o d))
    BY <1>1, <1>3, ConcatAssociative
  <2> QED
    BY <2>2, <2>3
<1> QED
  BY <1>2, <1>4 DEF a, b, c, d

LEMMA ToldReport ==
    ASSUME NEW C, C \subseteq {"tool_up", "tool_down", "syn"}, "syn" \in C, NEW v
    PROVE  Told(C, v) = (One("tool_up", C, v) \o One("tool_down", C, v)) \o <<Event("syn", v["syn"])>>
<1> DEFINE E == {Event(k, v[k]) : k \in Codes}
           a == One("tool_up", C, v)
           b == One("tool_down", C, v)
           c == <<Event("syn", v["syn"])>>
<1>1. a \in Seq(E) /\ b \in Seq(E) /\ c \in Seq(E)
  <2>1. c = One("syn", C, v)
    BY Zenon DEF One
  <2> QED
    BY <2>1, OneTypes DEF Codes
<1>2. Told(C, v) = a \o (b \o c)
  <2>1. When("syn", C, v, <<>>) = c
    <3>1. <<Event("syn", v["syn"])>> \o <<>> = <<Event("syn", v["syn"])>>
      OBVIOUS
    <3> QED
      BY <3>1, Zenon DEF When
  <2>0. \A k, rest : rest \in Seq(E) => When(k, C, v, rest) = One(k, C, v) \o rest
    BY OneWhen
  <2> HIDE DEF E
  <2>2. When("tool_down", C, v, c) = b \o c /\ b \o c \in Seq(E)
    BY <1>1, <2>0, ConcatProperties
  <2>3. When("tool_up", C, v, b \o c) = a \o (b \o c)
    BY <2>0, <2>2
  <2>4. "slot" \notin C /\ "id" \notin C /\ "x" \notin C /\ "y" \notin C
    OBVIOUS
  <2> QED
    BY <2>1, <2>2, <2>3, <2>4, Zenon DEF Told, When
<1> QED
  BY <1>1, <1>2, ConcatAssociative

-----------------------------------------------------------------------------
(***************************************************************************)
(* The steps of the tracker take one event each; those of the pad and the  *)
(* kernel add to what is unread.                                           *)
(***************************************************************************)
\* What a step that takes an event finds.
LEMMA ReadBehind ==
    ASSUME NEW C \in SUBSET Codes, NEW u \in Nat, Behind(C, u), NEW c, Read(c)
    PROVE  /\ c \in C /\ wire' = Told(C \ {c}, Said(u)')
           /\ UNCHANGED padVars
           /\ Value = Said(u)[c]
           /\ c = "id" => "slot" \notin C
           /\ c = "x" => C \cap {"slot", "id"} = {}
           /\ c = "y" => C \cap {"slot", "id", "x"} = {}
           /\ c = "tool_down" => "tool_up" \notin C
           /\ c = "syn" => C = {"syn"}
           /\ c \in {"slot", "id", "x", "y"} => "syn" \notin C /\ C \subseteq {"slot", "id", "x", "y"}
           /\ c \in {"tool_up", "tool_down"} => "syn" \in C /\ C \subseteq {"tool_up", "tool_down", "syn"}
<1>1. wire = Told(C, Said(u)) /\ C \subseteq Codes
  BY DEF Behind
<1>2. UNCHANGED padVars
  BY DEF Read
<1>3. Said(u)' = Said(u)
  BY <1>2 DEF Said, IdIn, padVars
<1>4. /\ c \in C /\ Value = Said(u)[c] /\ wire' = Told(C \ {c}, Said(u))
      /\ c = "id" => "slot" \notin C
      /\ c = "x" => C \cap {"slot", "id"} = {}
      /\ c = "y" => C \cap {"slot", "id", "x"} = {}
      /\ c = "tool_down" => "tool_up" \notin C
      /\ c = "syn" => C = {"syn"}
  BY <1>1, ReadTold
<1>5. /\ c \in {"slot", "id", "x", "y"} => "syn" \notin C /\ C \subseteq {"slot", "id", "x", "y"}
      /\ c \in {"tool_up", "tool_down"} => "syn" \in C /\ C \subseteq {"tool_up", "tool_down", "syn"}
  BY <1>4 DEF Behind
<1> QED
  BY <1>2, <1>3, <1>4, <1>5

LEMMA SaidIs ==
    ASSUME NEW u
    PROVE  /\ Said(u)["slot"] = announced
           /\ Said(u)["id"] = IdIn(announced)
           /\ Said(u)["x"] = last[announced].x
           /\ Said(u)["y"] = last[announced].y
           /\ Said(u)["tool_up"] = u
           /\ Said(u)["tool_down"] = counted
  BY DEF Said

\* The tool keys are none of a contact's concern.
LEMMA KeysStay ==
    ASSUME NEW C, NEW c \in {"slot", "id", "x", "y"}, NEW u, KeysBehind(C, u),
           UNCHANGED <<tool_keys, counted, settled>>
    PROVE  KeysBehind(C \ {c}, u)'
  BY DEF KeysBehind, Counted

LEMMA SelectSlotBehind ==
    ASSUME NEW C \in SUBSET Codes, NEW u \in Nat, Behind(C, u), SelectSlot
    PROVE  Behind(C \ {"slot"}, u)'
<1>1. /\ wire' = Told(C \ {"slot"}, Said(u)') /\ UNCHANGED padVars
      /\ current_slot' = announced
      /\ "syn" \notin C /\ C \subseteq {"slot", "id", "x", "y"}
  BY ReadBehind, SaidIs DEF SelectSlot
<1>2. UNCHANGED <<slots, tool_keys, dirty, before, settled>>
  BY DEF SelectSlot, history
<1>3. ContactsBehind(C \ {"slot"})'
  BY <1>1, <1>2 DEF Behind, ContactsBehind, KnowsId, KnowsX, KnowsY, padVars
<1>4. KeysBehind(C \ {"slot"}, u)'
  BY <1>1, <1>2, KeysStay DEF Behind, padVars
<1> QED
  BY <1>1, <1>3, <1>4 DEF Behind

LEMMA TrackingIdBehind ==
    ASSUME TInv, NEW C \in SUBSET Codes, NEW u \in Nat, Behind(C, u), TrackingId
    PROVE  Behind(C \ {"id"}, u)'
<1>1. /\ wire' = Told(C \ {"id"}, Said(u)') /\ UNCHANGED padVars
      /\ Value = IdIn(announced) /\ "slot" \notin C
      /\ "syn" \notin C /\ C \subseteq {"slot", "id", "x", "y"}
  BY ReadBehind, SaidIs DEF TrackingId
<1>2. UNCHANGED <<current_slot, tool_keys, before, settled>> /\ dirty' = TRUE
  BY DEF TrackingId, history
<1>3. current_slot = announced
  BY <1>1 DEF Behind, ContactsBehind
<1>4. IF announced \in DOMAIN pad
      THEN /\ DOMAIN slots' = DOMAIN slots \cup {announced}
           /\ slots'[announced] = [Unknown EXCEPT !.tracking_id = pad[announced].id]
      ELSE DOMAIN slots' = DOMAIN slots \ {announced}
  <2>1. CASE announced \in DOMAIN pad
    <3>1. Value = pad[announced].id /\ Value \in Touches
      BY <1>1, <2>1 DEF IdIn, TInv, PadTypes, Finger
    <3>2. slots' = SetCurrent([Unknown EXCEPT !.tracking_id = Value])
      BY <3>1 DEF TrackingId, Touches
    <3> QED
      BY <1>3, <2>1, <3>1, <3>2 DEF SetCurrent
  <2>2. CASE announced \notin DOMAIN pad
    <3>1. Value = -1
      BY <1>1, <2>2 DEF IdIn
    <3>2. slots' = [s \in DOMAIN slots \ {current_slot} |-> slots[s]]
      BY <3>1 DEF TrackingId
    <3> QED
      BY <1>3, <2>2, <3>2
  <2> QED
    BY <2>1, <2>2
<1>5. \A t \in DOMAIN slots \ {announced} : slots'[t] = slots[t]
  BY <1>3 DEF TrackingId, SetCurrent
<1>6. ContactsBehind(C \ {"id"})'
  <2>1. ASSUME NEW t \in Slots, t # announced
        PROVE  KnowsId(t)' /\ KnowsX(t)' /\ KnowsY(t)'
    <3>1. KnowsId(t) /\ KnowsX(t) /\ KnowsY(t)
      BY <2>1 DEF Behind, ContactsBehind
    <3>2. (t \in DOMAIN slots' <=> t \in DOMAIN slots) /\ (t \in DOMAIN slots => slots'[t] = slots[t])
      BY <2>1, <1>4, <1>5
    <3> QED
      BY <3>1, <3>2, <1>1, <1>2 DEF KnowsId, KnowsX, KnowsY, padVars
  <2>2. KnowsId(announced)' /\ KnowsX(announced)' /\ KnowsY(announced)'
    BY <1>1, <1>2, <1>4 DEF KnowsId, KnowsX, KnowsY, padVars, Unknown
  <2>3. announced' = announced /\ pad' = pad
    BY <1>1 DEF padVars
  <2>4. \A t \in Slots : KnowsId(t)' /\ KnowsX(t)' /\ KnowsY(t)'
    BY <2>1, <2>2, <2>3
  <2> QED
    BY <1>1, <1>2, <1>3, <2>3, <2>4 DEF Behind, ContactsBehind
<1>7. KeysBehind(C \ {"id"}, u)'
  BY <1>1, <1>2, KeysStay DEF Behind, padVars
<1> QED
  BY <1>1, <1>6, <1>7 DEF Behind

LEMMA PositionBehind ==
    ASSUME TInv, NEW C \in SUBSET Codes, NEW u \in Nat, Behind(C, u), Position
    PROVE  \E c \in {"x", "y"} : Behind(C \ {c}, u)'
<1>1. PICK c \in {"x", "y"} :
         /\ Read(c)
         /\ \/ c = "x" /\ slots' = SetCurrent([Current EXCEPT !.x = Value])
            \/ c = "y" /\ slots' = SetCurrent([Current EXCEPT !.y = Value])
  BY DEF Position
<1>2. /\ wire' = Told(C \ {c}, Said(u)') /\ UNCHANGED padVars /\ c \in C
      /\ c = "x" => Value = last[announced].x
      /\ c = "y" => Value = last[announced].y
      /\ "slot" \notin C /\ "id" \notin C
      /\ "syn" \notin C /\ C \subseteq {"slot", "id", "x", "y"}
      /\ c = "y" => "x" \notin C
  <2>1. CASE c = "x"
    BY <1>1, <2>1, ReadBehind, SaidIs
  <2>2. CASE c = "y"
    <3>1. Read("y")
      BY <1>1, <2>2
    <3>2. /\ wire' = Told(C \ {"y"}, Said(u)') /\ UNCHANGED padVars /\ "y" \in C
          /\ Value = Said(u)["y"] /\ C \cap {"slot", "id", "x"} = {}
          /\ "syn" \notin C /\ C \subseteq {"slot", "id", "x", "y"}
      BY <3>1, ReadBehind
    <3> QED
      BY <2>2, <3>2, SaidIs
  <2> QED
    BY <2>1, <2>2
<1>3. UNCHANGED <<current_slot, tool_keys, before, settled>> /\ dirty' = TRUE
  BY DEF Position, history
<1>4. current_slot = announced /\ announced \in DOMAIN pad /\ announced \in Slots
  BY <1>1, <1>2 DEF Behind, ContactsBehind, TInv, PadTypes
<1>5. /\ DOMAIN slots' = DOMAIN slots \cup {announced}
      /\ \A t \in DOMAIN slots \ {announced} : slots'[t] = slots[t]
      /\ c = "x" => slots'[announced] = [Current EXCEPT !.x = last[announced].x]
      /\ c = "y" => slots'[announced] = [Current EXCEPT !.y = last[announced].y]
  BY <1>1, <1>2, <1>4 DEF SetCurrent
<1>6. Current = IF announced \in DOMAIN slots THEN slots[announced] ELSE Unknown
  BY <1>4 DEF Current
<1>7. Current \in Contact
  BY <1>6, TypeOKParts DEF TInv, SlotTypes, Unknown, Contact
<1>8. \A t \in Slots : (t # announced => KnowsId(t) /\ KnowsX(t) /\ KnowsY(t)) /\ KnowsId(t)
      /\ ("x" \notin C => KnowsX(t)) /\ ("y" \notin C => KnowsY(t))
  BY <1>2 DEF Behind, ContactsBehind
<1>9. ASSUME NEW t \in Slots, t # announced
      PROVE  KnowsId(t)' /\ KnowsX(t)' /\ KnowsY(t)'
  <2>1. KnowsId(t) /\ KnowsX(t) /\ KnowsY(t)
    BY <1>8, <1>9
  <2>2. (t \in DOMAIN slots' <=> t \in DOMAIN slots) /\ (t \in DOMAIN slots => slots'[t] = slots[t])
    BY <1>5, <1>9
  <2> QED
    BY <1>2, <1>3, <2>1, <2>2 DEF KnowsId, KnowsX, KnowsY, padVars
<1>10. KnowsId(announced)'
  <2>1. KnowsId(announced)
    BY <1>4, <1>8
  <2>2. announced \in DOMAIN slots' /\ slots'[announced].tracking_id = Current.tracking_id
    BY <1>5, <1>7 DEF Contact
  <2>3. Current.tracking_id \in {pad[announced].id, None}
        /\ (settled => Current.tracking_id = pad[announced].id)
    BY <1>4, <1>6, <2>1 DEF KnowsId, Unknown
  <2> QED
    BY <1>2, <1>3, <1>4, <2>2, <2>3 DEF KnowsId, padVars
<1>11. ("x" \notin C \ {c} => KnowsX(announced)') /\ ("y" \notin C \ {c} => KnowsY(announced)')
  <2>1. CASE c = "x"
    <3>1. slots'[announced].x = last[announced].x /\ slots'[announced].y = Current.y
      BY <1>5, <1>7, <2>1 DEF Contact
    <3>2. "y" \notin C => KnowsY(announced)
      BY <1>4, <1>8
    <3>3. "y" \notin C => Current.y \in {last[announced].y, None}
      BY <1>6, <3>2 DEF KnowsY, Unknown
    <3> QED
      BY <1>2, <2>1, <3>1, <3>3 DEF KnowsX, KnowsY, padVars
  <2>2. CASE c = "y"
    <3>1. slots'[announced].y = last[announced].y /\ slots'[announced].x = Current.x
      BY <1>5, <1>7, <2>2 DEF Contact
    <3>2. KnowsX(announced)
      BY <1>2, <1>4, <1>8, <2>2
    <3>3. Current.x \in {last[announced].x, None}
      BY <1>6, <3>2 DEF KnowsX, Unknown
    <3> QED
      BY <1>2, <2>2, <3>1, <3>3 DEF KnowsX, KnowsY, padVars
  <2> QED
    BY <2>1, <2>2
<1>12. announced' = announced /\ pad' = pad
  BY <1>2 DEF padVars
<1>13. ContactsBehind(C \ {c})'
  BY <1>2, <1>3, <1>4, <1>9, <1>10, <1>11, <1>12 DEF ContactsBehind
<1>14. KeysBehind(C \ {c}, u)'
  BY <1>2, <1>3, KeysStay DEF Behind, padVars
<1>15. Behind(C \ {c}, u)'
  BY <1>2, <1>13, <1>14 DEF Behind
<1> QED
  BY <1>15

LEMMA HandleKeyBehind ==
    ASSUME TInv, NEW C \in SUBSET Codes, NEW u \in Nat, Behind(C, u), HandleKey
    PROVE  \E c \in {"tool_up", "tool_down"} : Behind(C \ {c}, u)'
<1>1. UNCHANGED <<current_slot, slots, before, settled>> /\ dirty' = TRUE
  BY DEF HandleKey, history
<1>2. ASSUME NEW c \in {"tool_up", "tool_down"}, Read(c)
      PROVE  /\ ContactsBehind(C \ {c})' /\ UNCHANGED <<counted, padVars>>
             /\ C \subseteq {"tool_up", "tool_down", "syn"} /\ "syn" \in C /\ c \in C
             /\ wire' = Told(C \ {c}, Said(u)') /\ Fingers' = Fingers
  <2>1. /\ UNCHANGED padVars /\ c \in C
        /\ C \subseteq {"tool_up", "tool_down", "syn"} /\ "syn" \in C
        /\ wire' = Told(C \ {c}, Said(u)')
    BY <1>2, ReadBehind
  <2>2. ContactsBehind(C \ {c})'
    BY <1>1, <2>1 DEF Behind, ContactsBehind, KnowsId, KnowsX, KnowsY, padVars
  <2> QED
    BY <2>1, <2>2 DEF padVars, Fingers
<1>3. CASE Read("tool_up") /\ tool_keys' = tool_keys \ {Value}
  <2>1. Value = u
    <3>1. Value = Said(u)["tool_up"]
      BY <1>3, ReadBehind
    <3> QED
      BY <3>1, SaidIs
  <2>2. KeysBehind(C \ {"tool_up"}, u)'
    BY <1>1, <1>2, <1>3, <2>1 DEF Behind, KeysBehind, Counted
  <2> QED
    BY <1>2, <1>3, <2>2 DEF Behind
<1>4. CASE Read("tool_down") /\ tool_keys' = tool_keys \cup {Value}
  <2>1. Value = counted /\ "tool_up" \notin C
    BY <1>4, ReadBehind, SaidIs
  <2>2. KeysBehind(C \ {"tool_down"}, u)'
    BY <1>1, <1>2, <1>4, <2>1 DEF Behind, KeysBehind, Counted
  <2> QED
    BY <1>2, <1>4, <2>2 DEF Behind
<1> QED
  BY <1>3, <1>4 DEF HandleKey

LEMMA NoFingers ==
    ASSUME PadTypes
    PROVE  /\ Cardinality(DOMAIN pad) \in Nat /\ Fingers \in Nat
           /\ Fingers = 0 => DOMAIN pad = {} /\ untracked = 0
<1>1. IsFiniteSet(DOMAIN pad) /\ Cardinality(DOMAIN pad) \in Nat
  BY FiniteSlots DEF PadTypes
<1>2. Fingers = Cardinality(DOMAIN pad) + untracked /\ untracked \in Nat
  BY DEF Fingers, PadTypes
<1>3. Cardinality(DOMAIN pad) = 0 => DOMAIN pad = {}
  BY <1>1, FS_EmptySet
<1> QED
  BY <1>1, <1>2, <1>3

\* At the end of a report, nothing is left to tell.
LEMMA SynReached ==
    ASSUME TInv, NEW C \in SUBSET Codes, NEW u \in Nat, Behind(C, u), Read("syn")
    PROVE  /\ wire' = Told({}, Said(u)') /\ UNCHANGED padVars
           /\ counted = Fingers
           /\ \A t \in Slots : KnowsId(t) /\ KnowsX(t) /\ KnowsY(t)
           /\ current_slot = announced
           /\ dirty \/ pad = before
           /\ tool_keys \subseteq Counted(Fingers)
           /\ settled \/ Fingers = 0 =>
                /\ DOMAIN slots = DOMAIN pad
                /\ \A t \in DOMAIN pad : slots[t].tracking_id = pad[t].id
                /\ tool_keys = Counted(Fingers)
<1>1. wire' = Told(C \ {"syn"}, Said(u)') /\ UNCHANGED padVars /\ C = {"syn"}
  BY ReadBehind
<1>2. wire' = Told({}, Said(u)')
  <2>1. C \ {"syn"} = {}
    BY <1>1
  <2> QED
    BY <1>1, <2>1
<1>3. "id" \notin C /\ "x" \notin C /\ "y" \notin C /\ "slot" \notin C /\ "syn" \in C
      /\ "tool_up" \notin C /\ "tool_down" \notin C
  BY <1>1
<1>4. /\ \A t \in Slots : KnowsId(t) /\ KnowsX(t) /\ KnowsY(t)
      /\ current_slot = announced
      /\ dirty \/ pad = before
  BY <1>3 DEF Behind, ContactsBehind
<1>5. counted = Fingers /\ tool_keys \subseteq Counted(Fingers)
      /\ (settled => tool_keys = Counted(Fingers))
  BY <1>3 DEF Behind, KeysBehind
<1>6. Fingers = 0 => DOMAIN pad = {} /\ Counted(Fingers) = {}
  BY NoFingers DEF TInv, Counted
<1>7. DOMAIN slots \subseteq Slots /\ DOMAIN pad \subseteq Slots
  BY TypeOKParts DEF TInv, SlotTypes, PadTypes
<1>8. ASSUME settled \/ Fingers = 0
      PROVE  /\ DOMAIN slots = DOMAIN pad
             /\ \A t \in DOMAIN pad : slots[t].tracking_id = pad[t].id
             /\ tool_keys = Counted(Fingers)
  BY <1>4, <1>5, <1>6, <1>7, <1>8 DEF KnowsId
<1> QED
  BY <1>1, <1>2, <1>4, <1>5, <1>8

LEMMA FinishFrameBehind ==
    ASSUME TInv, NEW C \in SUBSET Codes, NEW u \in Nat, Behind(C, u), FinishFrame
    PROVE  Behind({}, u)'
<1>1. Read("syn") /\ UNCHANGED <<current_slot, slots, tool_keys>>
      /\ before' = (IF dirty THEN pad ELSE before)
      /\ settled' = (settled \/ Fingers = 0)
  BY DEF FinishFrame, Observe
<1>2. /\ wire' = Told({}, Said(u)') /\ UNCHANGED padVars
      /\ counted = Fingers
      /\ \A t \in Slots : KnowsId(t) /\ KnowsX(t) /\ KnowsY(t)
      /\ current_slot = announced
      /\ dirty \/ pad = before
      /\ tool_keys \subseteq Counted(Fingers)
      /\ settled' =>
           /\ DOMAIN slots = DOMAIN pad
           /\ \A t \in DOMAIN pad : slots[t].tracking_id = pad[t].id
           /\ tool_keys = Counted(Fingers)
  BY <1>1, SynReached
<1>3. \A t \in Slots : KnowsId(t)' /\ KnowsX(t)' /\ KnowsY(t)'
  BY <1>1, <1>2 DEF KnowsId, KnowsX, KnowsY, padVars
<1>4. pad' = before' /\ current_slot' = announced'
  BY <1>1, <1>2 DEF padVars
<1>5. ContactsBehind({})'
  BY <1>3, <1>4 DEF ContactsBehind
<1>6. KeysBehind({}, u)'
  BY <1>1, <1>2 DEF KeysBehind, Counted, padVars
<1> QED
  BY <1>2, <1>5, <1>6 DEF Behind

\* Before a change or the end of a report, everything has been read.
LEMMA NothingUnread ==
    ASSUME NEW C \in SUBSET Codes, NEW u \in Nat, Behind(C, u), wire = <<>>
    PROVE  /\ \A t \in Slots : KnowsId(t) /\ KnowsX(t) /\ KnowsY(t)
           /\ current_slot = announced
           /\ dirty \/ pad = before
           /\ tool_keys \subseteq Counted(counted)
           /\ settled => tool_keys = Counted(counted)
<1>1. C = {}
  BY ToldNothing DEF Behind
<1> QED
  BY <1>1 DEF Behind, ContactsBehind, KeysBehind

\* The codes Announce has something to say of.
AnnouncedCodes(s, id, x, y) ==
    {c \in {"slot", "id", "x", "y"} : /\ c = "slot" => announced # s
                                      /\ c = "id" => id # <<>>
                                      /\ c = "x" => last[s].x # x
                                      /\ c = "y" => last[s].y # y}

LEMMA AnnouncedCodesAre ==
    ASSUME NEW s, NEW id, NEW x, NEW y, NEW C, C = AnnouncedCodes(s, id, x, y)
    PROVE  /\ C \in SUBSET {"slot", "id", "x", "y"}
           /\ "slot" \in C <=> announced # s
           /\ "id" \in C <=> id # <<>>
           /\ "x" \in C <=> last[s].x # x
           /\ "y" \in C <=> last[s].y # y
<1> DEFINE D == {c \in {"slot", "id", "x", "y"} : /\ c = "slot" => announced # s
                                                  /\ c = "id" => id # <<>>
                                                  /\ c = "x" => last[s].x # x
                                                  /\ c = "y" => last[s].y # y}
<1>1. D \in SUBSET {"slot", "id", "x", "y"}
  OBVIOUS
<1>s. "slot" \in D <=> announced # s
  OBVIOUS
<1>i. "id" \in D <=> id # <<>>
  OBVIOUS
<1>x. "x" \in D <=> last[s].x # x
  OBVIOUS
<1>y. "y" \in D <=> last[s].y # y
  OBVIOUS
<1>2. C = D
  BY Zenon DEF AnnouncedCodes
<1> HIDE DEF D
<1> QED
  BY <1>1, <1>2, <1>s, <1>i, <1>x, <1>y

LEMMA AnnounceTold ==
    ASSUME NEW s, NEW id, NEW x, NEW y, Announce(s, id, x, y),
           NEW v, v["slot"] = s, v["x"] = x, v["y"] = y,
           id = <<>> \/ id = <<Event("id", v["id"])>>
    PROVE  wire' = Told(AnnouncedCodes(s, id, x, y), v)
<1> DEFINE C == AnnouncedCodes(s, id, x, y)
<1>2. v["slot"] = s /\ v["x"] = x /\ v["y"] = y
  OBVIOUS
<1>3. /\ C \in SUBSET {"slot", "id", "x", "y"}
      /\ "slot" \in C <=> announced # s
      /\ "id" \in C <=> id # <<>>
      /\ "x" \in C <=> last[s].x # x
      /\ "y" \in C <=> last[s].y # y
  BY AnnouncedCodesAre
<1> HIDE DEF C
<1>4. (IF announced = s THEN <<>> ELSE <<Event("slot", s)>>) = One("slot", C, v)
  BY <1>2, <1>3, Zenon DEF One
<1>5. id = One("id", C, v)
  BY <1>2, <1>3, Zenon DEF One
<1>6. (IF last[s].x = x THEN <<>> ELSE <<Event("x", x)>>) = One("x", C, v)
  BY <1>2, <1>3, Zenon DEF One
<1>7. (IF last[s].y = y THEN <<>> ELSE <<Event("y", y)>>) = One("y", C, v)
  BY <1>2, <1>3, Zenon DEF One
<1>8. wire' = One("slot", C, v) \o One("id", C, v) \o One("x", C, v) \o One("y", C, v)
  BY <1>4, <1>5, <1>6, <1>7, Zenon DEF Announce
<1>9. wire' = Told(C, v)
  BY <1>3, <1>8, ToldChange
<1> QED
  BY <1>9 DEF C

LEMMA ChangeSlotBehind ==
    ASSUME TInv, NEW C \in SUBSET Codes, NEW u \in Nat, Behind(C, u), ChangeSlot
    PROVE  \E D \in SUBSET Codes : Behind(D, u)'
<1>1. PICK s \in Slots : Land(s) \/ Move(s) \/ Lift(s)
  BY DEF ChangeSlot, TouchChanges
<1>2. wire = <<>> /\ UNCHANGED <<untracked, counted, trackerVars>>
  BY DEF ChangeSlot, TouchChanges
<1>3. UNCHANGED <<current_slot, slots, tool_keys, dirty, before, settled>>
  BY <1>2 DEF trackerVars, history
<1>4. /\ \A t \in Slots : KnowsId(t) /\ KnowsX(t) /\ KnowsY(t)
      /\ current_slot = announced
      /\ dirty \/ pad = before
      /\ tool_keys \subseteq Counted(counted)
      /\ settled => tool_keys = Counted(counted)
  BY <1>2, NothingUnread
<1>5. PICK id, x, y :
         /\ Announce(s, id, x, y)
         /\ id \in {<<>>, <<Event("id", IdIn(s)')>>}
         /\ id = <<>> => s \in DOMAIN pad /\ s \in DOMAIN pad' /\ pad'[s].id = pad[s].id
                         /\ (last[s].x # x \/ last[s].y # y)
         /\ last[s].x # x \/ last[s].y # y => s \in DOMAIN pad'
         /\ DOMAIN pad' \ {s} = DOMAIN pad \ {s}
         /\ \A t \in DOMAIN pad \ {s} : pad'[t] = pad[t]
  <2>1. CASE Land(s)
    <3>1. PICK p \in Points :
             /\ pad' = [t \in DOMAIN pad \cup {s} |->
                           IF t = s THEN [id |-> touches', x |-> p.x, y |-> p.y] ELSE pad[t]]
             /\ Announce(s, <<Event("id", touches')>>, p.x, p.y)
      BY <2>1 DEF Land
    <3>2. IdIn(s)' = touches'
      BY <3>1 DEF IdIn
    <3>3. <<Event("id", touches')>> # <<>>
      OBVIOUS
    <3>4. <<Event("id", touches')>> \in {<<>>, <<Event("id", IdIn(s)')>>}
      BY <3>2
    <3>5. /\ s \in DOMAIN pad'
          /\ DOMAIN pad' \ {s} = DOMAIN pad \ {s}
          /\ \A t \in DOMAIN pad \ {s} : pad'[t] = pad[t]
      BY <3>1
    <3> QED
      BY <3>1, <3>3, <3>4, <3>5, Zenon
  <2>2. CASE Move(s)
    <3>1. PICK p \in Points :
             /\ p # last[s]
             /\ pad' = [pad EXCEPT ![s].x = p.x, ![s].y = p.y]
             /\ Announce(s, <<>>, p.x, p.y)
      BY <2>2 DEF Move
    <3>2. s \in DOMAIN pad
      BY <2>2 DEF Move
    <3>3. last[s].x # p.x \/ last[s].y # p.y
      BY <3>1 DEF TInv, PadTypes, Points
    <3>4. /\ DOMAIN pad' = DOMAIN pad
          /\ pad'[s].id = pad[s].id
          /\ \A t \in DOMAIN pad \ {s} : pad'[t] = pad[t]
      BY <3>1, <3>2 DEF TInv, PadTypes, Finger
    <3>5. <<>> \in {<<>>, <<Event("id", IdIn(s)')>>}
      OBVIOUS
    <3> QED
      BY <3>1, <3>2, <3>3, <3>4, <3>5, Zenon
  <2>3. CASE Lift(s)
    <3>1. /\ pad' = [t \in DOMAIN pad \ {s} |-> pad[t]]
          /\ Announce(s, <<Event("id", -1)>>, last[s].x, last[s].y)
      BY <2>3 DEF Lift
    <3>2. IdIn(s)' = -1
      BY <3>1 DEF IdIn
    <3>3. <<Event("id", -1)>> # <<>>
      OBVIOUS
    <3>4. <<Event("id", -1)>> \in {<<>>, <<Event("id", IdIn(s)')>>}
      BY <3>2
    <3>5. /\ DOMAIN pad' \ {s} = DOMAIN pad \ {s}
          /\ \A t \in DOMAIN pad \ {s} : pad'[t] = pad[t]
      BY <3>1
    <3> QED
      BY <3>1, <3>3, <3>4, <3>5, Zenon
  <2> QED
    BY <1>1, <2>1, <2>2, <2>3
<1>6. /\ announced' = s /\ last'[s].x = x /\ last'[s].y = y
      /\ \A t \in Slots \ {s} : last'[t] = last[t]
  BY <1>5 DEF Announce, TInv, PadTypes
<1>7. PICK D \in SUBSET {"slot", "id", "x", "y"} :
         /\ wire' = Told(D, Said(u)')
         /\ "slot" \in D <=> announced # s
         /\ "id" \in D <=> id # <<>>
         /\ "x" \in D <=> last[s].x # x
         /\ "y" \in D <=> last[s].y # y
  <2> DEFINE v == Said(u)'
  <2>1. v["slot"] = s /\ v["id"] = IdIn(s)' /\ v["x"] = x /\ v["y"] = y
    BY <1>6 DEF Said, IdIn
  <2>2. Announce(s, id, x, y) /\ (id = <<>> \/ id = <<Event("id", v["id"])>>)
    BY <1>5, <2>1, Zenon
  <2> HIDE DEF v
  <2>3. wire' = Told(AnnouncedCodes(s, id, x, y), v)
    BY <2>1, <2>2, AnnounceTold
  <2>4. PICK D : D = AnnouncedCodes(s, id, x, y)
    OBVIOUS
  <2>5. /\ D \in SUBSET {"slot", "id", "x", "y"}
        /\ "slot" \in D <=> announced # s
        /\ "id" \in D <=> id # <<>>
        /\ "x" \in D <=> last[s].x # x
        /\ "y" \in D <=> last[s].y # y
    BY <2>4, AnnouncedCodesAre
  <2>6. wire' = Told(D, Said(u)')
    BY <2>3, <2>4 DEF v
  <2> QED
    BY <2>5, <2>6
<1>8. ContactsBehind(D)'
  <2>1. "slot" \notin D => current_slot' = announced'
    BY <1>3, <1>4, <1>7, <1>6
  <2>2. ASSUME NEW t \in Slots, t # s
        PROVE  KnowsId(t)' /\ KnowsX(t)' /\ KnowsY(t)'
    <3>1. KnowsId(t) /\ KnowsX(t) /\ KnowsY(t)
      BY <1>4
    <3>2. (t \in DOMAIN pad' <=> t \in DOMAIN pad) /\ (t \in DOMAIN pad => pad'[t] = pad[t])
      BY <1>5, <2>2
    <3> QED
      BY <1>3, <1>6, <2>2, <3>1, <3>2 DEF KnowsId, KnowsX, KnowsY
  <2>3. "id" \notin D => KnowsId(s)'
    BY <1>3, <1>4, <1>5, <1>7 DEF KnowsId
  <2>4. ("x" \notin D => KnowsX(s)') /\ ("y" \notin D => KnowsY(s)')
    BY <1>3, <1>4, <1>7, <1>6 DEF KnowsX, KnowsY
  <2>5. "x" \in D \/ "y" \in D => announced' \in DOMAIN pad'
    BY <1>5, <1>7, <1>6
  <2>6. "id" \in D \/ "x" \in D \/ "y" \in D
    BY <1>5, <1>7
  <2>8. \A t \in Slots : t # announced' \/ "id" \notin D => KnowsId(t)'
    BY <1>6, <2>2, <2>3, Zenon
  <2>9. \A t \in Slots : t # announced' \/ "x" \notin D => KnowsX(t)'
    BY <1>6, <2>2, <2>4, Zenon
  <2>10. \A t \in Slots : t # announced' \/ "y" \notin D => KnowsY(t)'
    BY <1>6, <2>2, <2>4, Zenon
  <2> QED
    BY <2>1, <2>5, <2>6, <2>8, <2>9, <2>10, Zenon DEF ContactsBehind
<1>9. KeysBehind(D, u)'
  BY <1>2, <1>3, <1>4, <1>7 DEF KeysBehind, Counted
<1> QED
  BY <1>7, <1>8, <1>9 DEF Behind, Codes

LEMMA ToolKeyTold ==
    ASSUME NEW c, NEW n, NEW C, NEW v, v[c] = n, c \in C <=> n \in 1 .. 5
    PROVE  ToolKey(c, n) = One(c, C, v)
  BY Zenon DEF ToolKey, One

LEMMA EndReportBehind ==
    ASSUME TInv, NEW C \in SUBSET Codes, NEW u \in Nat, Behind(C, u), EndReport
    PROVE  \E D \in SUBSET Codes, w \in Nat : Behind(D, w)'
<1>0. PICK w \in Nat : w = counted
  BY DEF TInv, PadTypes
<1> DEFINE count == Cardinality(DOMAIN pad) + untracked'
           v == Said(w)'
<1>1. /\ counted' = count /\ wire = <<>>
      /\ wire' = (IF count = counted THEN <<>>
                  ELSE ToolKey("tool_up", counted) \o ToolKey("tool_down", count))
                 \o <<Event("syn", 0)>>
      /\ UNCHANGED <<pad, announced, last>>
      /\ UNCHANGED <<current_slot, slots, tool_keys, dirty, before, settled>>
  BY DEF EndReport, ReportEnds, trackerVars, history
<1>2. /\ \A t \in Slots : KnowsId(t) /\ KnowsX(t) /\ KnowsY(t)
      /\ current_slot = announced
      /\ dirty \/ pad = before
      /\ tool_keys \subseteq Counted(counted)
      /\ settled => tool_keys = Counted(counted)
  BY <1>1, NothingUnread
<1>3. counted' = Fingers' /\ counted \in Nat /\ count \in Nat
  BY <1>1, EndReport, ReportEndsTypes, NoFingers DEF Fingers, TInv, PadTypes, EndReport
<1>4. v["tool_up"] = w /\ v["tool_down"] = count /\ v["syn"] = 0
  BY <1>1, <1>0 DEF Said
<1>5. PICK D \in SUBSET {"tool_up", "tool_down", "syn"} :
         /\ "syn" \in D
         /\ "tool_up" \in D <=> count # counted /\ counted \in 1 .. 5
         /\ "tool_down" \in D <=> count # counted /\ count \in 1 .. 5
  <2> DEFINE D == {c \in {"tool_up", "tool_down", "syn"} :
                      /\ c = "tool_up" => count # counted /\ counted \in 1 .. 5
                      /\ c = "tool_down" => count # counted /\ count \in 1 .. 5}
  <2>1. /\ D \in SUBSET {"tool_up", "tool_down", "syn"} /\ "syn" \in D
        /\ "tool_up" \in D <=> count # counted /\ counted \in 1 .. 5
        /\ "tool_down" \in D <=> count # counted /\ count \in 1 .. 5
    OBVIOUS
  <2> QED
    BY <2>1, Zenon
<1> HIDE DEF v
<1>6. wire' = Told(D, v)
  <2>1. (IF count = counted THEN <<>>
         ELSE ToolKey("tool_up", counted) \o ToolKey("tool_down", count))
        = One("tool_up", D, v) \o One("tool_down", D, v)
    <3>1. CASE count = counted
      <4>1. One("tool_up", D, v) = <<>> /\ One("tool_down", D, v) = <<>>
        BY <1>5, <3>1, Zenon DEF One
      <4>2. <<>> \o <<>> = <<>>
        OBVIOUS
      <4> QED
        BY <3>1, <4>1, <4>2, Zenon
    <3>2. CASE count # counted
      <4>1. ToolKey("tool_up", counted) = One("tool_up", D, v)
        BY <1>0, <1>4, <1>5, <3>2, ToolKeyTold
      <4>2. ToolKey("tool_down", count) = One("tool_down", D, v)
        BY <1>4, <1>5, <3>2, ToolKeyTold
      <4> QED
        BY <3>2, <4>1, <4>2, Zenon
    <3> QED
      BY <3>1, <3>2
  <2>2. wire' = (One("tool_up", D, v) \o One("tool_down", D, v)) \o <<Event("syn", v["syn"])>>
    BY <1>1, <1>4, <2>1, Zenon
  <2> QED
    BY <1>5, <2>2, ToldReport
<1>7. ContactsBehind(D)'
  <2>1. \A t \in Slots : KnowsId(t)' /\ KnowsX(t)' /\ KnowsY(t)'
    BY <1>1, <1>2 DEF KnowsId, KnowsX, KnowsY
  <2>2. "x" \notin D /\ "y" \notin D
    BY <1>5
  <2>3. current_slot' = announced' /\ (dirty' \/ pad' = before')
    BY <1>1, <1>2
  <2> QED
    BY <2>1, <2>2, <2>3, Zenon DEF ContactsBehind
<1>8. KeysBehind(D, w)'
  BY <1>0, <1>1, <1>2, <1>3, <1>5 DEF KeysBehind, Counted
<1>9. Behind(D, w)'
  BY <1>3, <1>5, <1>6, <1>7, <1>8 DEF Behind, v
<1> QED
  BY <1>5, <1>9 DEF Codes

-----------------------------------------------------------------------------
(***************************************************************************)
(* The invariant, and what follows at the end of a report.                 *)
(***************************************************************************)
\* The inductive invariant.
Agreement == TInv /\ (\E C \in SUBSET Codes, u \in Nat : Behind(C, u)) /\ Remembered

\* Where the tracker has an id and a point for a contact, they are the finger's.
LEMMA LocatedKnown ==
    ASSUME TInv, \A t \in Slots : KnowsId(t) /\ KnowsX(t) /\ KnowsY(t)
    PROVE  /\ \A s \in Located : /\ s \in DOMAIN pad /\ s \in DOMAIN slots
                                 /\ slots[s].tracking_id = pad[s].id
                                 /\ slots[s].x = pad[s].x /\ slots[s].y = pad[s].y
           /\ [s \in Located |-> slots[s].x] = [s \in Located |-> pad[s].x]
           /\ [s \in Located |-> slots[s].y] = [s \in Located |-> pad[s].y]
           /\ {c[1] : c \in MotionContacts} = Located
           /\ \A c \in MotionContacts : c[1] \in Located /\ c[2] = pad[c[1]].id
<1>1. SlotTypes
  BY TypeOKParts DEF TInv
<1>2. ASSUME NEW s \in Located
      PROVE  /\ s \in DOMAIN pad /\ s \in DOMAIN slots
             /\ slots[s].tracking_id = pad[s].id
             /\ slots[s].x = pad[s].x /\ slots[s].y = pad[s].y
  <2>1. s \in DOMAIN slots /\ s \in Slots /\ slots[s].tracking_id # None
        /\ slots[s].x # None /\ slots[s].y # None
    BY <1>1 DEF Located, ActiveContacts, HasPoint, SlotTypes
  <2>2. s \in DOMAIN pad /\ slots[s].tracking_id = pad[s].id
    BY <2>1 DEF KnowsId
  <2>3. slots[s].x = last[s].x /\ slots[s].y = last[s].y
    BY <2>1 DEF KnowsX, KnowsY
  <2> QED
    BY <2>1, <2>2, <2>3 DEF TInv, PadTypes
<1>3. /\ [s \in Located |-> slots[s].x] = [s \in Located |-> pad[s].x]
      /\ [s \in Located |-> slots[s].y] = [s \in Located |-> pad[s].y]
  BY <1>2
<1>4. {c[1] : c \in MotionContacts} = Located
  <2>1. \A s \in Located : <<s, slots[s].tracking_id>> \in MotionContacts
    BY DEF MotionContacts
  <2>2. ASSUME NEW s \in Located PROVE s \in {c[1] : c \in MotionContacts}
    <3>1. <<s, slots[s].tracking_id>>[1] = s
      OBVIOUS
    <3> QED
      BY <2>1, <3>1, Zenon
  <2>3. \A c \in MotionContacts : c[1] \in Located
    BY DEF MotionContacts
  <2> QED
    BY <2>2, <2>3
<1>5. ASSUME NEW c \in MotionContacts PROVE c[1] \in Located /\ c[2] = pad[c[1]].id
  <2>1. PICK s \in Located : c = <<s, slots[s].tracking_id>>
    BY DEF MotionContacts
  <2>2. c[1] = s /\ c[2] = slots[s].tracking_id
    BY <2>1
  <2> QED
    BY <1>2, <2>2
<1> QED
  BY <1>2, <1>3, <1>4, <1>5

LEMMA RememberedStays ==
    ASSUME Remembered, UNCHANGED <<previousVars, before>>,
           dirty' \/ UNCHANGED <<dirty, slots, tool_keys>>
    PROVE  Remembered'
<1>1. dirty' \/ EffectiveFingers' = previous_fingers'
  <2>1. CASE dirty'
    BY <2>1
  <2>2. CASE UNCHANGED <<dirty, slots, tool_keys>>
    BY <2>2 DEF Remembered, EffectiveFingers, ActiveContacts, ReportedFingers, previousVars
  <2> QED
    BY <2>1, <2>2
<1> QED
  BY <1>1 DEF Remembered, previousVars

LEMMA FinishFrameRemembers ==
    ASSUME TInv, Remembered, NEW C \in SUBSET Codes, NEW u \in Nat, Behind(C, u), FinishFrame
    PROVE  Remembered'
<1>1. Read("syn") /\ UNCHANGED <<slots, tool_keys>>
      /\ before' = (IF dirty THEN pad ELSE before)
  BY DEF FinishFrame, Observe
<1>2. \A t \in Slots : KnowsId(t) /\ KnowsX(t) /\ KnowsY(t)
  BY <1>1, SynReached
<1>3. EffectiveFingers' = EffectiveFingers
  BY <1>1 DEF EffectiveFingers, ActiveContacts, ReportedFingers
<1>4. CASE dirty
  <2>1. /\ previous_fingers' = EffectiveFingers
        /\ previous_motion_contacts' = MotionContacts
        /\ previous_centroid' = IF EffectiveFingers = 0 THEN None ELSE Centroid
        /\ before' = pad
    BY <1>1, <1>4 DEF FinishFrame
  <2>2. DOMAIN before' \subseteq Slots /\ before' \in [DOMAIN before' -> Finger]
    BY <2>1 DEF TInv, PadTypes
  <2>3. \A c \in previous_motion_contacts' :
           c[1] \in DOMAIN before' /\ c[2] = before'[c[1]].id
    BY <1>2, <2>1, LocatedKnown
  <2>4. ASSUME previous_centroid' # None
        PROVE  LET moved == {c[1] : c \in previous_motion_contacts'}
               IN  /\ previous_centroid'.x = SumFunction([s \in moved |-> before'[s].x])
                   /\ previous_centroid'.y = SumFunction([s \in moved |-> before'[s].y])
    <3>1. previous_centroid' = Centroid /\ Centroid # None
      BY <2>1, <2>4
    <3>2. /\ Centroid.x = SumFunction([s \in Located |-> slots[s].x])
          /\ Centroid.y = SumFunction([s \in Located |-> slots[s].y])
      BY <3>1 DEF Centroid
    <3>3. {c[1] : c \in previous_motion_contacts'} = Located
      BY <1>2, <2>1, LocatedKnown
    <3>4. /\ [s \in Located |-> slots[s].x] = [s \in Located |-> pad[s].x]
          /\ [s \in Located |-> slots[s].y] = [s \in Located |-> pad[s].y]
      BY <1>2, LocatedKnown
    <3> QED
      BY <2>1, <3>1, <3>2, <3>3, <3>4, Zenon
  <2> QED
    BY <1>3, <2>1, <2>2, <2>3, <2>4, Zenon DEF Remembered
<1>5. CASE ~dirty
  <2>1. UNCHANGED <<previousVars, before, dirty>>
    BY <1>1, <1>5 DEF FinishFrame, TInv, TypeOK
  <2> QED
    BY <1>1, <2>1, RememberedStays
<1> QED
  BY <1>4, <1>5

LEMMA AgreementInit ==
    ASSUME AnnouncedSlots = {0}, Init
    PROVE  Agreement
<1>1. TInv
  BY TInvInit
<1>2. wire = <<>> /\ announced = 0 /\ current_slot = 0 /\ counted = Fingers
      /\ slots = Nothing /\ tool_keys = {} /\ pad = before /\ settled = (Fingers = 0)
  BY DEF Init, PadInit
<1>3. wire = Told({}, Said(0))
  BY <1>2, Zenon DEF Told, When
<1>4. ContactsBehind({})
  <2>1. DOMAIN slots = {}
    BY <1>2 DEF Nothing
  <2>2. settled => DOMAIN pad = {}
    BY <1>1, <1>2, NoFingers DEF TInv
  <2>3. \A t \in Slots : KnowsId(t) /\ KnowsX(t) /\ KnowsY(t)
    BY <2>1, <2>2 DEF KnowsId, KnowsX, KnowsY
  <2> QED
    BY <1>2, <2>3 DEF ContactsBehind
<1>5. KeysBehind({}, 0)
  BY <1>2 DEF KeysBehind, Counted
<1>6. Behind({}, 0)
  BY <1>3, <1>4, <1>5 DEF Behind
<1>7. Remembered
  <2>1. EffectiveFingers = 0
    <3>1. ActiveContacts = {}
      BY <1>2 DEF ActiveContacts, Nothing
    <3>2. SlotTypes
      BY <1>1, TypeOKParts DEF TInv
    <3> QED
      BY <1>2, <3>1, <3>2, EffectiveIs, FS_EmptySet
  <2>2. DOMAIN before \subseteq Slots /\ before \in [DOMAIN before -> Finger]
    BY <1>1, <1>2 DEF TInv, PadTypes
  <2> QED
    BY <2>1, <2>2 DEF Init, Remembered
<1> QED
  BY <1>1, <1>6, <1>7 DEF Agreement

LEMMA AgreementNext == Agreement /\ [Next]_vars => Agreement'
<1> SUFFICES ASSUME Agreement, [Next]_vars PROVE Agreement'
  OBVIOUS
<1>0. TInv /\ TInv' /\ Remembered
  BY TInvNext DEF Agreement
<1> PICK C \in SUBSET Codes, u \in Nat : Behind(C, u)
  BY DEF Agreement
<1>1. CASE ChangeSlot
  <2>1. \E D \in SUBSET Codes : Behind(D, u)'
    BY <1>0, <1>1, ChangeSlotBehind
  <2>2. Remembered'
    BY <1>0, <1>1, RememberedStays DEF ChangeSlot, trackerVars, previousVars, history
  <2> QED
    BY <1>0, <2>1, <2>2 DEF Agreement
<1>2. CASE EndReport
  <2>1. \E D \in SUBSET Codes, w \in Nat : Behind(D, w)'
    BY <1>0, <1>2, EndReportBehind
  <2>2. Remembered'
    BY <1>0, <1>2, RememberedStays DEF EndReport, trackerVars, previousVars, history
  <2> QED
    BY <1>0, <2>1, <2>2 DEF Agreement
<1>3. CASE SelectSlot
  <2>1. Behind(C \ {"slot"}, u)'
    BY <1>3, SelectSlotBehind
  <2>2. Remembered'
    BY <1>0, <1>3, RememberedStays DEF SelectSlot, previousVars, history
  <2> QED
    BY <1>0, <2>1, <2>2 DEF Agreement
<1>4. CASE TrackingId
  <2>1. Behind(C \ {"id"}, u)'
    BY <1>0, <1>4, TrackingIdBehind
  <2>2. Remembered'
    BY <1>0, <1>4, RememberedStays DEF TrackingId, previousVars, history
  <2> QED
    BY <1>0, <2>1, <2>2 DEF Agreement
<1>5. CASE Position
  <2>1. \E c \in {"x", "y"} : Behind(C \ {c}, u)'
    BY <1>0, <1>5, PositionBehind
  <2>2. Remembered'
    BY <1>0, <1>5, RememberedStays DEF Position, previousVars, history
  <2> QED
    BY <1>0, <2>1, <2>2 DEF Agreement
<1>6. CASE HandleKey
  <2>1. \E c \in {"tool_up", "tool_down"} : Behind(C \ {c}, u)'
    BY <1>0, <1>6, HandleKeyBehind
  <2>2. Remembered'
    BY <1>0, <1>6, RememberedStays DEF HandleKey, previousVars, history
  <2> QED
    BY <1>0, <2>1, <2>2 DEF Agreement
<1>7. CASE FinishFrame
  <2>1. Behind({}, u)'
    BY <1>0, <1>7, FinishFrameBehind
  <2>2. Remembered'
    BY <1>0, <1>7, FinishFrameRemembers
  <2> QED
    BY <1>0, <2>1, <2>2 DEF Agreement
<1>8. CASE UNCHANGED vars
  <2>1. Behind(C, u)'
    BY <1>8 DEF vars, padVars, trackerVars, history, Behind, Said, IdIn, Fingers, Counted,
                ContactsBehind, KeysBehind, KnowsId, KnowsX, KnowsY
  <2>2. Remembered'
    BY <1>0, <1>8, RememberedStays DEF vars, trackerVars, previousVars, history
  <2> QED
    BY <1>0, <2>1, <2>2 DEF Agreement
<1> QED
  BY <1>1, <1>2, <1>3, <1>4, <1>5, <1>6, <1>7, <1>8 DEF Next

LEMMA OnlyFinishFrameReadsSyn ==
    ASSUME Next, wire # <<>>, Head(wire).code = "syn"
    PROVE  FinishFrame
  BY DEF Next, ChangeSlot, TouchChanges, EndReport, ReportEnds, SelectSlot, TrackingId,
         Position, HandleKey, Read

\* Once the pad has been clear, the effective count is the number of fingers.
LEMMA CountsEveryFinger ==
    ASSUME TInv, DOMAIN slots = DOMAIN pad, \A t \in DOMAIN pad : slots[t].tracking_id = pad[t].id,
           tool_keys = Counted(Fingers), Countable
    PROVE  ActiveContacts = DOMAIN pad /\ EffectiveFingers = Fingers
<1>0. SlotTypes
  BY TypeOKParts DEF TInv
<1>1. ActiveContacts = DOMAIN pad
  <2>1. \A t \in DOMAIN pad : slots[t].tracking_id # None
    BY CoordinateAssumption DEF TInv, PadTypes, Finger, Touches
  <2> QED
    BY <2>1 DEF ActiveContacts
<1>2. Fingers = Cardinality(DOMAIN pad) + untracked /\ Cardinality(DOMAIN pad) \in Nat
      /\ untracked \in Nat
  BY NoFingers DEF Fingers, TInv, PadTypes
<1>3. CASE tool_keys = {}
  <2>1. EffectiveFingers = Cardinality(DOMAIN pad)
    BY <1>0, <1>1, <1>3, EffectiveIs
  <2>2. Fingers \notin 1 .. 5
    BY <1>3 DEF Counted
  <2>3. untracked = 0
    BY <1>2, <2>2 DEF Countable
  <2> QED
    BY <1>1, <1>2, <2>1, <2>3
<1>4. CASE tool_keys # {}
  <2>1. ReportedFingers = Fingers
    BY <1>0, <1>4, KeyMax DEF Counted
  <2>2. ReportedFingers >= Cardinality(ActiveContacts)
    BY <1>1, <1>2, <2>1
  <2>3. EffectiveFingers = ReportedFingers
    BY <1>0, <1>4, <2>2, EffectiveIs
  <2> QED
    BY <1>1, <2>1, <2>3
<1> QED
  BY <1>3, <1>4

LEMMA FrameShowsPad ==
    ASSUME TInv, \A t \in Slots : KnowsId(t) /\ KnowsX(t) /\ KnowsY(t),
           DOMAIN slots = DOMAIN pad, \A t \in DOMAIN pad : slots[t].tracking_id = pad[t].id,
           tool_keys = Counted(Fingers), Countable
    PROVE  Shows(NewFrame)
<1>0. SlotTypes /\ PreviousTypes
  BY TypeOKParts DEF TInv
<1>1. ActiveContacts = DOMAIN pad /\ EffectiveFingers = Fingers
  BY CountsEveryFinger
<1>2. /\ NewFrame.fingers = EffectiveFingers
      /\ NewFrame.complete = TrackingComplete
      /\ NewFrame.contacts = [s \in ActiveContacts |-> slots[s]]
  BY <1>0, NewFrameTypes
<1>3. ASSUME NEW s \in DOMAIN pad
      PROVE  /\ slots[s].tracking_id = pad[s].id
             /\ slots[s].x \in {pad[s].x, None}
             /\ slots[s].y \in {pad[s].y, None}
  BY DEF KnowsX, KnowsY, TInv, PadTypes
<1>4. ASSUME TrackingComplete
      PROVE  /\ untracked = 0
             /\ \A s \in DOMAIN pad : slots[s].x # None /\ slots[s].y # None
  <2>1. Cardinality(DOMAIN pad) = Fingers
    BY <1>1, <1>4 DEF TrackingComplete
  <2>2. untracked = 0
    BY <2>1, NoFingers DEF Fingers, TInv, PadTypes
  <2>3. Located = DOMAIN pad
    BY <1>1, <1>4 DEF TrackingComplete
  <2> QED
    BY <2>2, <2>3 DEF Located, HasPoint
<1> QED
  BY <1>1, <1>2, <1>3, <1>4 DEF Shows

FrameMatches ==
    wire # <<>> /\ Head(wire).code = "syn" /\ settled' /\ Countable =>
       IF frame' = None
       THEN pad = before /\ Fingers = previous_fingers
       ELSE Shows(frame')

LEMMA FrameMatchesNext == Agreement /\ [Next]_vars => [FrameMatches]_vars
<1> SUFFICES ASSUME Agreement, Next, wire # <<>>, Head(wire).code = "syn", settled', Countable
             PROVE  IF frame' = None
                    THEN pad = before /\ Fingers = previous_fingers
                    ELSE Shows(frame')
  BY Zenon DEF FrameMatches
<1>0. FinishFrame /\ TInv /\ Remembered
  BY OnlyFinishFrameReadsSyn DEF Agreement
<1> PICK C \in SUBSET Codes, u \in Nat : Behind(C, u)
  BY DEF Agreement
<1>1. Read("syn") /\ (settled \/ Fingers = 0)
  BY <1>0 DEF FinishFrame, Observe
<1>2. /\ \A t \in Slots : KnowsId(t) /\ KnowsX(t) /\ KnowsY(t)
      /\ dirty \/ pad = before
      /\ DOMAIN slots = DOMAIN pad
      /\ \A t \in DOMAIN pad : slots[t].tracking_id = pad[t].id
      /\ tool_keys = Counted(Fingers)
  BY <1>0, <1>1, SynReached
<1>3. CASE dirty
  <2>1. frame' = NewFrame
    BY <1>0, <1>3 DEF FinishFrame
  <2>2. NewFrame # None
    BY <1>0, NewFrameTypes, TypeOKParts DEF TInv
  <2>3. Shows(NewFrame)
    BY <1>0, <1>2, FrameShowsPad
  <2> QED
    BY <2>1, <2>2, <2>3
<1>4. CASE ~dirty
  <2>1. frame' = None
    BY <1>0, <1>4 DEF FinishFrame
  <2>2. EffectiveFingers = Fingers
    BY <1>0, <1>2, CountsEveryFinger
  <2> QED
    BY <1>0, <1>2, <1>4, <2>1, <2>2 DEF Remembered
<1> QED
  BY <1>3, <1>4

MotionOfFingers ==
    wire # <<>> /\ Head(wire).code = "syn" /\ frame' # None /\ frame'.delta # None =>
       LET moved == {c[1] : c \in previous_motion_contacts'}
       IN  /\ \A s \in moved : Stayed(s)
           /\ frame'.delta = [x |-> SumFunction([s \in moved |-> pad[s].x - before[s].x]),
                              y |-> SumFunction([s \in moved |-> pad[s].y - before[s].y])]

LEMMA MotionOfFingersNext == Agreement /\ [Next]_vars => [MotionOfFingers]_vars
<1> SUFFICES ASSUME Agreement, Next, wire # <<>>, Head(wire).code = "syn",
                    frame' # None, frame'.delta # None
             PROVE  LET moved == {c[1] : c \in previous_motion_contacts'}
                    IN  /\ \A s \in moved : Stayed(s)
                        /\ frame'.delta = [x |-> SumFunction([s \in moved |-> pad[s].x - before[s].x]),
                                           y |-> SumFunction([s \in moved |-> pad[s].y - before[s].y])]
  BY Zenon DEF MotionOfFingers
<1>0. FinishFrame /\ TInv /\ Remembered
  BY OnlyFinishFrameReadsSyn DEF Agreement
<1> PICK C \in SUBSET Codes, u \in Nat : Behind(C, u)
  BY DEF Agreement
<1>1. /\ dirty /\ frame' = NewFrame /\ previous_motion_contacts' = MotionContacts
      /\ Read("syn")
  BY <1>0 DEF FinishFrame
<1>2. \A t \in Slots : KnowsId(t) /\ KnowsX(t) /\ KnowsY(t)
  BY <1>0, <1>1, SynReached
<1>3. SlotTypes /\ PreviousTypes
  BY <1>0, TypeOKParts DEF TInv
<1>4. frame'.delta = Delta /\ Delta # None
  BY <1>1, <1>3, NewFrameTypes
<1>5. /\ MotionContacts = previous_motion_contacts
      /\ previous_centroid # None /\ Centroid # None
      /\ Delta = [x |-> Centroid.x - previous_centroid.x, y |-> Centroid.y - previous_centroid.y]
  BY <1>4 DEF Delta, SameMotionBasis
<1>6. /\ {c[1] : c \in previous_motion_contacts} = Located
      /\ {c[1] : c \in previous_motion_contacts'} = Located
      /\ \A s \in Located : s \in DOMAIN pad /\ slots[s].tracking_id = pad[s].id
      /\ [s \in Located |-> slots[s].x] = [s \in Located |-> pad[s].x]
      /\ [s \in Located |-> slots[s].y] = [s \in Located |-> pad[s].y]
  BY <1>0, <1>1, <1>2, <1>5, LocatedKnown
<1>7. ASSUME NEW s \in Located
      PROVE  Stayed(s)
  <2>1. <<s, pad[s].id>> \in previous_motion_contacts
    BY <1>5, <1>6 DEF MotionContacts
  <2>2. s \in DOMAIN before /\ pad[s].id = before[s].id
    BY <1>0, <2>1 DEF Remembered
  <2> QED
    BY <1>6, <2>2 DEF Stayed
<1>8. /\ Centroid.x = SumFunction([s \in Located |-> pad[s].x])
      /\ Centroid.y = SumFunction([s \in Located |-> pad[s].y])
  <2>1. /\ Centroid.x = SumFunction([s \in Located |-> slots[s].x])
        /\ Centroid.y = SumFunction([s \in Located |-> slots[s].y])
    BY <1>5 DEF Centroid
  <2> QED
    BY <1>6, <2>1, Zenon
<1>9. /\ previous_centroid.x = SumFunction([s \in Located |-> before[s].x])
      /\ previous_centroid.y = SumFunction([s \in Located |-> before[s].y])
  BY <1>0, <1>5, <1>6, Zenon DEF Remembered
<1>10. /\ IsFiniteSet(Located)
       /\ \A s \in Located : pad[s].x \in Int /\ pad[s].y \in Int
                             /\ before[s].x \in Int /\ before[s].y \in Int
  BY <1>0, <1>3, <1>7, LocatedTypes, IntegerCoordinatesAssumption
     DEF Stayed, TInv, PadTypes, Remembered, Finger
<1> DEFINE px == [s \in Located |-> pad[s].x]
           py == [s \in Located |-> pad[s].y]
           bx == [s \in Located |-> before[s].x]
           by == [s \in Located |-> before[s].y]
<1>11. /\ px \in [Located -> Int] /\ py \in [Located -> Int]
       /\ bx \in [Located -> Int] /\ by \in [Located -> Int]
  BY <1>10
<1>12. /\ [s \in Located |-> px[s] - bx[s]] = [s \in Located |-> pad[s].x - before[s].x]
       /\ [s \in Located |-> py[s] - by[s]] = [s \in Located |-> pad[s].y - before[s].y]
  OBVIOUS
<1> HIDE DEF px, py, bx, by
<1>13. /\ SumFunction(px) - SumFunction(bx) = SumFunction([s \in Located |-> px[s] - bx[s]])
       /\ SumFunction(py) - SumFunction(by) = SumFunction([s \in Located |-> py[s] - by[s]])
  BY <1>10, <1>11, SumOfDifferences
<1>14. /\ Centroid.x - previous_centroid.x
            = SumFunction([s \in Located |-> pad[s].x - before[s].x])
       /\ Centroid.y - previous_centroid.y
            = SumFunction([s \in Located |-> pad[s].y - before[s].y])
  BY <1>8, <1>9, <1>12, <1>13, Zenon DEF px, py, bx, by
<1>15. frame'.delta = [x |-> SumFunction([s \in Located |-> pad[s].x - before[s].x]),
                       y |-> SumFunction([s \in Located |-> pad[s].y - before[s].y])]
  BY <1>4, <1>5, <1>14, Zenon
<1> QED
  BY <1>6, <1>7, <1>15, Zenon

\* For every touchpad whose last announced slot was 0 when the device was opened
\* (what TouchFrameTracker::new assumes): from the first moment the pad is clear,
\* every report ends with a frame that agrees with the pad or changed nothing
\* the last one said (push, finish_frame).
THEOREM FramesAgree ==
    ASSUME AnnouncedSlots = {0}
    PROVE  Spec => FramesMatchThePad
<1>1. Init => Agreement
  BY AgreementInit
<1>2. Spec => [][FrameMatches]_vars
  BY <1>1, AgreementNext, FrameMatchesNext, PTL DEF Spec
<1> QED
  BY <1>2 DEF FramesMatchThePad, FrameMatches

\* Under the same assumption, a displacement is exactly the motion of fingers
\* that were down all the time (finish_frame, same_motion_basis).
THEOREM NoFalseMotion ==
    ASSUME AnnouncedSlots = {0}
    PROVE  Spec => MotionIsReal
<1>1. Init => Agreement
  BY AgreementInit
<1>2. Spec => [][MotionOfFingers]_vars
  BY <1>1, AgreementNext, MotionOfFingersNext, PTL DEF Spec
<1> QED
  BY <1>2, PTL DEF MotionIsReal, MotionOfFingers
=============================================================================
