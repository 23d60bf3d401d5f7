----------------------------- MODULE TouchFrames -----------------------------
(***************************************************************************)
(* The touch-frame tracker (crates/gesture-device/src/touch_frame.rs): it  *)
(* reads the events of a touchpad one at a time and, at the end of each    *)
(* report, describes the contacts and how far they moved.  What it is told *)
(* are differences, so it is composed with the pad they come from.         *)
(***************************************************************************)
EXTENDS Touchpad, FiniteSetsExt, Functions

ASSUME IntegerCoordinatesAssumption == Xs \cup Ys \subseteq Int

\* TouchFrame.fingers is a u8, which so many contacts do not saturate.
ASSUME SlotCountAssumption == Cardinality(Slots) <= 255

VARIABLES
    current_slot, slots, tool_keys,
    previous_fingers, previous_motion_contacts, previous_centroid,
    dirty,
    frame,      \* what the last push returned: a frame or None
    before,     \* history: pad at the last frame
    settled     \* history: the pad has been clear after a report, or at the
                \* opening

previousVars == <<previous_fingers, previous_motion_contacts, previous_centroid>>
history == <<before, settled>>
trackerVars == <<current_slot, slots, tool_keys, previousVars, dirty, frame, history>>
vars == <<padVars, wire, trackerVars>>

Nothing == [s \in {} |-> None]   \* the function with no slot

-----------------------------------------------------------------------------
ChangeSlot == TouchChanges /\ UNCHANGED trackerVars

EndReport == ReportEnds /\ UNCHANGED trackerVars

SelectSlot ==
    /\ Read("slot")
    /\ current_slot' = Value
    /\ frame' = None
    /\ UNCHANGED <<slots, tool_keys, previousVars, dirty, history>>

\* slots with the current slot set to c.
SetCurrent(c) ==
    [s \in DOMAIN slots \cup {current_slot} |-> IF s = current_slot THEN c ELSE slots[s]]

Unknown == [tracking_id |-> None, x |-> None, y |-> None]

\* slots.entry(current_slot).or_default()
Current == IF current_slot \in DOMAIN slots THEN slots[current_slot] ELSE Unknown

\* A contact ends or begins; a new one has no coordinates yet.
TrackingId ==
    /\ Read("id")
    /\ slots' = IF Value < 0
                THEN [s \in DOMAIN slots \ {current_slot} |-> slots[s]]
                ELSE SetCurrent([Unknown EXCEPT !.tracking_id = Value])
    /\ dirty' = TRUE
    /\ frame' = None
    /\ UNCHANGED <<current_slot, tool_keys, previousVars, history>>

Position ==
    /\ \/ Read("x") /\ slots' = SetCurrent([Current EXCEPT !.x = Value])
       \/ Read("y") /\ slots' = SetCurrent([Current EXCEPT !.y = Value])
    /\ dirty' = TRUE
    /\ frame' = None
    /\ UNCHANGED <<current_slot, tool_keys, previousVars, history>>

\* Mutant of HandleKey: any event of a tool key counts as a press.
HandleKeyAsPress ==
    /\ Read("tool_down") \/ Read("tool_up")
    /\ tool_keys' = tool_keys \cup {Value}
    /\ dirty' = TRUE
    /\ frame' = None
    /\ UNCHANGED <<current_slot, slots, previousVars, history>>

HandleKey ==
    /\ \/ Read("tool_down") /\ tool_keys' = tool_keys \cup {Value}
       \/ Read("tool_up") /\ tool_keys' = tool_keys \ {Value}
    /\ dirty' = TRUE
    /\ frame' = None
    /\ UNCHANGED <<current_slot, slots, previousVars, history>>

ActiveContacts == {s \in DOMAIN slots : slots[s].tracking_id # None}
HasPoint(s) == slots[s].x # None /\ slots[s].y # None
Located == {s \in ActiveContacts : HasPoint(s)}

ReportedFingers == IF tool_keys = {} THEN None ELSE Max(tool_keys)

EffectiveFingers ==
    Max({Cardinality(ActiveContacts)} \cup (IF tool_keys = {} THEN {} ELSE {ReportedFingers}))

\* coordinate_contact_ids: what motion is measured on.
MotionContacts == {<<s, slots[s].tracking_id>> : s \in Located}

\* The centroid as the sum of its points and their number, so that it is exact.
Centroid ==
    IF Located = {} THEN None
    ELSE [x |-> SumFunction([s \in Located |-> slots[s].x]),
          y |-> SumFunction([s \in Located |-> slots[s].y]),
          n |-> Cardinality(Located)]

Phase ==
    IF previous_fingers = 0 /\ EffectiveFingers > 0 THEN "begin"
    ELSE IF previous_fingers > 0 /\ EffectiveFingers = 0 THEN "end"
    ELSE "update"

\* Mutant of SameMotionBasis: as many contacts as before are the same contacts.
SameNumberOfContacts ==
    /\ EffectiveFingers > 0
    /\ EffectiveFingers = previous_fingers
    /\ Cardinality(MotionContacts) = Cardinality(previous_motion_contacts)

SameMotionBasis ==
    /\ EffectiveFingers > 0
    /\ EffectiveFingers = previous_fingers
    /\ MotionContacts = previous_motion_contacts

\* The displacement of the centroid, times the number of its points.
Delta ==
    IF SameMotionBasis /\ previous_centroid # None /\ Centroid # None
    THEN [x |-> Centroid.x - previous_centroid.x, y |-> Centroid.y - previous_centroid.y]
    ELSE None

TrackingComplete ==
    /\ Located = ActiveContacts
    /\ Cardinality(ActiveContacts) = EffectiveFingers

\* TouchFrame, as far as it is followed.
Contact == [tracking_id : Touches \cup {None}, x : Xs \cup {None}, y : Ys \cup {None}]
Motion  == [x : Int, y : Int]
Sums    == [x : Int, y : Int, n : Nat]
Frame ==
    [phase    : {"begin", "update", "end"},
     fingers  : Nat,
     complete : BOOLEAN,
     contacts : SomeSlots(Contact),
     delta    : Motion \cup {None}]

ASSUME NullAssumption == None \notin Frame \cup Motion \cup Sums

NewFrame ==
    [phase    |-> Phase,
     fingers  |-> EffectiveFingers,
     complete |-> TrackingComplete,
     contacts |-> [s \in ActiveContacts |-> slots[s]],
     delta    |-> Delta]

\* The observers see the pad at the end of the report.
Observe ==
    /\ before' = IF dirty THEN pad ELSE before
    /\ settled' = (settled \/ Fingers = 0)

\* Mutant of FinishFrame: a frame without a centroid keeps the last one.
FinishFrameKeepingCentroid ==
    /\ Read("syn")
    /\ IF dirty
       THEN /\ frame' = NewFrame
            /\ previous_fingers' = EffectiveFingers
            /\ previous_motion_contacts' = MotionContacts
            /\ previous_centroid' = IF Centroid = None THEN previous_centroid ELSE Centroid
       ELSE frame' = None /\ UNCHANGED previousVars
    /\ dirty' = FALSE
    /\ Observe
    /\ UNCHANGED <<current_slot, slots, tool_keys>>

\* SYN_REPORT: a frame if anything was said since the last one.
FinishFrame ==
    /\ Read("syn")
    /\ IF dirty
       THEN /\ frame' = NewFrame
            /\ previous_fingers' = EffectiveFingers
            /\ previous_motion_contacts' = MotionContacts
            /\ previous_centroid' = IF EffectiveFingers = 0 THEN None ELSE Centroid
       ELSE frame' = None /\ UNCHANGED previousVars
    /\ dirty' = FALSE
    /\ Observe
    /\ UNCHANGED <<current_slot, slots, tool_keys>>

\* The tracker is new; the pad may be in use.
Init ==
    /\ PadInit
    /\ current_slot = 0
    /\ slots = Nothing
    /\ tool_keys = {}
    /\ previous_fingers = 0
    /\ previous_motion_contacts = {}
    /\ previous_centroid = None
    /\ dirty = FALSE
    /\ frame = None
    /\ before = pad
    /\ settled = (Fingers = 0)

Next ==
    \/ ChangeSlot \/ EndReport
    \/ SelectSlot \/ TrackingId \/ Position \/ HandleKey \/ FinishFrame

Spec == Init /\ [][Next]_vars

-----------------------------------------------------------------------------
(***************************************************************************)
(* Properties.                                                             *)
(***************************************************************************)

\* The tracker's variables are well formed, and what it remembers of the last
\* frame hangs together: there is a centroid exactly when there are contacts to
\* measure motion on, over as many points, and never more than fingers.
TypeOK ==
    /\ current_slot \in Slots
    /\ slots \in SomeSlots(Contact)
    /\ tool_keys \subseteq 1 .. 5
    /\ previous_fingers \in Nat
    /\ previous_motion_contacts \subseteq Slots \X Touches
    /\ dirty \in BOOLEAN
    /\ frame # None => frame \in Frame /\ frame.fingers = previous_fingers
    /\ IF previous_motion_contacts = {}
       THEN previous_centroid = None
       ELSE /\ previous_centroid \in Sums
            /\ previous_centroid.n = Cardinality(previous_motion_contacts)
            /\ previous_centroid.n <= previous_fingers

\* Frame f describes the pad as it is.
Shows(f) ==
    /\ f.fingers = Fingers
    /\ DOMAIN f.contacts = DOMAIN pad
    /\ \A s \in DOMAIN pad :
          /\ f.contacts[s].tracking_id = pad[s].id
          /\ f.contacts[s].x \in {pad[s].x, None}
          /\ f.contacts[s].y \in {pad[s].y, None}
    /\ f.complete =>
          /\ untracked = 0
          /\ \A s \in DOMAIN pad : f.contacts[s].x # None /\ f.contacts[s].y # None

\* The tool keys can express how many fingers there are: there is none for more
\* than five, and of more than five fingers only those with a slot are known of.
Countable == Fingers <= 5 \/ untracked = 0

\* From the first moment the pad is clear, whatever was on it when the device
\* was opened, every report ends with a frame that agrees with the pad (the
\* right number of fingers, the right contacts in the right slots, no
\* coordinate that is not the finger's, completeness claimed only of frames
\* that show every finger where it is) or changed nothing the last one said.
FramesMatchThePad ==
    [][wire # <<>> /\ Head(wire).code = "syn" /\ settled' /\ Countable =>
          IF frame' = None
          THEN pad = before /\ Fingers = previous_fingers
          ELSE Shows(frame')]_vars

\* The finger in slot s has been there since the frame before.
Stayed(s) == s \in DOMAIN pad /\ s \in DOMAIN before /\ pad[s].id = before[s].id

\* No false motion: a frame that reports a displacement reports exactly the
\* motion, since the frame before, of fingers that were down all the time; a
\* finger that lands, lifts, is replaced or gets its coordinates late never
\* shows up as motion, also when the device was opened with fingers on it.
MotionIsReal ==
    [][wire # <<>> /\ Head(wire).code = "syn" /\ frame' # None /\ frame'.delta # None =>
          LET moved == {c[1] : c \in previous_motion_contacts'}
          IN  /\ \A s \in moved : Stayed(s)
              /\ frame'.delta = [x |-> SumFunction([s \in moved |-> pad[s].x - before[s].x]),
                                 y |-> SumFunction([s \in moved |-> pad[s].y - before[s].y])]]_vars

\* The same of the fingers themselves, in whichever slots the tracker has them:
\* a displacement is the motion of the fingers whose tracking ids were
\* measured, and no finger's coordinates move another.
MotionFollowsFingers ==
    [][wire # <<>> /\ Head(wire).code = "syn" /\ frame' # None /\ frame'.delta # None =>
          LET moved == {c[2] : c \in previous_motion_contacts'}
              At(id) == {s \in DOMAIN pad : Stayed(s) /\ pad[s].id = id}
              stayed == UNION {At(id) : id \in moved}
          IN  /\ \A id \in moved : At(id) # {}
              /\ frame'.delta = [x |-> SumFunction([s \in stayed |-> pad[s].x - before[s].x]),
                                 y |-> SumFunction([s \in stayed |-> pad[s].y - before[s].y])]]_vars
=============================================================================
