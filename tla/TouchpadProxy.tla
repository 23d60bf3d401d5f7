---------------------------- MODULE TouchpadProxy ----------------------------
(***************************************************************************)
(* The passthrough proxy (crates/gesture-device/src/                       *)
(* touchpad_passthrough.rs).  It reads the events of a grabbed touchpad    *)
(* and, at the end of each report, decides what a virtual touchpad shows   *)
(* the desktop: one finger at once, two after an arbitration window, three *)
(* or more never, nor what is left of them.  The virtual stream is made    *)
(* from the difference between two states, and validated before it goes    *)
(* out.                                                                    *)
(*                                                                         *)
(* Both axes are treated alike and one is followed; the tool type, which   *)
(* is handled as a coordinate is, and the single-touch axes are left out.  *)
(***************************************************************************)
EXTENDS Touchpad, SequencesExt

CONSTANTS
    Window,         \* TWO_FINGER_ARBITRATION_MICROS, in ticks
    MaxTrackingId   \* i32::MAX, after which virtual tracking ids start over

\* A pad numbers its slots from 0.
ASSUME SlotOrderAssumption == Slots = 0 .. (Cardinality(Slots) - 1)
ASSUME OneAxisAssumption == Cardinality(Ys) = 1
ASSUME WindowAssumption == Window \in Nat \ {0}
ASSUME TrackingIdAssumption == MaxTrackingId \in Nat \ {0}

VARIABLES
    click,      \* external: the button of the pad is down
    physical,   \* PhysicalState
    mode,       \* RoutingMode
    waited,     \* time since PendingTwo.started_micros, at most Window
    virtual,    \* VirtualSynthesizer
    active,     \* OutputValidator.active_tracking_ids
    device,     \* external: what the kernel holds of the virtual touchpad
    session,    \* "open"; "failed" once push returned an error; "released" and
                \* "unreleased" after release_all; "closed" after drop
    rejected,   \* history: the validator refused a packet
    refused,    \* history: the device refused a packet
    before,     \* history: the pad at the last report
    settled,    \* history: the pad has been clear and its button up after a
                \* report, or at the opening
    hidden,     \* history: three fingers were down since the pad was clear
    twoFor      \* history: how long reports have shown two fingers, at most
                \* Window, or None

proxyVars == <<physical, mode, waited, virtual, active, session>>
history == <<rejected, refused, before, settled, hidden, twoFor>>
vars == <<padVars, wire, click, proxyVars, device, history>>

NoContacts == [s \in {} |-> None]

-----------------------------------------------------------------------------
(***************************************************************************)
(* The pad: besides touches there is a button, and a report takes time.    *)
(***************************************************************************)
\* What the pad does once nobody reads it is of no interest.
ChangeSlot ==
    /\ session = "open"
    /\ TouchChanges
    /\ UNCHANGED <<click, proxyVars, device, history>>

\* The button comes before the contacts of a report; to the proxy that makes
\* no difference.
Click ==
    /\ session = "open"
    /\ wire = <<>> /\ reported = {}
    /\ click' = ~click
    /\ wire' = <<Event("button", IF click THEN 0 ELSE 1)>>
    /\ UNCHANGED <<padVars, proxyVars, device, history>>

UpTo(limit, n) == IF n > limit THEN limit ELSE n

\* The time since the report before: it is all that is known of time.
EndReport ==
    /\ session = "open"
    /\ ReportEnds
    /\ \E d \in 0 .. Window :
          /\ waited' = IF mode = "pending" THEN UpTo(Window, waited + d) ELSE waited
          /\ twoFor' = IF twoFor = None THEN None ELSE UpTo(Window, twoFor + d)
    /\ UNCHANGED <<click, physical, mode, virtual, active, session, device,
                   rejected, refused, before, settled, hidden>>

-----------------------------------------------------------------------------
(***************************************************************************)
(* PhysicalState::apply.                                                   *)
(***************************************************************************)
Consume(code) ==
    /\ session = "open"
    /\ Read(code)
    /\ UNCHANGED <<click, mode, waited, virtual, active, session, device, history>>

SelectSlot == Consume("slot") /\ physical' = [physical EXCEPT !.slot = Value]

Without(contacts, s) == [t \in DOMAIN contacts \ {s} |-> contacts[t]]

With(contacts, s, c) ==
    [t \in DOMAIN contacts \cup {s} |-> IF t = s THEN c ELSE contacts[t]]

TrackingId ==
    /\ Consume("id")
    /\ physical' = [physical EXCEPT !.contacts =
                       IF Value < 0 THEN Without(@, physical.slot)
                       ELSE With(@, physical.slot, [id |-> Value, x |-> None])]

\* A coordinate of a slot without a known contact is dropped.
Position ==
    /\ Consume("x")
    /\ physical' = IF physical.slot \in DOMAIN physical.contacts
                   THEN [physical EXCEPT !.contacts[physical.slot].x = Value] ELSE physical

Key ==
    \/ Consume("button") /\ physical' = [physical EXCEPT !.button = (Value = 1)]
    \/ Consume("tool_down") /\ physical' = [physical EXCEPT !.tools = @ \cup {Value}]
    \/ Consume("tool_up") /\ physical' = [physical EXCEPT !.tools = @ \ {Value}]

\* PhysicalSnapshot::fingers: the highest tool key, or the contacts if more.
SeenFingers ==
    LET reports == physical.tools \cup {Cardinality(DOMAIN physical.contacts)}
    IN  CHOOSE n \in reports : \A m \in reports : m <= n

-----------------------------------------------------------------------------
(***************************************************************************)
(* TouchpadRouter::finish_frame: which snapshot the desktop is to see.     *)
(***************************************************************************)
Snapshot == [contacts |-> physical.contacts, button |-> physical.button]

\* Mutant of Nobody: a button that is down stays down.
NobodyButButton == [contacts |-> NoContacts, button |-> physical.button]

\* PhysicalSnapshot::empty.
Nobody == [contacts |-> NoContacts, button |-> FALSE]

\* pending_snapshot: the contacts already shown that are still the same, and
\* the button only with one of them.
PendingSnapshot ==
    LET same == {s \in DOMAIN virtual.contacts \cap DOMAIN physical.contacts :
                    physical.contacts[s].id = virtual.contacts[s].id}
    IN  [contacts |-> [s \in same |-> physical.contacts[s]],
         button   |-> same # {} /\ physical.button]

Routed(m, desired) == [mode |-> m, desired |-> desired]

\* Mutant of Route: fewer than three fingers end the suppression.
RouteFewAgain ==
    IF mode # "suppressing" THEN
        IF SeenFingers >= 3 THEN Routed("suppressing", Nobody)
        ELSE IF SeenFingers < 2 \/ (mode = "pending" /\ waited >= Window)
        THEN Routed("forwarding", Snapshot)
        ELSE Routed("pending", PendingSnapshot)
    ELSE Routed(IF SeenFingers < 3 THEN "forwarding" ELSE "suppressing", Nobody)

\* Mutant of Route: an arbitration that was broken off goes on.
RouteKeepsWaiting ==
    IF mode # "suppressing" THEN
        IF SeenFingers >= 3 THEN Routed("suppressing", Nobody)
        ELSE IF SeenFingers < 2 THEN Routed(mode, Snapshot)
        ELSE IF mode = "pending" /\ waited >= Window THEN Routed("forwarding", Snapshot)
        ELSE Routed("pending", PendingSnapshot)
    ELSE Routed(IF SeenFingers = 0 THEN "forwarding" ELSE "suppressing", Nobody)

Route ==
    IF mode # "suppressing" THEN
        IF SeenFingers >= 3 THEN Routed("suppressing", Nobody)
        ELSE IF SeenFingers < 2 \/ (mode = "pending" /\ waited >= Window)
        THEN Routed("forwarding", Snapshot)
        ELSE Routed("pending", PendingSnapshot)
    ELSE Routed(IF SeenFingers = 0 THEN "forwarding" ELSE "suppressing", Nobody)

-----------------------------------------------------------------------------
(***************************************************************************)
(* VirtualSynthesizer::synthesize: the events from what is shown to what   *)
(* is desired.                                                             *)
(***************************************************************************)
\* The events of all slots, in the order of the slots.
EachSlot(events) == FlattenSeq([i \in 1 .. Cardinality(Slots) |-> events[i - 1]])

\* Mutant of Leaves: a contact that was replaced goes on.
LeavesIfGone(desired, s) == s \notin DOMAIN desired.contacts

Leaves(desired, s) ==
    \/ s \notin DOMAIN desired.contacts
    \/ desired.contacts[s].id # virtual.contacts[s].id

Arrives(desired, s) == s \notin DOMAIN virtual.contacts \/ Leaves(desired, s)

\* Mutant of Departures: the old contact of a replaced one is not ended.
DeparturesOfGone(desired) ==
    EachSlot([s \in Slots |->
                 IF s \in DOMAIN virtual.contacts \ DOMAIN desired.contacts
                 THEN <<Event("slot", s), Event("id", -1)>> ELSE <<>>])

Departures(desired) ==
    EachSlot([s \in Slots |->
                 IF s \in DOMAIN virtual.contacts /\ Leaves(desired, s)
                 THEN <<Event("slot", s), Event("id", -1)>> ELSE <<>>])

\* allocate_tracking_id, k times over.
Allocated(k) == ((virtual.next - 1 + k) % MaxTrackingId) + 1

Placed(c) == IF c.x = None THEN <<>> ELSE <<Event("x", c.x)>>

New(desired) == {s \in DOMAIN desired.contacts : Arrives(desired, s)}

\* The contact of slot s, if it is new or has moved; the new ones get their ids
\* in the order of the slots.
ContactOf(desired, s) ==
    IF s \notin DOMAIN desired.contacts THEN <<>>
    ELSE IF s \in New(desired)
    THEN <<Event("slot", s),
           Event("id", Allocated(Cardinality({t \in New(desired) : t < s})))>>
         \o Placed(desired.contacts[s])
    ELSE IF desired.contacts[s].x # virtual.contacts[s].x
    THEN <<Event("slot", s)>> \o Placed(desired.contacts[s])
    ELSE <<>>

Contacts(desired) == EachSlot([s \in Slots |-> ContactOf(desired, s)])

VirtualFingers(v) == Cardinality(DOMAIN v.contacts)

\* Mutant of Keys: a tool key stays down when another takes over.
KeysPressed(desired) ==
    LET is == VirtualFingers(virtual)
        to == VirtualFingers(desired)
    IN  (IF virtual.button = desired.button THEN <<>> ELSE <<Event("button", IF desired.button THEN 1 ELSE 0)>>)
        \o (IF is = to THEN <<>> ELSE ToolKey("tool_down", to))

\* BTN_LEFT, and the tool key of as many fingers as are shown; BTN_TOUCH is
\* down while there is a tool key.
Keys(desired) ==
    LET is == VirtualFingers(virtual)
        to == VirtualFingers(desired)
    IN  (IF virtual.button = desired.button THEN <<>>
         ELSE <<Event("button", IF desired.button THEN 1 ELSE 0)>>)
        \o (IF is = to THEN <<>> ELSE ToolKey("tool_up", is) \o ToolKey("tool_down", to))

Synthesize(desired) == Departures(desired) \o Contacts(desired) \o Keys(desired)

\* The synthesizer is now where it was told to go.
Synthesized(desired) ==
    [contacts |-> desired.contacts,
     button   |-> desired.button,
     next     |-> Allocated(Cardinality(New(desired)))]

-----------------------------------------------------------------------------
(***************************************************************************)
(* OutputValidator::validate.                                              *)
(***************************************************************************)
\* The validator after an event: a tracking id or a coordinate needs a slot
\* selected in this packet, a contact ends only where there is one, and begins
\* only where there is none, with an id no other slot has.
Check(v, e) ==
    IF e.code = "slot" THEN [v EXCEPT !.slot = e.value]
    ELSE IF e.code \notin {"id", "x"} THEN v
    ELSE IF v.slot = None THEN [v EXCEPT !.ok = FALSE]
    ELSE IF e.code = "x" THEN v
    ELSE IF e.value < 0
    THEN [v EXCEPT !.ok = @ /\ v.slot \in DOMAIN v.ids, !.ids = Without(@, v.slot)]
    ELSE [v EXCEPT !.ok = /\ @
                          /\ v.slot \notin DOMAIN v.ids
                          /\ \A s \in DOMAIN v.ids : v.ids[s] # e.value,
                   !.ids = With(@, v.slot, e.value)]

Validate(events) == FoldLeft(Check, [ok |-> TRUE, slot |-> None, ids |-> active], events)

-----------------------------------------------------------------------------
(***************************************************************************)
(* The kernel's view of the virtual touchpad.                              *)
(***************************************************************************)
\* A coordinate stays with its slot when a contact ends, and the next contact
\* of the slot has it until another is sent.
Apply(d, e) ==
    CASE e.code = "slot" -> [d EXCEPT !.slot = e.value]
      [] e.code = "id" -> [d EXCEPT !.ids = IF e.value < 0 THEN Without(@, d.slot)
                                            ELSE With(@, d.slot, e.value)]
      [] e.code = "x" -> [d EXCEPT !.x[d.slot] = e.value]
      [] e.code = "button" -> [d EXCEPT !.button = (e.value = 1)]
      [] e.code = "tool_down" -> [d EXCEPT !.tools = @ \cup {e.value}]
      [] e.code = "tool_up" -> [d EXCEPT !.tools = @ \ {e.value}]

Emitted(events) == FoldLeft(Apply, device, events)

Clear(d) == d.ids = NoContacts /\ d.tools = {} /\ ~d.button

\* A packet that is valid goes to the device, which may refuse it; a packet
\* that is not does not.  Either way the synthesizer has moved on.
Send(desired, ok, failed) ==
    LET events == Synthesize(desired)
        checked == Validate(events)
    IN  /\ virtual' = Synthesized(desired)
        /\ IF ~checked.ok
           THEN /\ rejected' = TRUE
                /\ session' = failed
                /\ UNCHANGED <<active, device, refused>>
           ELSE /\ active' = checked.ids
                /\ UNCHANGED rejected
                /\ \/ /\ device' = Emitted(events)
                      /\ session' = ok
                      /\ UNCHANGED refused
                   \/ /\ events # <<>>
                      /\ refused' = TRUE
                      /\ session' = failed
                      /\ UNCHANGED device

-----------------------------------------------------------------------------
(***************************************************************************)
(* TouchpadPassthrough.                                                    *)
(***************************************************************************)
\* SYN_REPORT: the frame is routed, synthesized, validated and emitted.
FinishFrame ==
    /\ session = "open"
    /\ Read("syn")
    /\ mode' = Route.mode
    /\ waited' = IF mode # "pending" /\ mode' = "pending" THEN 0 ELSE waited
    /\ Send(Route.desired, "open", "failed")
    /\ before' = pad
    /\ settled' = (settled \/ (Fingers = 0 /\ ~click))
    /\ hidden' = (Fingers >= 3 \/ (hidden /\ Fingers > 0))
    /\ twoFor' = IF Fingers # 2 THEN None ELSE IF twoFor = None THEN 0 ELSE twoFor
    /\ UNCHANGED <<click, physical>>

\* release_all, at whatever point of a report the loop was left.
ReleaseAll ==
    /\ session \in {"open", "failed"}
    /\ Send(Nobody, "released", "unreleased")
    /\ UNCHANGED <<padVars, wire, click, physical, mode, waited,
                   before, settled, hidden, twoFor>>

\* Drop: release_all once more, and the kernel closes the device.
Drop ==
    /\ session \in {"released", "unreleased"}
    /\ session' = "closed"
    /\ virtual' = Synthesized(Nobody)
    /\ device' = [device EXCEPT !.ids = NoContacts, !.tools = {}, !.button = FALSE]
    /\ active' = IF Validate(Synthesize(Nobody)).ok
                 THEN Validate(Synthesize(Nobody)).ids ELSE active
    /\ UNCHANGED <<padVars, wire, click, physical, mode, waited, history>>

Init ==
    /\ PadInit
    /\ click \in BOOLEAN
    /\ physical = [slot |-> 0, contacts |-> NoContacts, tools |-> {}, button |-> FALSE]
    /\ mode = "forwarding"
    /\ waited = 0
    /\ virtual = [contacts |-> NoContacts, button |-> FALSE, next |-> 1]
    /\ active = NoContacts
    /\ device = [slot |-> 0, ids |-> NoContacts, x |-> [s \in Slots |-> None],
                 tools |-> {}, button |-> FALSE]
    /\ session = "open"
    /\ rejected = FALSE
    /\ refused = FALSE
    /\ before = pad
    /\ settled = (Fingers = 0 /\ ~click)
    /\ hidden = (Fingers >= 3)
    /\ twoFor = None

Next ==
    \/ ChangeSlot \/ Click \/ EndReport
    \/ SelectSlot \/ TrackingId \/ Position \/ Key \/ FinishFrame
    \/ ReleaseAll \/ Drop

Spec == Init /\ [][Next]_vars

-----------------------------------------------------------------------------
(***************************************************************************)
(* Properties.                                                             *)
(***************************************************************************)
Shown == DOMAIN device.ids

\* The proxy's variables are well formed and its three views of the virtual
\* touchpad are one: while frames go through, synthesizer, validator and
\* kernel agree on the contacts, their ids, the button and the tool key.
TypeOK ==
    /\ mode \in {"forwarding", "pending", "suppressing"}
    /\ waited \in 0 .. Window
    /\ session \in {"open", "failed", "released", "unreleased", "closed"}
    /\ physical.slot \in Slots
    /\ physical.contacts \in SomeSlots([id : Touches, x : Xs \cup {None}])
    /\ virtual.next \in 1 .. MaxTrackingId
    /\ session = "open" =>
          /\ device.ids = active
          /\ Shown = DOMAIN virtual.contacts
          /\ device.button = virtual.button
          /\ device.tools = (1 .. 5) \cap {VirtualFingers(virtual)}

\* The proxy never produces a frame its own validator refuses, whatever is on
\* the pad when it is opened: "refusing to emit an invalid virtual touchpad
\* frame" would end the session and the desktop's input with it.
FramesAreValid == ~rejected

\* Once a third finger was down the desktop sees no finger, key or button of
\* that session until every finger is up: not the fingers that were shown
\* before, not the ones that are left when the others lift, in whatever order
\* they come and go.
ThreeFingersHidden == settled /\ hidden /\ session = "open" => Clear(device)

\* The desktop sees a second finger only when the pad has shown two, and no
\* more and no fewer, for the whole arbitration window; and it never sees a
\* third, neither with the second nor after it.
TwoFingersWait ==
    [][settled' /\ Cardinality(Shown') >= 2 =>
          /\ Cardinality(Shown') = 2
          /\ Cardinality(Shown) = 2 \/ twoFor' = Window]_vars

\* What the desktop sees is the pad: after every report of a session no third
\* finger took part in, a virtual contact is a finger in the same slot, where
\* the finger is if its coordinate is known, and the same finger exactly as
\* long as its virtual id is the same; a single finger and the button under it
\* are shown at once.
DesktopFollowsPad ==
    [][wire # <<>> /\ Head(wire).code = "syn" /\ session' = "open"
       /\ settled /\ ~hidden /\ ~hidden' =>
          /\ Shown' \subseteq DOMAIN pad
          /\ Fingers <= 1 => Shown' = DOMAIN pad /\ device'.button = click
          /\ \A s \in Shown' :
                physical.contacts[s].x # None => device'.x[s] = pad[s].x
          /\ \A s \in Shown \cap Shown' :
                device.ids[s] = device'.ids[s] <=>
                    s \in DOMAIN before /\ before[s].id = pad[s].id]_vars

\* release_all leaves nothing down on the virtual touchpad: at whatever point
\* of a report the session is left, unless the device had refused a packet.
ReleaseLeavesNothing == session = "released" /\ ~refused => Clear(device)
=============================================================================
