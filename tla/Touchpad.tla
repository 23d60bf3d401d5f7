------------------------------ MODULE Touchpad ------------------------------
(***************************************************************************)
(* A multitouch touchpad and the kernel in front of it, as a reader of its *)
(* event device meets them (protocol B of the input subsystem).  None of   *)
(* it is code of this repository: TouchFrames and TouchpadProxy, which     *)
(* read such events, are composed with it.                                 *)
(*                                                                         *)
(* The kernel announces the slot of an event only when it differs from the *)
(* slot announced last, to whomever, and a coordinate only when it differs *)
(* from the last one in that slot, of whichever contact.  A report waits   *)
(* here until the reader has read the one before; the kernel would queue   *)
(* it, and the reader read the same events.                                *)
(***************************************************************************)
EXTENDS Integers, Sequences, FiniteSets

CONSTANTS
    Slots,          \* slots of the touchpad
    Xs, Ys,         \* coordinates a finger can have
    None,           \* Option::None
    AnnouncedSlots, \* slots that may be the one announced last at the opening
    MaxTouches,     \* bound: tracking ids handed out
    MaxUntracked    \* bound: fingers counted beyond those that have a slot

ASSUME SlotAssumption ==
    /\ 0 \in Slots
    /\ IsFiniteSet(Slots)
    /\ AnnouncedSlots \subseteq Slots

ASSUME CoordinateAssumption == Xs # {} /\ Ys # {} /\ None \notin Int \cup Xs \cup Ys

ASSUME BoundAssumption == MaxTouches \in Nat /\ MaxUntracked \in Nat

VARIABLES
    pad,        \* the fingers that have a slot: slot |-> id and coordinates
    untracked,  \* how many more fingers are counted
    touches,    \* bound: tracking ids handed out so far
    announced,  \* the slot announced last
    last,       \* per slot, the coordinates announced last
    counted,    \* the finger count the tool keys show
    reported,   \* slots that have changed in the report being made
    wire        \* events the reader has not read yet

padVars == <<pad, untracked, touches, announced, last, counted, reported>>

Touches == 1 .. MaxTouches
Points  == [x : Xs, y : Ys]

\* Functions from some of the slots.
SomeSlots(range) == UNION {[S -> range] : S \in SUBSET Slots}

Event(code, value) == [code |-> code, value |-> value]

Fingers == Cardinality(DOMAIN pad) + untracked

\* The kernel's part of a change in slot s: what it has to announce of it.
Announce(s, id, x, y) ==
    /\ wire' = (IF announced = s THEN <<>> ELSE <<Event("slot", s)>>)
               \o id
               \o (IF last[s].x = x THEN <<>> ELSE <<Event("x", x)>>)
               \o (IF last[s].y = y THEN <<>> ELSE <<Event("y", y)>>)
    /\ announced' = s
    /\ last' = [last EXCEPT ![s] = [x |-> x, y |-> y]]
    /\ reported' = reported \cup {s}

\* A finger lands, or takes the place of another within one report.
Land(s) ==
    /\ touches < MaxTouches
    /\ touches' = touches + 1
    /\ \E p \in Points :
          /\ pad' = [t \in DOMAIN pad \cup {s} |->
                        IF t = s THEN [id |-> touches', x |-> p.x, y |-> p.y] ELSE pad[t]]
          /\ Announce(s, <<Event("id", touches')>>, p.x, p.y)

Move(s) ==
    /\ s \in DOMAIN pad
    /\ \E p \in Points :
          /\ p # last[s]
          /\ pad' = [pad EXCEPT ![s].x = p.x, ![s].y = p.y]
          /\ Announce(s, <<>>, p.x, p.y)
    /\ UNCHANGED touches

Lift(s) ==
    /\ s \in DOMAIN pad
    /\ pad' = [t \in DOMAIN pad \ {s} |-> pad[t]]
    /\ Announce(s, <<Event("id", -1)>>, last[s].x, last[s].y)
    /\ UNCHANGED touches

\* A report changes a slot at most once.
TouchChanges ==
    /\ wire = <<>>
    /\ \E s \in Slots \ reported : Land(s) \/ Move(s) \/ Lift(s)
    /\ UNCHANGED <<untracked, counted>>

\* The report ends with the finger count, if that changed (there are tool keys
\* for one finger to five), and SYN_REPORT.
ToolKey(code, n) == IF n \in 1 .. 5 THEN <<Event(code, n)>> ELSE <<>>

ReportEnds ==
    /\ wire = <<>>
    /\ untracked' \in 0 .. MaxUntracked
    /\ LET count == Cardinality(DOMAIN pad) + untracked'
       IN  /\ counted' = count
           /\ wire' = (IF count = counted THEN <<>>
                       ELSE ToolKey("tool_up", counted) \o ToolKey("tool_down", count))
                      \o <<Event("syn", 0)>>
    /\ reported' = {}
    /\ UNCHANGED <<pad, touches, announced, last>>

\* The reader takes the next event.
Read(code) ==
    /\ wire # <<>>
    /\ Head(wire).code = code
    /\ wire' = Tail(wire)
    /\ UNCHANGED padVars

Value == Head(wire).value

\* The pad may be in use when the device is opened, and the kernel has told
\* others what it has to say about it.
PadInit ==
    /\ pad \in SomeSlots([id : Touches, x : Xs, y : Ys])
    /\ touches = Cardinality(DOMAIN pad)
    /\ {pad[s].id : s \in DOMAIN pad} = 1 .. touches
    /\ untracked \in 0 .. MaxUntracked
    /\ counted = Fingers
    /\ announced \in AnnouncedSlots
    /\ last \in [Slots -> Points]
    /\ \A s \in DOMAIN pad : last[s] = [x |-> pad[s].x, y |-> pad[s].y]
    /\ reported = {}
    /\ wire = <<>>
=============================================================================
