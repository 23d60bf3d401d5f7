---------------------------- MODULE PointerDrag ----------------------------
(***************************************************************************)
(* The uinput pointer provider (crates/gesture-actions/src/                *)
(* uinput_pointer.rs): one mutex-protected runtime that turns the          *)
(* touchpad.drag events of any number of streams into button presses,      *)
(* motion and button releases on one virtual pointer.                      *)
(*                                                                         *)
(* One execution of the action "uinput.drag" is atomic: the whole of       *)
(* execute_drag runs under the runtime's mutex.  What can go wrong inside  *)
(* it is an emission: the virtual device may fail to open, any packet of   *)
(* the command list may be refused after the earlier ones were applied,    *)
(* and the emergency release that follows may be refused too.              *)
(*                                                                         *)
(* How far the pointer moves is the subject of PointerMotion; here an      *)
(* event only says whether its motion is malformed, rounds to nothing, or  *)
(* moves the pointer.                                                      *)
(***************************************************************************)
EXTENDS Naturals, Sequences

CONSTANTS
    Streams,    \* recognition.stream_id values
    NoStream,   \* no stream: the label is absent, or no drag is active
    Buttons,    \* left, middle, right
    NoButton,   \* active_button = None
    Copies,     \* distinguishes events that agree in everything but their id
    NoEvent,    \* last_event_id = None
    MaxFaults   \* bound: emissions the device may refuse in a behaviour

ASSUME NoneAssumption ==
    /\ NoStream \notin Streams
    /\ NoButton \notin Buttons

ASSUME FaultAssumption == MaxFaults \in Nat

Phases  == {"begin", "update", "end", "cancel", "other"}
Motions == {"malformed", "none", "some"}

(***************************************************************************)
(* An event stands for its own uuid: two events with the same fields and   *)
(* different ids differ in copy, and a redelivered event is equal.         *)
(***************************************************************************)
Events == [phase : Phases, stream : Streams \cup {NoStream},
           motion : Motions, copy : Copies]

ASSUME EventAssumption == NoEvent \notin Events

VARIABLES
    state,      \* PointerDragState: active stream, active button, last event
    created,    \* PointerRuntime.device is Some
    down,       \* the buttons the kernel holds pressed on the virtual device
    stranded,   \* history: an emergency release failed and nothing released
                \* every button since
    faults      \* bound: refused emissions so far

pvars == <<state, created, down, stranded, faults>>

DragState == [stream : Streams \cup {NoStream},
              button : Buttons \cup {NoButton},
              last   : Events \cup {NoEvent}]

Idle == [stream |-> NoStream, button |-> NoButton, last |-> NoEvent]

Press(b)   == [kind |-> "down", button |-> b]
Release(b) == [kind |-> "up", button |-> b]
Move       == [kind |-> "move", button |-> NoButton]

Held(b) == IF b = NoButton THEN {} ELSE {b}

-----------------------------------------------------------------------------
(***************************************************************************)
(* Planning: pure functions from the state and an event to the commands to *)
(* emit and the state to install once they are out.                        *)
(***************************************************************************)
Plan(cmds, next) == [ok |-> TRUE, cmds |-> cmds, next |-> next]
Refuse(s) == [ok |-> FALSE, cmds |-> <<>>, next |-> s]

MoveCmds(e) == IF e.motion = "some" THEN <<Move>> ELSE <<>>

\* Mutant of PlanBegin: a takeover leaves the old stream's button down.
PlanBeginOnTop(s, e, b) ==
    IF e.stream = NoStream THEN Refuse(s)
    ELSE IF e.stream = s.stream THEN Plan(<<>>, [s EXCEPT !.last = e])
    ELSE IF e.motion = "malformed" THEN Refuse(s)
    ELSE Plan(<<Press(b)>> \o MoveCmds(e), [stream |-> e.stream, button |-> b, last |-> e])

PlanBegin(s, e, b) ==
    IF e.stream = NoStream THEN Refuse(s)
    ELSE IF e.stream = s.stream THEN Plan(<<>>, [s EXCEPT !.last = e])
    ELSE IF e.motion = "malformed" THEN Refuse(s)
    ELSE Plan((IF s.button = NoButton THEN <<>> ELSE <<Release(s.button)>>)
                 \o <<Press(b)>> \o MoveCmds(e),
              [stream |-> e.stream, button |-> b, last |-> e])

\* Mutant of PlanUpdate: an update without a drag starts it.
PlanUpdateOrBegin(s, e, b) ==
    IF s.stream = NoStream THEN PlanBegin(s, e, b)
    ELSE IF \/ e.stream # s.stream
            \/ b # s.button
            \/ e.motion = "malformed"
    THEN Refuse(s)
    ELSE Plan(MoveCmds(e), [s EXCEPT !.last = e])

PlanUpdate(s, e, b) ==
    IF \/ s.button = NoButton
       \/ e.stream = NoStream
       \/ e.stream # s.stream
       \/ b # s.button
       \/ e.motion = "malformed"
    THEN Refuse(s)
    ELSE Plan(MoveCmds(e), [s EXCEPT !.last = e])

\* Mutant of PlanRelease: the stream of the released button stays active.
PlanReleaseButtonOnly(s, e) ==
    IF s.stream = NoStream THEN Plan(<<>>, s)
    ELSE IF e.stream = NoStream THEN Refuse(s)
    ELSE IF e.stream # s.stream THEN Plan(<<>>, s)
    ELSE Plan(IF s.button = NoButton THEN <<>> ELSE <<Release(s.button)>>,
              [s EXCEPT !.button = NoButton])

\* Mutant of PlanRelease: any stream's end or cancel releases the button.
PlanReleaseAnyStream(s, e) ==
    IF s.stream = NoStream THEN Plan(<<>>, s)
    ELSE Plan(IF s.button = NoButton THEN <<>> ELSE <<Release(s.button)>>, Idle)

PlanRelease(s, e) ==
    IF s.stream = NoStream THEN Plan(<<>>, s)
    ELSE IF e.stream = NoStream THEN Refuse(s)
    ELSE IF e.stream # s.stream THEN Plan(<<>>, s)
    ELSE Plan(IF s.button = NoButton THEN <<>> ELSE <<Release(s.button)>>, Idle)

PlanEvent(s, e, b) ==
    IF s.last = e THEN Plan(<<>>, s)
    ELSE CASE e.phase = "begin"             -> PlanBegin(s, e, b)
           [] e.phase = "update"            -> PlanUpdate(s, e, b)
           [] e.phase \in {"end", "cancel"} -> PlanRelease(s, e)
           [] OTHER                         -> Refuse(s)

-----------------------------------------------------------------------------
(***************************************************************************)
(* Emission: every command is a packet of its own, applied in order.       *)
(***************************************************************************)
Apply(held, cmd) ==
    CASE cmd.kind = "down" -> held \cup {cmd.button}
      [] cmd.kind = "up"   -> held \ {cmd.button}
      [] OTHER             -> held

\* The buttons down once the first n packets of cmds are applied.  A plan
\* has at most three packets: release the old button, press the new, move.
ApplyPrefix(held, cmds, n) ==
    LET after1 == IF n >= 1 THEN Apply(held, cmds[1]) ELSE held
        after2 == IF n >= 2 THEN Apply(after1, cmds[2]) ELSE after1
    IN  IF n >= 3 THEN Apply(after2, cmds[3]) ELSE after2

\* Every packet goes out; the device is opened for the first one.
EmitAll(cmds, next) ==
    /\ down' = ApplyPrefix(down, cmds, Len(cmds))
    /\ created' = (created \/ cmds # <<>>)
    /\ state' = next
    /\ UNCHANGED <<stranded, faults>>

\* The device cannot be opened: nothing is emitted, and with no device the
\* emergency release has nothing to do.
OpenFails(cmds) ==
    /\ cmds # <<>>
    /\ ~created
    /\ faults < MaxFaults
    /\ faults' = faults + 1
    /\ state' = Idle
    /\ UNCHANGED <<created, down, stranded>>

\* Packet n+1 is refused; the emergency release of all buttons succeeds.
EmitFails(cmds) ==
    /\ cmds # <<>>
    /\ faults < MaxFaults
    /\ faults' = faults + 1
    /\ created' = TRUE
    /\ state' = Idle
    /\ down' = {}
    /\ stranded' = FALSE

\* Packet n+1 is refused and so is the emergency release.
EmitAndReleaseFail(cmds) ==
    /\ faults + 1 < MaxFaults
    /\ faults' = faults + 2
    /\ \E n \in 0 .. Len(cmds) - 1 : down' = ApplyPrefix(down, cmds, n)
    /\ created' = TRUE
    /\ state' = Idle
    /\ stranded' = TRUE

\* execute_drag for event e under a binding that names button b.
ExecutePlan(p) ==
    \/ EmitAll(p.cmds, p.next)
    \/ OpenFails(p.cmds)
    \/ EmitFails(p.cmds)
    \/ EmitAndReleaseFail(p.cmds)

ExecuteDrag(e, b) ==
    LET p == PlanEvent(state, e, b)
    IN  IF p.ok THEN ExecutePlan(p) ELSE UNCHANGED pvars

\* Drop for UinputPointerProvider, and the new provider that takes its
\* place when the daemon installs another configuration.  Dropping the
\* VirtualDevice closes it, and the kernel releases what it held.
ReplaceProvider ==
    /\ state' = Idle
    /\ created' = FALSE
    /\ down' = {}
    /\ stranded' = FALSE
    /\ UNCHANGED faults

PInit ==
    /\ state = Idle
    /\ created = FALSE
    /\ down = {}
    /\ stranded = FALSE
    /\ faults = 0

PNext ==
    \/ \E e \in Events, b \in Buttons : ExecuteDrag(e, b)
    \/ ReplaceProvider

PSpec == PInit /\ [][PNext]_pvars

-----------------------------------------------------------------------------
(***************************************************************************)
(* Properties.                                                             *)
(***************************************************************************)

\* The provider's state is well formed: PointerDragState never holds a button
\* without the stream that owns it, nor the reverse (the case plan_update
\* reports as "active state is missing its stream id" cannot happen), and
\* nothing is pressed on a device that was never opened.
PTypeOK ==
    /\ state \in DragState
    /\ created \in BOOLEAN
    /\ down \subseteq Buttons
    /\ stranded \in BOOLEAN
    /\ faults \in 0 .. MaxFaults
    /\ state.stream = NoStream <=> state.button = NoButton
    /\ ~created => down = {}

\* What the kernel holds pressed is what the provider believes: the button of
\* an active drag is down, whatever was refused or replayed before, and no
\* other button is down unless an emergency release was itself refused and
\* nothing has released every button since (execute_drag's error path).
ButtonsFollowState ==
    /\ Held(state.button) \subseteq down
    /\ ~stranded => down \subseteq Held(state.button)
=============================================================================
