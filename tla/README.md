# GestureForge in TLA+

GestureForge turns the touches on a laptop's touchpad into gesture events and
the events into actions. Its hard part is the *continuous drag*: a recognizer
process sees fingers rest and move, tells a daemon `begin`, `update`, ..., `end`
or `cancel`, and the daemon holds a mouse button down on a virtual pointer in the
meantime. If any of the parts involved loses track, a button or a key stays
pressed and the desktop is unusable. Most of what is specified here says, of
one part or of several together, that this does not happen, and of what remains
when something fails.

Paths below are relative to the repository (`src/` in `PROJECT.json`);
`PROJECT.json` maps each definition to the lines it models.

## 1. Inventory

| Component | Source | State it keeps | Operations | Talks to |
|---|---|---|---|---|
| Device observer | `crates/gesture-device/src/evdev_observer.rs` | open device, exclusive grab | open, grab, next_event, release_grab, drop | kernel; read by the command line |
| Touch-frame tracker | `crates/gesture-device/src/touch_frame.rs` | slots, current slot, tool keys, previous frame, dirty | push(raw event) -> frame | called by the command line |
| Gesture recognizer | `crates/gesture-recognition/src/session.rs` | frames of the session, drag candidate, active drag, session claimed | push(frame), cancel -> events | called by the command line |
| Recognizer configuration | `crates/gesture-recognition/src/config.rs` | none | parse, validate | read by the recognizer |
| Touchpad proxy | `crates/gesture-device/src/touchpad_passthrough.rs` | physical state, routing mode, synthesizer, validator | push(raw event), release_all, drop | virtual touchpad; switched off in the command line |
| Command line | `crates/gesture-cli/src/main.rs` | socket connection, shutdown monitor | gestures (live), recognize/replay (offline), devices, monitor, record, validate, simulate | daemon's socket |
| Daemon | `crates/gesture-daemon/src/main.rs` | runtime state behind a read/write lock; per connection the tracked drag | accept, read line, dispatch, answer, clean up; watch and install configurations; shut down | clients, engine, file system |
| Engine | `crates/gesture-core/src/engine.rs` | configuration | plan, dispatch | registries |
| Configuration | `crates/gesture-core/src/config.rs` | none | parse, validate | engine |
| Registries, built-in providers | `crates/gesture-core/src/provider.rs`, `crates/gesture-actions/src/lib.rs` | providers by name | validate, execute; `process.run` starts or awaits a child | child processes |
| Virtual pointer | `crates/gesture-actions/src/uinput_pointer.rs` | active stream and button, residuals, last event id; the device | execute drag, drop | kernel (uinput) |
| Virtual keyboard | `crates/gesture-actions/src/uinput_keyboard.rs` | recorded keys; the device | tap chord, release all, drop | kernel (uinput) |

Interaction: raw events flow observer -> tracker -> recognizer inside one
command-line process. Gesture events go over a Unix socket, one JSON line each,
and each line is answered before the next is sent. In the daemon every
connection is a tokio task; all of them share one runtime state (engine and
registries) behind a fair `RwLock`: dispatches read, a reload writes. The
uinput provider is part of that state, with a mutex around the pointer and one
around the keyboard.

What is hard, and the property that states it (the full list, line by line, is
`hazards` in `PROJECT.json`):

* **Partial failure.** A plan is several packets; each can be refused, and so can
  the emergency release that follows (`ButtonsFollowState`, `KeysNest`).
* **Two halves of one state.** Drag and residual change together, through
  takeovers and failures (`HalvesAgree`).
* **Interleaving of clients.** Takeovers, late cancels, cleanup of dead
  connections (`DragOwned`, `OnlyOwnEventsEndADrag`).
* **Lost peers and timeouts.** A client may vanish between any two steps
  (`DragOwned`, `DisconnectReleases`); an answer may come after its timeout and be
  read as the answer to the next event (`AcksAreEarned`, `LinesFormLifecycles`).
* **Reload under load.** The write lock behind readers that may never finish
  (`ReloadsAreInstalled`); drags in progress whose provider a reload drops
  (`LostDragsStayLost`).
* **Configurations that bind part of a drag.** A begin may be bound and its end not
  (`LostDragsStayLost`, `OnlyOwnEventsEndADrag`; what is lost is said in section 2).
* **A file that changes while it is read.** Saves in two steps, notifications
  that outrun or trail the load, a file that restricts and grants and is not valid
  (`QuietMeansCurrent`, `PermissionsAreValidated`).
* **Plans and policies.** Rank, consumption, conditions and three error policies
  interact (`DispatchFollowsPolicy`).
* **Shutdown.** Of the daemon in a drag (`ShutdownReleases`); of a session at any
  step of a delivery (`StopsPromptly`, `StopEndsSession`, `SuccessClosesDrags`).
* **Differences and stale state.** The kernel reports what changed, and its readers
  must know what it changed from (`FramesMatchThePad`, `MotionIsReal`); the proxy
  in turn sends the difference of two states that three of its parts remember
  (`DesktopFollowsPad`, `FramesAreValid`, `ReleaseLeavesNothing`).
* **Protocol sequences of frames.** Contacts change, get lost, lack times
  (`DragFollowsHold`, `ImplementsLifecycle`, `GesturesAreEarned`); fingers come and
  go while the proxy waits or suppresses (`ThreeFingersHidden`, `TwoFingersWait`).
* **Arithmetic.** Rounding with residuals, sums of deltas (`NoDrift`,
  `MotionAddsUp`); tracking ids that wrap (`FramesAreValid`).

## 2. Modules

### PointerDrag (`uinput_pointer.rs`)

The provider. `state` is `PointerDragState` (stream, button, last event), `created`
says whether the device exists, `down` is what the *kernel* holds pressed: the
quantity a user feels, and the one no unit test of the repository can see. `PlanBegin`,
`PlanUpdate`, `PlanRelease` and `PlanEvent` are the pure planning functions and
return commands and the next state; `ExecutePlan` emits them, with the four ways
that can go: all packets out, device cannot be opened, a packet refused and all
buttons released, a packet refused and the release refused too. One `ExecuteDrag`
is one step because the code runs it under the mutex. `ReplaceProvider` is the
drop of the provider when a configuration is installed.

`stranded` is a history variable: an emergency release failed and no later one
succeeded. `faults` bounds the refusals.

An event that is repeated at once is recognized by `last`; a begin that is
repeated after its drag ended is a new drag, although `docs/CONFIGURATION.md:110`
calls duplicates idempotent without that restriction. The command line sends
no event twice, so nothing here depends on it.

### PointerMotion (`scale_axis`)

How far the pointer moves: scaled deltas are integers counted in `Unit` parts of
a step, so rounding, clamping and residual are exact. Floating-point error of
`f64` is not modelled.

### PointerProvider (`uinput_pointer.rs`), composed of the two

Both halves are fields of one `PointerDragState`. `Execute` is `execute_drag` as a
whole: what it plans and how its emission goes is `PointerDrag`'s, and
`InstallResidual` says which step of `PointerMotion` comes with it: a fresh residual
for a stream that begins or takes over, the rounding for an update that is no
repetition, none for an end or a failed emission. `PlansMove` ties them: a step of
this axis that is not zero means that a move command was planned. `HalvesAgree` is
the refinement of both halves and the agreement between them.

### KeyChord (`uinput_keyboard.rs`)

`tap_chord` packet by packet, because the desktop acts on each. `pressed` is the
runtime's record, `down` the kernel's. `release_all_keys` takes the record before it
emits, so that after an emergency release that fails the record is empty while
keys are down. The step `"stale"`, the release with which every chord begins, is
therefore never reached: `KeyboardTypeCorrect` proves it. The next chord succeeds
and the key stays down until it is part of a chord or the provider is replaced;
`stranded` is the history variable that accounts for it, and `KeysNest` speaks of
all other keys.

### DragDaemon (`crates/gesture-daemon/src/main.rs`), composed with PointerDrag

Extends `PointerDrag` with clients, the socket (`inbox`, a sequence of lines per
connection), one program counter per connection task (`read`, `lock`, `exec`,
`done`, `write`, `closed`), the drag each task tracks, the configuration in
force and the one the watcher waits to install, and the shutdown.

Steps correspond to the awaits of `handle_client`: between reading a line and
taking the lock, between taking the lock and finishing the dispatch, and between
finishing and writing the answer another task may run. `TakeReadLock` requires
that no writer is queued, tokio's `RwLock` being fair. `LeaveLoop` is the end of
the loop with its cleanup: `CancelOf(tracked)` is dispatched like any line, and what
was not read is lost. The loop ends with the input (`EndOfStream`), with an answer that
cannot be written (`WriteFails`), or with a read that fails while lines are queued
(`ReadFails`).

A dispatch is reduced to what it does to a drag. The engine matches each event by
itself, so a configuration says *for each phase* whether the event is led to the
pointer (`"drag"`, with the button), to nothing (`"unbound"`), or fails as a whole
(`"error"`, a condition that cannot be evaluated: answered, but not tracked). At most
one `uinput.drag` action runs per event. Validation accepts a configuration
that binds the begin of a drag and not its release, and `docs/CONFIGURATION.md:75-77`
warns of it: "omitting release phases can leave a button pressed until the provider's
emergency cleanup runs". In the code it does: `track_client_drag` forgets a drag with its
end although no binding has released it, and the cancel of a client that vanished matches
nothing. `DragOwned` and `DisconnectReleases` therefore speak of configurations that bind
the release phases (`BindsReleases`); TLC finds both violated without that. The runs have
configurations of both kinds, and `OnlyOwnEventsEndADrag` and `LostDragsStayLost` hold
under all: a stream that has lost the button is not given it again, whatever its
client still sends. `held` is the history variable it needs.

Clients send what
the command line sends: one drag at a time under a new stream id, and after a
timeout or a failure a cancel and good-bye.

### Touchpad (external)

What a reader of the event device meets: `pad` is where the fingers really are.
`Land`, `Move` and `Lift` change the pad and put on `wire` what the kernel says of
it, which is only the difference to what it said last: the slot if another was
announced before, a coordinate if it is not the one last announced in that slot.
`ReportEnds` adds the tool keys if the finger count changed, and `SYN_REPORT`.
`untracked` counts fingers without a slot, which some touchpads report. The device
may be opened at any time, with fingers on it the reader knows nothing of. All of
it is the behaviour of the Linux input core, which the code relies on.

### TouchFrames (`touch_frame.rs`), composed with Touchpad

The tracker, one action per kind of event it reads (`SelectSlot`, `TrackingId`,
`Position`, `HandleKey`, `FinishFrame`).

`FinishFrame` is the code that relates slots, tool keys and the previous frame.
`frame` is what `push` returned last. Centroids are kept as sums with a count, so
displacement is exact; times and velocities are left out. `before` and `settled`
are history variables: the pad at the last frame, and whether a report or the opening
of the device has found it clear. What frames promise, they promise from then on:
of fingers that were down before, the reader was told nothing. `Countable` leaves out
frames with a finger that has no slot among more than five: no tool key says so many.
`MotionIsReal` compares slot by slot, `MotionFollowsFingers` by tracking id, wherever the
tracker believes the finger to be.

The kernel's rule that only a changed slot is announced makes the slot a new
tracker assumes (0) matter. `touch_frames` has slot 0 announced last, as on a pad
used with one finger before; `touch_frames_slot` another slot.

### Segments and DragRecognizer (`session.rs`), DragLifecycle

`Segments` holds the pure part: cutting a session into segments of steady
contacts, measuring them, and the rules. `DragRecognizer` is the state machine
with `push` (by phase of frame) and `cancel`. `DragLifecycle` is the abstract
specification, what `docs/GESTURE_RECOGNITION.md` promises to consumers: begin,
updates, then one end or cancel under a stream of its own; nothing else in that
session. `ImplementsLifecycle` is the refinement.

Points lie on a line (distance is an absolute difference, there is no axis
deviation), and times count frames, so they increase: the kernel's event times
do, unless the clock is set back. Event values nobody decides on are left out.

### TouchpadProxy (`touchpad_passthrough.rs`), composed with Touchpad

The passthrough: `PhysicalState::apply` (one action per kind of event),
`TouchpadRouter::finish_frame` (`Route`: which snapshot the desktop is to see, in
the modes forwarding, pending and suppressing), `VirtualSynthesizer::synthesize`
(`Departures`, `Contacts`, `Keys`: the events from what is shown to what is desired),
`OutputValidator::validate` (`Check` folded over the events) and the emission, which
the device may refuse. Slots are numbered from 0 (`SlotOrderAssumption`), and events come in
their order, as those of the code's maps do (`EachSlot`). `device` is what the kernel makes of the packets that get
through, hence what the desktop sees; its slots keep their last coordinate when a
contact ends, as real ones do. `ReleaseAll` may come at any point of a report,
`Drop` after it. Time is what reports say of it: each report is up to `Window` ticks
after the one before. History variables remember the pad at the last report
(`before`), whether a third finger was down (`hidden`) and for how long two have
been (`twoFor`). The command line refuses to switch the proxy on at this commit;
its code is complete and is modelled as it is.

### EventEngine (`engine.rs`), ConfigReload (`crates/gesture-daemon/src/main.rs`)

`EventEngine` is `plan` and `dispatch`: bindings by priority and id, conditions,
`consume`, and the actions one by one, each of which may fail and is treated as
its error policy says. An event of another schema version is refused before anything is
planned (`supported`); any client may send one. Whether a trigger matches, what the
conditions come to as far as they are evaluated, and whether the providers of all of
them accept them (`valid`) is part of the binding, as an input. `DispatchFollowsPolicy` is a reference definition: it says of
each action, by quantifiers over the configuration and the outcomes, whether it must
have run. `InOrder` sorts by `Rank`, the number of bindings that come before.

`ConfigReload` extends it with the life of the configuration. The file changes by
a rename, by a truncation with a later write, or by removal; the watcher
(`Receive`, `LoadFile`, `Install`) loads it after a notification, decides in
`Accepted` what takes effect, and waits for the lock that dispatches hold. `Start` and
`Register` are separate steps because `main` loads before the watcher's thread has
registered. `DragDaemon` has the other side of the lock, with the connections; there
any configuration may be installed.

### LiveSession (`crates/gesture-cli/src/main.rs`), composed with DragLifecycle

`gestures --dispatch`: the read loop, the delivery of an event in its steps (`send`,
`answer`, `print`), and the way out (`ReleaseGrab`, `CancelDrag`, its delivery, `Exit`),
each step with its failures. `Told` is the shutdown monitor and may come between any
two steps; only the read of the next event looks at it. The recognizer is its
specification `DragLifecycle`, which `DragRecognizer` implements; so what
is shown holds for any recognizer that keeps the lifecycle. The daemon answers
in order, well or badly, late, never, or goes; after a timeout its answer is still
under way and the cleanup will find it. Event ids come back after `Ids` events.

### Mutants

Definitions introduced by "Mutant of X" are not used by any specification. Each
is X with a plausible mistake; replacing X by it violates the property that
`PROJECT.json` names, which shows that the property depends on the code.

## 3. Runs

| Run | Result | Shows |
|---|---|---|
| `pointer` | passes, 6,062 states | two streams, two buttons, events seen before, refused emissions; four parts to a step and a clamp of two steps: halves of both signs, clamped and unclamped steps. Some 60 s, as every step has many deltas |
| `daemon_safety` | passes, 6.3 M states | two clients, two streams, one reload, two refusals; four configurations: all phases bound, none, the phases to different buttons with ends that fail, the release phases left out |
| `daemon_liveness` | passes, 447 k | one stream, two clients, one reload, two refusals, three configurations, children exit |
| `recognizer` | passes, 219 k | five frames a session, eight shapes of frame, three streams, rules enabled and disabled, strict and not |
| `touch_frames` | passes, 2.7 M | two slots, two coordinates per axis, three tracking ids, one uncounted finger: fingers already down, replaced, landing on the coordinate the slot had before |
| `key_chord` | passes, 3,244 | chords of up to three keys, three refusals: a failed emergency release and another chord that fails |
| `proxy` | passes, 2.6 M | three slots, three touches, one uncounted finger, a button, a window of one tick, tracking ids that wrap at three |
| `reload` | passes, 1.9 M | three saves of seven contents, 151 start configurations of up to three bindings: every combination of priority, consumption, verdict and policy; events of the supported and of another schema version |
| `live` | passes, 39 k | no limit, a limit of one and of three; three drags; ids that come back after three events |
| `daemon_shutdown` | violated | ctrl_c in a drag leaves it active, contrary to `docs/GESTURE_RECOGNITION.md:201` |
| `daemon_hung_child` | violated | a reload waits for a child that does not exit, contrary to `README.md:123` |
| `touch_frames_slot` | violated | opened with a finger in slot 0 while the kernel had announced slot 1 last: the motion of that finger is reported as one of a finger that rests, contrary to `docs/TOUCH_FRAMES.md:29-31` |

Bounds. A takeover needs two streams and two buttons; a third stream meets the
same guards as the second. `OnlyOwnEventsEndADrag` needs one client's late
event against another's drag: two clients. One reload suffices because a reload
resets the provider to its initial state, and the configuration before it is
arbitrary (`Init` picks any). Five frames hold a rest, an arming move, a begin,
an update and a frame that breaks the drag, and two segments to compare. For frames two slots are enough for a
contact to be taken for another, three tracking ids for two fingers of which one
is replaced. A third finger on two slots is one without a slot, as on the touchpads
that track two; with three touches a contact can also be replaced while another
stays. The proxy has three slots, so that a third contact could be shown. `Modest` in
`MCTouchFrames` and in `MCTouchpadProxy` bounds what is combined: in the first, the third
touch lands with the pad's fingers all tracked; in the second also with the button up, the
third slot is used by a third touch only, once the pad was clear, and the button is not down
while a finger without a slot is counted. `Near` in `MCPointerProvider` and
`FewStreams` in `MCDragRecognizer` bound sums and drags. Three saves let a
notification be overtaken by a save whose file is taken back by the next. Three
event ids are the fewest with which the two unanswered lines differ in theirs.

The symmetry in `daemon_safety` permutes clients and streams, that in `proxy` the
two coordinates: no definition tells them apart. The view of `proxy` forgets, once
the session is over, what no later step reads. Runs with liveness use neither.

Deadlock is not checked where the system really stops: in the daemon runs every
client may be gone, every connection closed and the daemon stopped; a daemon whose
configuration does not load does not start (`reload`); sessions end (`proxy`,
`live`).

Fairness. `Fairness` asks that a connection's task, when it can run, eventually
does (tokio polls ready tasks) and that the watcher gets the lock it queued for
(the lock is fair and the thread is runnable). It asks nothing of clients, users,
editors or children. `SpecChildrenExit` adds that an awaited child exits; it is
the specification of `daemon_liveness`, and `daemon_hung_child` shows that
without it `ReloadsAreInstalled` is lost. In `LiveSession` fairness is asked of
`Session`, the steps the process takes without input: the runtime polls it, time
passes, so that a dispatch is timed out after `DISPATCH_TIMEOUT`, and what it prints
is read. It asks nothing of fingers, of the daemon or of who may stop the session.
A stop is noticed because the read loop's `select` prefers it: without that
preference `StopsPromptly` fails, and nothing would bound the number of frames read
before the loop ends.

The runtime's shutdown in `Shutdown` rests on tokio's documented behaviour (not
part of the repository): dropping a runtime drops its tasks at their next await
and waits for running blocking tasks, of which the watcher's loop is one.

## 4. Proofs

| Module | Theorem | States |
|---|---|---|
| `DragDaemonProofs` | `PointerTypeCorrect` | `PTypeOK` always |
| | `ProviderHoldsWhatIsDown` | `ButtonsFollowState` always |
| | `MotionTypeCorrect` | `MotionTypeOK` always |
| | `PointerNeverDrifts` | `NoDrift` always |
| | `ProviderIsBothHalves` | `HalvesAgree`: the composition implements both halves |
| | `ProviderIsSafe` | the four above, of the composition |
| | `DaemonTypeCorrect` | `TypeOK` always |
| | `DaemonHoldsWhatIsDown` | `ButtonsFollowState` with clients and reloads |
| | `NoDragIsOrphaned` | `DragOwned` always: under configurations that bind the release phases |
| | `OthersNeverEndADrag` | the action property `OnlyOwnEventsEndADrag` |
| | `LostDragsAreOver` | the action property `LostDragsStayLost` |
| `KeyChordProofs` | `KeyboardTypeCorrect` | `TypeOK` always, and the stale step is unreachable |
| | `KeysAlwaysNest` | `KeysNest` always |
| `DragRecognizerProofs` | `RecognizerImplementsLifecycle` | the refinement `ImplementsLifecycle` |
| | `DragsAreEarned` | the action property `DragFollowsHold` |
| | `MotionAlwaysAddsUp` | `MotionAddsUp` always |
| | `RecognizerTypeCorrect` | `TypeOK` always |
| | `ClassificationIsEarned` | the action property `GesturesAreEarned` |
| `TouchFramesProofs` | `TrackerTypeCorrect` | `TypeOK` always |
| | `FramesAgree` | the action property `FramesMatchThePad`, if slot 0 was announced last |
| | `NoFalseMotion` | the action property `MotionIsReal`, if slot 0 was announced last |
| `TouchpadProxyProofs` | `ProxyTypeCorrect` | `TypeOK` always |
| | `FramesNeverRejected` | `FramesAreValid` always, while tracking ids last |
| | `ReleaseIsClean` | `ReleaseLeavesNothing` always, while tracking ids last |
| | `ThreeFingersNeverShown` | `ThreeFingersHidden` always, on the pads below |
| | `TwoFingersArbitrated` | the action property `TwoFingersWait`, on the pads below |
| | `DesktopSeesPad` | the action property `DesktopFollowsPad`, on the pads below, while tracking ids last |
| `ConfigReloadProofs` | `NoChangeIsLost` | `QuietMeansCurrent` always |
| | `GrantsAreValidated` | the action property `PermissionsAreValidated` |
| | `DaemonStateTypeCorrect` | `TypeOK` always |
| | `DispatchesFollowPolicy` | `DispatchFollowsPolicy` always |
| `LiveSessionProofs` | `SessionTypeCorrect` | `TypeOK` always |
| | `SessionStopsPromptly` | `StopsPromptly` always |
| | `SuccessIsClean` | `SuccessClosesDrags` always |
| | `SessionWritesLifecycles` | the action property `LinesFormLifecycles` |
| | `SessionEarnsAcks` | the action property `AcksAreEarned` |

They hold for every value of the constants: any sets of clients, streams, buttons,
keys, rules, frames and files, any numbers of refusals, reloads, saves and drags,
sessions of any length, any scale, clamp and limit, under the assumptions stated in the modules: the null values are
not members of the sets they extend, the bounds are natural numbers, a step
and a clamp are at least one, there are at least three event ids, coordinates are
integers, the bindings of a configuration are finitely many, the proxy's pad numbers its slots
from 0 and has one axis that matters. TLC evaluates all of
them. Three hypotheses are not of this kind and are written in the theorems that need
them, which are all about what is read from a touchpad:

* `AnnouncedSlots = {0}`: the slot the kernel announced last before the device was
  opened is the one the tracker and the proxy assume. The code does not justify it: the
  run `touch_frames_slot` shows what happens without it.
* `MaxUntracked <= 3`, for the proxy: of six fingers or more at least three have a slot.
  There are tool keys for one finger to five, and beyond that the proxy can only count slots;
  a pad that counted six fingers and tracked two would seem to have two. Pads that count
  fingers without a slot do so by their tool keys: five, two of them tracked.
* `MaxTouches <= MaxTrackingId`, for the proxy: fewer contacts than `i32` has positive
  numbers have been made. Virtual ids start over after that, and the synthesizer does not
  look whether the next one is still in use; two thousand million contacts are more than
  one session sees. The run has ids that wrap at three, after three touches.

`TouchpadProofs` holds what the proofs about both readers of a `Touchpad` rest on.

*PointerDrag.* `PTypeOK` is inductive: it contains that a stream is active
exactly when a button is, which the code keeps in two `Option`s and never
asserts, and that nothing is down on a device that does not exist.
`ButtonsFollowState` is inductive together with it: without the coupling of
stream and button a takeover could not be shown to release the old button. The
proof has one lemma per planning function (the commands it emits, applied to a
set of buttons that satisfies the invariant, yield one that satisfies it for
the next state) and one step per way of emitting.

*PointerMotion.* `NoDrift` is inductive with the type of the variables. Its one
arithmetic fact is that rounding leaves at most half a step, which follows from
the bounds of integer division.

*PointerProvider.* `active <=> state.stream # NoStream` is inductive with
`PTypeOK`. With it every step of the composition is a step of each half or leaves
it as it is; the theorems about the halves then carry over.

*DragDaemon.* A connection may be about to forget a drag or to track another, so
`DragOwned` does not survive a step by itself. `Owner` names the connections that
will still be answerable when their dispatch is over. That a begin makes its
own connection an owner is plain; that forgetting a drag goes with its end needs
three more facts: the lines of a client are not refused (`LinesOK`), an event
is not taken for a repetition when it is none (`LastOK`), and a drag is only active
under a configuration that leads its begin to the pointer (`RouteOK`). That the end then
reaches it is `BindsReleases`, where the property assumes it and nowhere else. The
provider's steps are those of `PointerDrag`.

`LostDragsStayLost` rests on begins: only a begin gives a stream the button. `BeginsOK`
says that there is at most one on its way for each stream, unread, read or under dispatch,
and none once the stream has held the button. No other step makes one: the cleanup of a
connection dispatches a cancel, and a client's later lines are updates and ends.

*KeyChord.* `KeysNest` needs to know which packets are still to come (`Course`):
the presses of the rest of the chord or the releases of a first part of it; and
what is recorded where (`Record`), from which the unreachability of the stale step
follows.

*DragRecognizer.* `update_drag` has many early returns; `UpdateShape` resolves them
into four outcomes, and `Joins`, `Opens` and `Closes` say what a frame in the middle, at
the beginning and at the end of a session comes to. `DragFollowsHold` judges by all
frames of the session, but the code only carries a candidate along: `StandsFor`
says which stretch of frames a candidate stands for, up to the last one, and where
in it the hold became long enough; a frame either extends the stretch or starts a
new one. With `Dragging` (an active drag's session is claimed and its motion
accounted for) every outcome is a step of `DragLifecycle`: the refinement
needs of the classification only that it yields at most one swipe or hold. The
theorem about `LiveSession` assumes no more of the recognizer than that
lifecycle, so the two together reach from the frames to the lines the daemon reads.

The classification is a loop. Its invariant after n frames is `DoneAre`, that the
segments done are the measures of exactly those stretches that ended before frame n,
and `OpenIs`, that the open segment covers the one run that ends with frame n, if
any does. A run is found by what ends it (`OneRun`, `RunEnds`). At the end
nothing is open, because the last frame shows no finger (`SegmentsAre`, `LastIsApart`). `max_by`
and `compare_candidates` find a segment and a rule because `Longer` is a weak order
(`LastLongestIs`, `WinnerIs`). Velocities take no part: `GesturesAreEarned` does not
speak of `minVelocity`.

*TouchFrames.* The tracker is always a few events behind the pad. `Told` says what is
unread: at most one announcement of a slot, and of the contact in it the codes `C`,
each once. Of everything else the tracker's view is right (`Behind`): which slots have
which contact (`KnowsId`), and coordinates that are the kernel's last or not known
yet (`KnowsX`, `KnowsY`). `ReadTold` shows that reading an event takes its code from
`C`, so that nothing is unread at `SYN_REPORT`, where the frame is made. For motion
`Remembered` ties what the last frame left behind to the pad as it was then; contacts
that are the same and located then and now have moved by the difference of the
sums, which is `SumOfDifferences`.

*TouchpadProxy.* A packet is a sequence of events that the validator and the kernel
each fold over. What a fold computes cannot be proved by induction over sequences, so
each has its lemma that the fold over a packet is the fold over its parts (`CheckedConcat`,
`AppliedConcat`), and one that goes slot by slot (`SlotInduction`, `CheckSlotBySlot`,
`ApplySlotBySlot`). `PacketChecked` and `PacketApplied` then say what a whole packet does:
gone contacts end, new ones begin with the next ids, kept ones stay, the button and the
tool key follow. Three views of the virtual touchpad that agree before a packet
that gets through agree after it (`SendAgrees`): `ProxyTypeCorrect`.

Ids are the numbers 1, 2, ... in order (`NumberedUpTo`). That none comes round again
needs a count of those still to be given: `IdsInOrder` says that the contacts already given one and the
contacts of the pad still to be shown are together no more than the pad's touches.
The contacts still to be shown are counted in `Ahead`, the state that `PhysicalState` will
be in once the unread events are read; it does not change when one is read (`ReadAhead`).

`Tracks` says that `Ahead` is the pad: in part while the session began with fingers on it,
completely once the pad was clear. `Counts` says that the tool keys are right when a report ends.
From both, `SettledFingers`: the number of fingers the router decides by is the pad's as far as
it makes a difference, zero, one, two, or more. With it `Modes` is inductive: the
router suppresses exactly while a third finger was down since the pad was clear, shows
nothing then, and has waited no longer than two fingers have been there. That no third
contact is shown, after the second or with it, is an invariant of its own
(`AtMostTwo`): a snapshot is forwarded with fewer than three fingers, and a pending one
has only what is shown already.
`ShownIsKnown` ties the contacts that are shown to the pad at the last report and to what
the kernel holds; a frame is then compared with the one before contact by contact
(`FrameFollows`).

*ConfigReload.* What waits for the lock was validated or grants nothing new
(`GrantsAreValid`), and as long as no notification waits it was made of the
file as it is (`NothingLost`). The write lock matters: `Accepted` compares with the
state in force, and no other step replaces that before it is installed. `TypeOK` bounds
the notifications under way, by `Counted`: a save causes at most two.

*EventEngine.* Three facts about operators come first. Sorting by `Rank` puts the
bindings in order, because a one-to-one map of n things into 1..n meets all of it
(`InOrderSorts`). A `FoldLeft` is a plan made step by step (`ExistsFold`, `PlanGrows`).
With that, `PlansTo` is the loop invariant of `Engine::plan`: after k bindings the plan
has failed if and only if one of them that is reached has a condition in error, and
otherwise lists what those that apply want, in order (`PlanIs`). A dispatch has failed
for that reason or for its event's schema version. `Course` relates
what was planned to what is left of it and what was reported: each planned step was
made, still waits, or was kept from being made by an earlier one that failed and
stops (`AdvanceFits`). At the end of a dispatch nothing waits, and that is
`DispatchFollowsPolicy`.

*LiveSession.* One invariant carries all five. `Drags` says that the lines written so
far leave open what the recognizer believes to be open, up to the event on its
way; `Amounts` and `Identities` bound the unanswered lines and say that the answer to
the event on its way is the last the daemon will give. Without them a late answer
could be taken for that of the cancel.

Only model-checked: all liveness (`DisconnectReleases`, `ReloadsAreInstalled`,
`StopEndsSession`), as the provers do not reason about fairness. Every other property of a passing
run is a theorem. No rule of induction with a property for a
parameter can be used with them. Where a proof needs induction over numbers it
is therefore stated of a set (`Induction`: one that has 0 and with n also n + 1 has
all), which follows from the least element outside it; each recursive function
needs its own lemma that it exists.

## 5. Plan

Done: 1. `PointerDrag` and its proofs. 2. `PointerMotion` and its proof.
3. `DragDaemon`. 4. `Segments`, `DragRecognizer`, `DragLifecycle`. 5. `KeyChord`.
6. `TouchFrames`. 7. `EventEngine` and `ConfigReload`. 8. `LiveSession`.
9. `Touchpad` and `TouchpadProxy`. 10. `PointerProvider`, the composition. 11. Proofs
about the daemon, the keyboard, reloads, live sessions and the recognizer, its
refinement of the lifecycle included. 12. Proofs about the tracker, the plan of the engine,
the state of the configuration and the classification of sessions. 13. Proofs about the
proxy, from the events it reads to the packets it sends.

Next: the bounds of the proxy theorems, one by one: what is left of them on a pad whose last
announced slot is another, and when ids come round again.

## 6. Not modelled

* The socket file: removing a stale one, its permissions, its removal at exit. These
  are file-system calls around one another; two daemons on one path appear in
  `hazards`.
* Parsing and validation of TOML and JSON, the legacy recognizer format: pure
  functions of their text. What they guarantee appears as assumptions
  (`ContentAssumption`, the rules of `Segments`).
* Device enumeration and classification, printing and logging, and the commands
  `replay`, `recognize`, `record`, `devices`, `monitor`, `frames`, `validate`, `inspect`
  and `simulate`: they keep no state that a later step depends on but a counter, or
  are I/O.
* `SYN_DROPPED`: the kernel's notice to a slow reader that events were dropped. The
  `Touchpad` never drops events.
* The second axis, the tool type and the single-touch axes of the proxy, which are
  handled as the modelled axis is; the second axis of the pointer.
* Floating-point error of `f64`, event times set back by the clock, memory (a claimed
  session keeps its frames until it ends).

The kernel and tokio appear as far as the code uses them.
