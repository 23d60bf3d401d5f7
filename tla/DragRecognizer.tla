--------------------------- MODULE DragRecognizer ---------------------------
(***************************************************************************)
(* GestureRecognizer (crates/gesture-recognition/src/session.rs): touch    *)
(* frames go in one at a time and gesture events come out.  While fingers  *)
(* rest, a drag rule watches for a hold and then for movement; a drag that *)
(* has begun reports every frame until it ends or is cancelled, and owns   *)
(* its touch session; any other session is classified when it ends.        *)
(***************************************************************************)
EXTENDS Segments

CONSTANTS
    Drags,      \* sequence of drag rules
    Shapes,     \* what a frame can show: see ShapeAssumption
    MaxFrames   \* bound: frames in one session

DragRule == [enabled : BOOLEAN, fingers : 1 .. 5, minHold : Nat \ {0},
             maxHoldDistance : Nat, minDragDistance : Nat, strict : BOOLEAN]

\* RecognizerConfig::validate: no two enabled drag rules for the same fingers.
ASSUME RuleAssumption ==
    /\ Swipes \in Seq(SwipeRule)
    /\ Holds \in Seq(HoldRule)
    /\ Drags \in Seq(DragRule)
    /\ \A i, j \in DOMAIN Drags :
          Drags[i].enabled /\ Drags[j].enabled /\ Drags[i].fingers = Drags[j].fingers => i = j

\* A shape is a frame without its phase and time: how many fingers, whether
\* all of them have coordinates, the centroid, the contacts it is made of,
\* and whether the frame has a timestamp at all.
ASSUME ShapeAssumption ==
    \A s \in Shapes :
        /\ s.fingers \in 1 .. 5
        /\ s.complete \in BOOLEAN
        /\ s.point \in Int \cup {NoPoint}
        /\ s.timed \in BOOLEAN

ASSUME MaxFramesAssumption == MaxFrames \in Nat \ {0}

VARIABLES
    session,    \* the frames since the session began
    candidate,  \* drag_candidate
    active,     \* active_drag
    claimed,    \* session_claimed
    out,        \* the events the last call returned
    streams,    \* history: drags begun, the source of fresh stream ids
    travelled   \* history: sum of the deltas reported for the active drag

vars == <<session, candidate, active, claimed, out, streams, travelled>>

Contacts == {s.ids : s \in Shapes}

DragCandidate == [rule : DOMAIN Drags, start : Nat, from : Int,
                  armed : Int \cup {NoPoint}, ids : Contacts]

ActiveDrag == [stream : Nat \ {0}, rule : DOMAIN Drags, origin : Int, last : Int,
               ids : Contacts]

\* SegmentBuilder and GestureSessionMetrics, of the classification.
Segment == [ids : Contacts, points : Nat, start : Nat, last : Nat, from : Int, to : Int,
            path : Nat]

Metrics == [points : Nat, duration : Int, dx : Int, path : Nat]

ASSUME NullAssumption ==
    /\ NoPoint \notin Int
    /\ NoTime \notin Nat
    /\ Nothing \notin DragCandidate \cup ActiveDrag \cup Segment \cup Metrics

-----------------------------------------------------------------------------
(***************************************************************************)
(* Events and the drag state.                                              *)
(***************************************************************************)
DragEvent(kind, a, delta) ==
    [kind |-> kind, stream |-> a.stream, delta |-> delta, total |-> a.last - a.origin]

\* finish_event: no motion of its own.
Finish(kind, a) == <<DragEvent(kind, a, 0)>>

CancelActive(a) == IF a = Nothing THEN <<>> ELSE Finish("cancel", a)

NewCandidate(i, f) ==
    [rule |-> i, start |-> f.time, from |-> f.point, armed |-> NoPoint, ids |-> f.ids]

\* The first enabled rule for the frame's fingers and tracking.
RulesFor(f) ==
    {i \in DOMAIN Drags : /\ Drags[i].enabled
                          /\ f.fingers = Drags[i].fingers
                          /\ Drags[i].strict => f.complete}

FirstOf(S) == CHOOSE i \in S : \A j \in S : i <= j

\* What update_drag leaves behind: candidate, active drag, claim and events.
Result(c, a, k, events) == [candidate |-> c, active |-> a, claimed |-> k, events |-> events]

-----------------------------------------------------------------------------
(***************************************************************************)
(* update_drag with a drag in progress.                                    *)
(***************************************************************************)
StillDragging(f, a) ==
    /\ Usable(f, Drags[a.rule].fingers, Drags[a.rule].strict)
    /\ f.ids = a.ids

\* Mutant of Continue: a drag that cannot go on is dropped without an event.
ContinueOrDrop(f, c, a, k) ==
    IF f.phase = "end" THEN Result(c, Nothing, TRUE, Finish("end", a))
    ELSE IF ~StillDragging(f, a) THEN Result(c, Nothing, TRUE, <<>>)
    ELSE LET moved == [a EXCEPT !.last = f.point]
         IN  Result(c, moved, k, <<DragEvent("update", moved, f.point - a.last)>>)

Continue(f, c, a, k) ==
    IF f.phase = "end" THEN Result(c, Nothing, TRUE, Finish("end", a))
    ELSE IF ~StillDragging(f, a) THEN Result(c, Nothing, TRUE, Finish("cancel", a))
    ELSE LET moved == [a EXCEPT !.last = f.point]
         IN  Result(c, moved, k, <<DragEvent("update", moved, f.point - a.last)>>)

(***************************************************************************)
(* update_drag without one: hold, arm, and begin.                          *)
(***************************************************************************)
\* The candidate after this frame: armed where the hold became long enough.
Arm(c, f) ==
    IF c.armed = NoPoint /\ f.time - c.start >= Drags[c.rule].minHold
    THEN [c EXCEPT !.armed = f.point]
    ELSE c

\* Mutant of NewDrag: the origin is where the hold started.
NewDragFromHold(c, f) ==
    [stream |-> streams + 1, rule |-> c.rule, origin |-> c.from, last |-> f.point,
     ids |-> c.ids]

\* ActiveDrag::new: the drag's origin is where it was armed.
NewDrag(c, f) ==
    [stream |-> streams + 1, rule |-> c.rule, origin |-> c.armed, last |-> f.point,
     ids |-> c.ids]

\* Mutant of Watch: the candidate survives a change of contacts.
WatchAnyContacts(f, c, i) ==
    IF c = Nothing \/ c.rule # i
    THEN Result(NewCandidate(i, f), Nothing, FALSE, <<>>)
    ELSE IF c.armed = NoPoint /\ Dist(c.from, f.point) > Drags[i].maxHoldDistance
    THEN Result(NewCandidate(i, f), Nothing, FALSE, <<>>)
    ELSE LET held == Arm(c, f)
             drag == NewDrag(held, f)
         IN  IF held.armed = NoPoint \/ Dist(held.armed, f.point) < Drags[i].minDragDistance
             THEN Result(held, Nothing, FALSE, <<>>)
             ELSE Result(Nothing, drag, TRUE,
                         <<DragEvent("begin", drag, f.point - held.armed)>>)

Watch(f, c, i) ==
    IF c = Nothing \/ c.rule # i \/ c.ids # f.ids
    THEN Result(NewCandidate(i, f), Nothing, FALSE, <<>>)
    ELSE IF c.armed = NoPoint /\ Dist(c.from, f.point) > Drags[i].maxHoldDistance
    THEN Result(NewCandidate(i, f), Nothing, FALSE, <<>>)
    ELSE LET held == Arm(c, f)
             drag == NewDrag(held, f)
         IN  IF held.armed = NoPoint \/ Dist(held.armed, f.point) < Drags[i].minDragDistance
             THEN Result(held, Nothing, FALSE, <<>>)
             ELSE Result(Nothing, drag, TRUE,
                         <<DragEvent("begin", drag, f.point - held.armed)>>)

UpdateDrag(f, c, a, k) ==
    IF a # Nothing THEN Continue(f, c, a, k)
    ELSE IF \/ k
            \/ f.phase = "end"
            \/ RulesFor(f) = {}
            \/ f.time = NoTime
            \/ f.point = NoPoint
    THEN Result(Nothing, Nothing, k, <<>>)
    ELSE Watch(f, c, FirstOf(RulesFor(f)))

-----------------------------------------------------------------------------
(***************************************************************************)
(* push and cancel.                                                        *)
(***************************************************************************)
\* The history of the motion reported for the drag that is active next.
Travel(before, a, events) ==
    IF a = Nothing \/ events = <<>> THEN 0
    ELSE IF events[Len(events)].kind = "begin" THEN events[Len(events)].delta
    ELSE before + events[Len(events)].delta

\* A frame of a session: it joins the session, may move a drag along, and
\* closes the session when it is the last.
Accept(f, frames, c, a, k, reset) ==
    LET u == UpdateDrag(f, c, a, k)
        events == reset \o u.events
        ends == f.phase = "end"
    IN  /\ session' = IF ends THEN <<>> ELSE Append(frames, f)
        /\ candidate' = IF ends THEN Nothing ELSE u.candidate
        /\ active' = IF ends THEN Nothing ELSE u.active
        /\ claimed' = (~ends /\ u.claimed)
        /\ out' = IF ends /\ ~u.claimed
                  THEN events \o Classify(Append(frames, f)) ELSE events
        /\ streams' = IF a = Nothing /\ u.active # Nothing THEN streams + 1 ELSE streams
        /\ travelled' = Travel(travelled, active', events)

Push(f) ==
    IF f.phase = "begin"
    THEN Accept(f, <<>>, Nothing, Nothing, FALSE, CancelActive(active))
    ELSE IF session = <<>> /\ f.fingers = 0
    THEN out' = <<>> /\ UNCHANGED <<session, candidate, active, claimed, streams, travelled>>
    ELSE Accept(f, session, candidate, active, claimed, <<>>)

\* Times count frames of the session; frames without a timestamp exist.
Frame(phase, s, n) ==
    [phase |-> phase, fingers |-> s.fingers, complete |-> s.complete,
     point |-> s.point, ids |-> s.ids, time |-> IF s.timed THEN n ELSE NoTime]

\* All fingers are up; nothing has coordinates.
LastFrame(timed, n) ==
    [phase |-> "end", fingers |-> 0, complete |-> TRUE, point |-> NoPoint, ids |-> {},
     time |-> IF timed THEN n ELSE NoTime]

FirstFrames == {Frame("begin", s, 1) : s \in Shapes}

PushBegin == \E f \in FirstFrames : Push(f)

PushUpdate ==
    /\ Len(session) < MaxFrames
    /\ \E s \in Shapes : Push(Frame("update", s, Len(session) + 1))

PushEnd == \E timed \in BOOLEAN : Push(LastFrame(timed, Len(session) + 1))

\* Mutant of Cancel: the candidate is kept for the next session.
CancelKeepingCandidate ==
    /\ out' = CancelActive(active)
    /\ session' = <<>>
    /\ active' = Nothing
    /\ claimed' = FALSE
    /\ travelled' = 0
    /\ UNCHANGED <<candidate, streams>>

\* cancel(): the caller abandons the stream of frames.
Cancel ==
    /\ out' = CancelActive(active)
    /\ session' = <<>>
    /\ candidate' = Nothing
    /\ active' = Nothing
    /\ claimed' = FALSE
    /\ travelled' = 0
    /\ UNCHANGED streams

Init ==
    /\ session = <<>>
    /\ candidate = Nothing
    /\ active = Nothing
    /\ claimed = FALSE
    /\ out = <<>>
    /\ streams = 0
    /\ travelled = 0

Next == PushBegin \/ PushUpdate \/ PushEnd \/ Cancel

Spec == Init /\ [][Next]_vars

-----------------------------------------------------------------------------
(***************************************************************************)
(* Properties.                                                             *)
(***************************************************************************)
\* The recognizer's parts agree: a drag is active only in a session it has
\* claimed and never beside a candidate, and a candidate watches the contacts
\* of the session's last frame.
TypeOK ==
    /\ Len(session) <= MaxFrames
    /\ claimed \in BOOLEAN
    /\ streams \in Nat
    /\ active # Nothing => claimed /\ session # <<>> /\ active.stream = streams
    /\ candidate # Nothing =>
          /\ active = Nothing /\ ~claimed /\ session # <<>>
          /\ candidate.ids = session[Len(session)].ids

\* The reference for a begin: some stretch of the session up to its last frame
\* has the rule's fingers and tracking on the same contacts, starts with a
\* rest of at least minHold within maxHoldDistance of its first frame, and
\* moves at least minDragDistance from the frame that completed the rest.
HeldThenMoved(frames, rule) ==
    LET n == Len(frames)
        At(i) == frames[i]
        Rest(i, j) ==
            /\ At(j).time - At(i).time >= rule.minHold
            /\ \A m \in i .. j : Dist(At(i).point, At(m).point) <= rule.maxHoldDistance
    IN  \E i \in 1 .. n : \E j \in i .. n :
            /\ \A m \in i .. n : /\ Usable(At(m), rule.fingers, rule.strict)
                                 /\ At(m).ids = At(i).ids
            /\ Rest(i, j)
            /\ \A m \in i .. j - 1 : ~Rest(i, m)
            /\ Dist(At(j).point, At(n).point) >= rule.minDragDistance

\* A drag begins only after a stable hold followed by movement, judged from
\* all the frames of the session and not from the candidate that update_drag
\* carries along: no finger change, lost contact, missing time or wandering
\* in between goes unnoticed.
DragFollowsHold ==
    [][active = Nothing /\ active' # Nothing =>
          HeldThenMoved(session', Drags[active'.rule])]_vars

\* No motion is lost or counted twice: the deltas reported for the active
\* drag add up to the way from where it was armed to the finger's last place,
\* which is the total every event carries.
MotionAddsUp ==
    active # Nothing =>
        /\ travelled = active.last - active.origin
        /\ active.last = session[Len(session)].point

\* The reference for the classification: the longest stretches in which every
\* frame is usable under a rule and shows the same contacts, and which cannot
\* be extended.  As a pair of indices; several may be equally long.
Stretches(frames, rule) ==
    LET Same(i, j) == \A m \in i .. j : /\ Usable(frames[m], rule.fingers, rule.strict)
                                       /\ frames[m].ids = frames[i].ids
    IN  {r \in (DOMAIN frames) \X (DOMAIN frames) :
            /\ r[1] < r[2] /\ Same(r[1], r[2])
            /\ r[1] = 1 \/ ~Same(r[1] - 1, r[2])
            /\ r[2] = Len(frames) \/ ~Same(r[1], r[2] + 1)}

Lasts(frames, r) == frames[r[2]].time - frames[r[1]].time

Longest(frames, rule) ==
    {r \in Stretches(frames, rule) :
        \A q \in Stretches(frames, rule) : Lasts(frames, q) <= Lasts(frames, r)}

Way(frames, r) == frames[r[2]].point - frames[r[1]].point

SwipesAlong(frames, rule, r) ==
    /\ Dist(frames[r[1]].point, frames[r[2]].point) >= rule.minDistance
    /\ Lasts(frames, r) <= rule.maxDuration

HoldsAlong(frames, rule, r) ==
    /\ Dist(frames[r[1]].point, frames[r[2]].point) <= rule.maxDistance
    /\ Lasts(frames, r) >= rule.minDuration

\* A completed session that no drag claimed is judged by its longest stretch
\* of steady contacts, over all of its frames: a swipe or a hold names an
\* enabled rule that the stretch satisfies, in the direction the fingers went,
\* and a hold that every longest stretch satisfies is not passed over in
\* silence (short stretches, lost contacts and frames without a time neither
\* earn a gesture nor hide one).
GesturesAreEarned ==
    [][PushEnd /\ session # <<>> /\ ~claimed =>
          LET g == out'
          IN  /\ \A n \in DOMAIN g : g[n].kind = "swipe" =>
                    \E i \in DOMAIN Swipes : \E r \in Longest(session, Swipes[i]) :
                       /\ Swipes[i].enabled /\ Swipes[i].id = g[n].rule
                       /\ SwipesAlong(session, Swipes[i], r)
                       /\ g[n].direction = Direction(Way(session, r))
              /\ \A n \in DOMAIN g : g[n].kind = "hold" =>
                    \E i \in DOMAIN Holds : \E r \in Longest(session, Holds[i]) :
                       /\ Holds[i].enabled /\ Holds[i].id = g[n].rule
                       /\ HoldsAlong(session, Holds[i], r)
              /\ (\E i \in DOMAIN Holds :
                    /\ Holds[i].enabled
                    /\ Longest(session, Holds[i]) # {}
                    /\ \A r \in Longest(session, Holds[i]) : HoldsAlong(session, Holds[i], r))
                 => g # <<>>]_vars

\* Events as the lifecycle has them.
Seen(events) ==
    [i \in DOMAIN events |->
        [kind |-> events[i].kind,
         stream |-> IF events[i].kind \in {"swipe", "hold"} THEN 0 ELSE events[i].stream]]

\* The recognizer's state seen as a lifecycle.
Lifecycle == INSTANCE DragLifecycle WITH
    touching <- session # <<>>,
    open     <- IF active = Nothing THEN 0 ELSE active.stream,
    owned    <- claimed,
    begun    <- streams,
    out      <- Seen(out)

\* The recognizer implements the lifecycle it documents: streams open one at
\* a time, always close, and keep swipes and holds out of their session, in
\* whatever order frames and cancel calls arrive.  An open drag answers every
\* frame, and the first frame that does not continue it releases it at once.
ImplementsLifecycle == Lifecycle!Spec
=============================================================================
