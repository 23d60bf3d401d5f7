------------------------------ MODULE Segments ------------------------------
(***************************************************************************)
(* Classification of a completed touch session                             *)
(* (crates/gesture-recognition/src/session.rs): the frames of the session  *)
(* are cut into segments in which a number of fingers rests on the same    *)
(* contacts, the longest segment is measured, and the swipe rules and then *)
(* the hold rules compare the measures with their thresholds.              *)
(*                                                                         *)
(* Points lie on a line: a distance is an absolute difference and there is *)
(* no axis to deviate from.  A velocity is compared without dividing.      *)
(***************************************************************************)
EXTENDS Integers, Sequences

CONSTANTS
    Swipes,     \* sequence of swipe rules
    Holds,      \* sequence of hold rules
    NoPoint,    \* a frame without a centroid
    NoTime,     \* a frame without a timestamp
    Nothing     \* no segment, no candidate, no drag

SwipeRule == [id : STRING, enabled : BOOLEAN, fingers : 1 .. 5, minDistance : Nat,
              minVelocity : Nat, maxDuration : Nat \ {0}, strict : BOOLEAN]
HoldRule == [id : STRING, enabled : BOOLEAN, fingers : 1 .. 5, minDuration : Nat \ {0},
             maxDistance : Nat, strict : BOOLEAN]

Dist(a, b) == IF a > b THEN a - b ELSE b - a

\* A frame a rule can use: the right fingers, tracked as strictly as the rule
\* asks, with a time and a place.
Usable(f, fingers, strict) ==
    /\ f.fingers = fingers
    /\ strict => f.complete
    /\ f.time # NoTime
    /\ f.point # NoPoint

-----------------------------------------------------------------------------
(***************************************************************************)
(* The segment builder, one frame at a time.                               *)
(***************************************************************************)
NewSegment(f) ==
    [ids |-> f.ids, points |-> 1, start |-> f.time, last |-> f.time,
     from |-> f.point, to |-> f.point, path |-> 0]

Extend(seg, f) ==
    [seg EXCEPT !.points = @ + 1, !.last = f.time, !.to = f.point,
                !.path = @ + Dist(seg.to, f.point)]

\* SegmentBuilder::finish: a segment counts from two points spread in time.
Counts(seg) == seg # Nothing /\ seg.points >= 2 /\ seg.last > seg.start

Measure(seg) ==
    [points |-> seg.points, duration |-> seg.last - seg.start,
     dx |-> seg.to - seg.from, path |-> seg.path]

Close(done, seg) == IF Counts(seg) THEN Append(done, Measure(seg)) ELSE done

\* Mutant of BuildStep: an unusable frame is skipped and closes nothing.
BuildStepOverGaps(f, acc, fingers, strict) ==
    IF ~Usable(f, fingers, strict) THEN acc
    ELSE IF acc.open = Nothing
    THEN [acc EXCEPT !.open = NewSegment(f)]
    ELSE IF acc.open.ids # f.ids
    THEN [done |-> Close(acc.done, acc.open), open |-> NewSegment(f)]
    ELSE [acc EXCEPT !.open = Extend(acc.open, f)]

\* One iteration of the loop of best_segment_metrics.
BuildStep(f, acc, fingers, strict) ==
    IF ~Usable(f, fingers, strict)
    THEN [done |-> Close(acc.done, acc.open), open |-> Nothing]
    ELSE IF acc.open = Nothing
    THEN [acc EXCEPT !.open = NewSegment(f)]
    ELSE IF acc.open.ids # f.ids
    THEN [done |-> Close(acc.done, acc.open), open |-> NewSegment(f)]
    ELSE [acc EXCEPT !.open = Extend(acc.open, f)]

SegmentsOf(frames, fingers, strict) ==
    LET built[n \in 0 .. Len(frames)] ==
            IF n = 0 THEN [done |-> <<>>, open |-> Nothing]
            ELSE BuildStep(frames[n], built[n - 1], fingers, strict)
        all == built[Len(frames)]
    IN  Close(all.done, all.open)

Longer(a, b) ==
    a.duration > b.duration \/ (a.duration = b.duration /\ a.points > b.points)

\* Of the longest segments max_by returns the last.
LastLongest(segs) ==
    CHOOSE i \in DOMAIN segs :
        /\ \A j \in DOMAIN segs : ~Longer(segs[j], segs[i])
        /\ \A j \in DOMAIN segs : j > i => Longer(segs[i], segs[j])

BestSegment(frames, fingers, strict) ==
    LET segs == SegmentsOf(frames, fingers, strict)
    IN  IF segs = <<>> THEN Nothing ELSE segs[LastLongest(segs)]

-----------------------------------------------------------------------------
(***************************************************************************)
(* The rules.                                                              *)
(***************************************************************************)
Magnitude(x) == IF x < 0 THEN -x ELSE x

IsSwipe(rule, m) ==
    /\ m # Nothing
    /\ Magnitude(m.dx) >= rule.minDistance
    /\ m.path >= rule.minVelocity * m.duration
    /\ m.duration <= rule.maxDuration

IsHold(rule, m) ==
    /\ m # Nothing
    /\ m.duration >= rule.minDuration
    /\ Magnitude(m.dx) <= rule.maxDistance

\* compare_candidates: the longer segment, then the earlier declaration.
Winner(metrics, matching) ==
    CHOOSE i \in matching : \A j \in matching \ {i} :
        \/ Longer(metrics[i], metrics[j])
        \/ ~Longer(metrics[j], metrics[i]) /\ i < j

Direction(dx) == IF dx >= 0 THEN "right" ELSE "left"

\* classify_completed_session: at most one gesture, a swipe before a hold.
Classify(frames) ==
    LET swipe == [i \in DOMAIN Swipes |->
                    BestSegment(frames, Swipes[i].fingers, Swipes[i].strict)]
        hold  == [i \in DOMAIN Holds |->
                    BestSegment(frames, Holds[i].fingers, Holds[i].strict)]
        swiped == {i \in DOMAIN Swipes : Swipes[i].enabled /\ IsSwipe(Swipes[i], swipe[i])}
        held   == {i \in DOMAIN Holds : Holds[i].enabled /\ IsHold(Holds[i], hold[i])}
        s == Winner(swipe, swiped)
        h == Winner(hold, held)
    IN  IF swiped # {}
        THEN <<[kind |-> "swipe", rule |-> Swipes[s].id, direction |-> Direction(swipe[s].dx)]>>
        ELSE IF held # {}
        THEN <<[kind |-> "hold", rule |-> Holds[h].id, direction |-> ""]>>
        ELSE <<>>
=============================================================================
