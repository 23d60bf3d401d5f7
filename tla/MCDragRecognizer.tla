-------------------------- MODULE MCDragRecognizer --------------------------
(***************************************************************************)
(* DragRecognizer with rules of each kind for three fingers, some of them  *)
(* disabled, on frames that show three tracked fingers at four places,     *)
(* another set of contacts, a finger without coordinates, two fingers, and *)
(* a frame without a time.                                                 *)
(***************************************************************************)
EXTENDS DragRecognizer

MCSwipes == <<[id |-> "swipe3", enabled |-> TRUE, fingers |-> 3, minDistance |-> 2,
               minVelocity |-> 1, maxDuration |-> 2, strict |-> TRUE],
              [id |-> "flick3", enabled |-> TRUE, fingers |-> 3, minDistance |-> 3,
               minVelocity |-> 1, maxDuration |-> 9, strict |-> FALSE]>>
MCHolds == <<[id |-> "off", enabled |-> FALSE, fingers |-> 3, minDuration |-> 1,
              maxDistance |-> 9, strict |-> FALSE],
             [id |-> "hold3", enabled |-> TRUE, fingers |-> 3, minDuration |-> 2,
              maxDistance |-> 1, strict |-> FALSE]>>
MCDrags == <<[enabled |-> FALSE, fingers |-> 3, minHold |-> 1, maxHoldDistance |-> 9,
              minDragDistance |-> 0, strict |-> FALSE],
             [enabled |-> TRUE, fingers |-> 3, minHold |-> 1, maxHoldDistance |-> 1,
              minDragDistance |-> 2, strict |-> TRUE]>>

Three(x) == [fingers |-> 3, complete |-> TRUE, point |-> x, ids |-> {1, 2, 3}, timed |-> TRUE]

MCShapes ==
    {Three(x) : x \in 0 .. 3}
      \cup {[Three(1) EXCEPT !.ids = {1, 2, 4}],
            [Three(1) EXCEPT !.ids = {1, 2}, !.complete = FALSE],
            [Three(1) EXCEPT !.fingers = 2, !.ids = {1, 2}],
            [Three(3) EXCEPT !.timed = FALSE]}

\* Two drags on record, a third may be in progress.
FewStreams == streams <= 2
=============================================================================
