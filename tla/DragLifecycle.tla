--------------------------- MODULE DragLifecycle ---------------------------
(***************************************************************************)
(* What the recognizer promises its consumers                              *)
(* (docs/GESTURE_RECOGNITION.md, "Continuous drag rules"): the events of a *)
(* drag form a lifecycle begin, update*, then end or cancel under a stream *)
(* id of its own; at most one drag is open; a drag that began owns its     *)
(* touch session, which then yields no swipe or hold; and a call answers   *)
(* with at most one event.                                                 *)
(***************************************************************************)
EXTENDS Naturals, Sequences

VARIABLES
    touching,   \* a touch session is in progress
    open,       \* the stream of the open drag, 0 when there is none
    owned,      \* the session belongs to a drag that began in it
    begun,      \* streams begun so far
    out         \* the answer to the last call: kinds of event and streams

vars == <<touching, open, owned, begun, out>>

Silence == <<>>
One(kind, stream) == <<[kind |-> kind, stream |-> stream]>>

\* The first fingers land; a drag that is still open is given up.
Land ==
    /\ touching' = TRUE
    /\ owned' = FALSE
    /\ open' = 0
    /\ out' = IF open = 0 THEN Silence ELSE One("cancel", open)
    /\ UNCHANGED begun

\* Fingers stay on the device.  An open drag always has something to say.
Stay ==
    /\ touching' = TRUE
    /\ \/ /\ open = 0 /\ ~owned
          /\ begun' = begun + 1
          /\ open' = begun + 1
          /\ owned' = TRUE
          /\ out' = One("begin", begun + 1)
       \/ /\ open # 0
          /\ out' = One("update", open)
          /\ UNCHANGED <<open, owned, begun>>
       \/ /\ open # 0
          /\ out' = One("cancel", open)
          /\ open' = 0
          /\ UNCHANGED <<owned, begun>>
       \/ /\ open = 0
          /\ out' = Silence
          /\ UNCHANGED <<open, owned, begun>>

\* The last finger leaves.
Leave ==
    /\ touching
    /\ touching' = FALSE
    /\ open' = 0
    /\ owned' = FALSE
    /\ \/ open # 0 /\ out' = One("end", open)
       \/ open = 0 /\ out' = Silence
       \/ open = 0 /\ ~owned /\ \E kind \in {"swipe", "hold"} : out' = One(kind, 0)
    /\ UNCHANGED begun

\* The caller abandons the input.
Abandon ==
    /\ touching' = FALSE
    /\ open' = 0
    /\ owned' = FALSE
    /\ out' = IF open = 0 THEN Silence ELSE One("cancel", open)
    /\ UNCHANGED begun

\* Nothing is on the device and nothing happens.
Idle == ~touching /\ out' = Silence /\ UNCHANGED <<touching, open, owned, begun>>

Init ==
    /\ touching = FALSE
    /\ open = 0
    /\ owned = FALSE
    /\ begun = 0
    /\ out = Silence

Next == Land \/ Stay \/ Leave \/ Abandon \/ Idle

Spec == Init /\ [][Next]_vars
=============================================================================
