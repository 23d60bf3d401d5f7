-------------------------- MODULE MCTouchpadProxy --------------------------
(* TouchpadProxy on three slots and one finger more than has a slot.       *)
EXTENDS TouchpadProxy

CONSTANTS x1, x2

MCSlots == 0 .. 2
MCCoordinates == {x1, x2}
Swap == Permutations(MCCoordinates)
MCOneCoordinate == {0}
OnlySlotZero == {0}

\* After the session the proxy looks at its views of the virtual touchpad only.
StateView ==
    IF session = "open" THEN <<session, vars>>
    ELSE <<session, virtual, active, device, rejected, refused>>

\* Either the button or a finger without a slot takes part, and neither of them
\* once a third contact has landed; only a third lands in the third slot, once
\* the pad was clear.
Modest ==
    /\ ~click \/ untracked = 0
    /\ touches = MaxTouches => ~click /\ untracked = 0
    /\ 2 \in DOMAIN pad => touches = MaxTouches /\ settled
=============================================================================
