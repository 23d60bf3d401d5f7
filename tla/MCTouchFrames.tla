---------------------------- MODULE MCTouchFrames ----------------------------
\* Small pads for TouchFrames.
EXTENDS TouchFrames

MCSlots == 0 .. 1
MCCoordinates == 0 .. 1
OnlySlotZero == {0}
OnlySlotOne == {1}

\* A finger without a slot takes part until a third contact has landed.
Modest == touches = MaxTouches => untracked = 0
=============================================================================
