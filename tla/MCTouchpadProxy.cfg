CONSTANTS
    Slots <- MCSlots
    Xs <- MCCoordinates
    Ys <- MCOneCoordinate
    x1 = x1
    x2 = x2
    None = None
    AnnouncedSlots <- OnlySlotZero
    MaxTouches = 3
    MaxUntracked = 1
    Window = 1
    MaxTrackingId = 3
SPECIFICATION Spec
CONSTRAINT Modest
VIEW StateView
SYMMETRY Swap
INVARIANT TypeOK
INVARIANT FramesAreValid
INVARIANT ThreeFingersHidden
INVARIANT ReleaseLeavesNothing
PROPERTY TwoFingersWait
PROPERTY DesktopFollowsPad
\* The session ends.
CHECK_DEADLOCK FALSE
