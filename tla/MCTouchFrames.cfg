CONSTANTS
    Slots <- MCSlots
    Xs <- MCCoordinates
    Ys <- MCCoordinates
    None = None
    AnnouncedSlots <- OnlySlotZero
    MaxTouches = 3
    MaxUntracked = 1
SPECIFICATION Spec
INVARIANT TypeOK
PROPERTY FramesMatchThePad
PROPERTY MotionIsReal
CONSTRAINT Modest
