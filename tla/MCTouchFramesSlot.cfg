CONSTANTS
    Slots <- MCSlots
    Xs <- MCCoordinates
    Ys <- MCCoordinates
    None = None
    AnnouncedSlots <- OnlySlotOne
    MaxTouches = 3
    MaxUntracked = 0
SPECIFICATION Spec
PROPERTY MotionFollowsFingers
