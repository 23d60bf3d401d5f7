CONSTANTS
    Swipes <- MCSwipes
    Holds <- MCHolds
    Drags <- MCDrags
    Shapes <- MCShapes
    MaxFrames = 5
    NoPoint = NoPoint
    NoTime = NoTime
    Nothing = Nothing
SPECIFICATION Spec
INVARIANT TypeOK
INVARIANT MotionAddsUp
PROPERTY DragFollowsHold
PROPERTY ImplementsLifecycle
PROPERTY GesturesAreEarned
CONSTRAINT FewStreams
