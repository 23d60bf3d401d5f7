CONSTANTS
    left = left
    right = right
    Streams = {s1, s2}
    NoStream = NoStream
    Buttons = {left, right}
    NoButton = NoButton
    Copies = {1}
    NoEvent = NoEvent
    MaxFaults = 2
    Clients = {c1, c2}
    Configs <- MCConfigs
    NoConfig = NoConfig
    Task = Task
    MaxReloads = 1
SPECIFICATION Spec
INVARIANT TypeOK
INVARIANT DragOwned
PROPERTY OnlyOwnEventsEndADrag
PROPERTY LostDragsStayLost
\* Every client may be gone, every connection closed and the daemon stopped.
SYMMETRY Symmetry
CHECK_DEADLOCK FALSE
