CONSTANTS
    left = left
    right = right
    Streams = {s1}
    NoStream = NoStream
    Buttons = {left, right}
    NoButton = NoButton
    Copies = {1}
    NoEvent = NoEvent
    MaxFaults = 2
    Clients = {c1, c2}
    Configs <- MCFewConfigs
    NoConfig = NoConfig
    Task = Task
    MaxReloads = 1
SPECIFICATION SpecChildrenExit
PROPERTY DisconnectReleases
PROPERTY ReloadsAreInstalled
\* Every client may be gone, every connection closed and the daemon stopped.
CHECK_DEADLOCK FALSE
