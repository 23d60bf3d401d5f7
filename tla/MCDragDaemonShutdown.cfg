CONSTANTS
    left = left
    right = right
    Streams = {s1}
    NoStream = NoStream
    Buttons = {left, right}
    NoButton = NoButton
    Copies = {1}
    NoEvent = NoEvent
    MaxFaults = 0
    Clients = {c1, c2}
    Configs <- MCTwoConfigs
    NoConfig = NoConfig
    Task = Task
    MaxReloads = 1
SPECIFICATION SpecChildrenExit
PROPERTY ShutdownReleases
\* Every client may be gone, every connection closed and the daemon stopped.
CHECK_DEADLOCK FALSE
