\* Two streams contend for two buttons; three refused emissions allow a
\* failed emergency release followed by one more failure.
CONSTANTS
    Streams = {s1, s2}
    NoStream = NoStream
    Buttons = {left, right}
    NoButton = NoButton
    Copies = {1}
    NoEvent = NoEvent
    MaxFaults = 3
    Unit = 4
    MaxDelta = 2
    Deltas <- MCDeltas
SPECIFICATION ProviderSpec
INVARIANT PTypeOK
INVARIANT ButtonsFollowState
INVARIANT MotionTypeOK
INVARIANT NoDrift
PROPERTY HalvesAgree
CONSTRAINT Near
