CONSTANTS
    Limits = {0, 1, 3}
    MaxStreams = 3
    Ids = 3
SPECIFICATION Spec
INVARIANT TypeOK
INVARIANT SuccessClosesDrags
INVARIANT StopsPromptly
PROPERTY LinesFormLifecycles
PROPERTY AcksAreEarned
PROPERTY StopEndsSession
\* The session ends.
CHECK_DEADLOCK FALSE
