CONSTANTS
    Startups <- Started
    Contents <- Saved
    None = None
    MaxSaves = 3
SPECIFICATION Spec
INVARIANT TypeOK
INVARIANT DispatchFollowsPolicy
INVARIANT QuietMeansCurrent
PROPERTY PermissionsAreValidated
\* A daemon whose configuration does not load does not start.
CHECK_DEADLOCK FALSE
