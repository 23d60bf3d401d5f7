\* Three refusals: a failed emergency release and one more failure.
CONSTANTS
    Keys = {k1, k2, k3}
    MaxKeys = 3
    MaxFaults = 3
SPECIFICATION Spec
INVARIANT TypeOK
INVARIANT KeysNest
