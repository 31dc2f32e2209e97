SPECIFICATION Spec
CONSTANTS
    RING_N = 3
    MaxKeys = 2
INVARIANT NoStrandedKey
