SPECIFICATION Spec
CONSTANTS
    MaxIpi = 1
    MaxSpurious = 0
    MaxReload = 0
    JunkCounts = {0}
PROPERTY CommandNotLost
