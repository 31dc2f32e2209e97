SPECIFICATION ClintSpec
CONSTANTS
    Base = 3
    MaxHi = 2
INVARIANTS
    ReadNotTorn
    NoTornCompare
