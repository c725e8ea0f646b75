SPECIFICATION FairSpec
CONSTANTS
    Ids = {e1, e2}
    Times = {1, 2, 3}
    NULL = NULL
    MaxNow = 3
INVARIANTS
    TypeOK
    ArmedForEarliest
    SomethingIsNext
    NeverTwice
PROPERTY
    NextRings
