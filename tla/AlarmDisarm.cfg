SPECIFICATION FairSpec
CONSTANTS
    Ids = {e1, e2}
    Times = {1, 2}
    NULL = NULL
    MaxNow = 2
INVARIANT AlarmNextKnown
