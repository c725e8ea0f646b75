SPECIFICATION Spec
CONSTANTS
    Times <- MCTimes
    Recurrences <- MCRecurrences
    NoRecur = NoRecur
    Uids = {u1, u2}
    Types = {event, todo}
    Starts = {1}
    Absent = Absent
    InstIds = {1}
    MaxComps = 2
INVARIANTS
    TypeOK
    OneLivePerUid
    InstancesExact
    InstancesOnce
    HeldInstancesEditable
PROPERTY Implements
SYMMETRY Perms
