SPECIFICATION Spec
CONSTANTS
    Uids = {u1}
    Times <- MCTimes
    Offsets <- MCOffsets
    Contents <- RuleContents
    Edits <- EndEdits
    MaxClock = 1
INVARIANT InstancesForwards
