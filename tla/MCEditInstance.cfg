SPECIFICATION Spec
CONSTANTS
    Uids = {u1}
    Times <- MCTimes
    Offsets <- MCOffsets
    Contents <- RuleContents
    Edits <- InstanceEdits
    MaxClock = 1
INVARIANT RepresentationsAgree
