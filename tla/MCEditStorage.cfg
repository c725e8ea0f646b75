SPECIFICATION Spec
CONSTANTS
    Uids = {u1}
    Times <- MCTimes
    Offsets <- MCOffsets
    Contents <- MCContents
    Edits <- MCEdits
    MaxClock = 1
INVARIANTS
    TypeOK
    LoadMissesNothing
    MemoryMatchesFile
PROPERTY
    EditKeepsForeignChanges
