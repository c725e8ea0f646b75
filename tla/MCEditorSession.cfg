SPECIFICATION Spec
CONSTANTS
    Cals = {1}
    Uids = {"u1", "u2"}
    Minute = 2
    DayLen = 4
    Back = 10
    Hour = 2
    Days <- MCDays
    Contents <- MCContents
    Drafts <- MCDrafts
    Statuses = {"completed"}
    Empty = Empty
    Blank = Blank
    Removal = Removal
    Swallowed = Swallowed
    NoComp = NoComp
    NoDraft = NoDraft
    NoUid = NoUid
INVARIANTS
    TypeOK
    DraftKept
    OneEditPerEditor
    UntouchedChangesNothing
