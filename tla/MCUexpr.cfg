SPECIFICATION Spec
CONSTANTS
    Files <- MCFiles
    Beginnings <- MCBeginnings
    Configs <- MCConfigs
    Components <- MCComponents
    Edits <- MCEdits
    Short <- MCShort
    MaxShort = 4
    Alphabet = {"a", "$", "~", "&", "(", ")", "[", "]", "{", "}", ","}
INVARIANTS
    TypeOK
    RefsCountHolders
    NothingGone
    ReadsAsWritten
    SettingsAreOwn
    FiltersMeanWhatTheySay
PROPERTIES
    FilterOnlyLooks
    OnlyAskedEdits
CHECK_DEADLOCK FALSE
