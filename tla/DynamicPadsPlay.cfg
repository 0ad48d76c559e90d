SPECIFICATION FairSpec
CONSTANTS
    s1 = s1
    s2 = s2
    Sources = {s1, s2}
    MaxTracks <- MCMaxTracks
CHECK_DEADLOCK FALSE
INVARIANTS
    TypeOK
    HarmlessSurvive
    QuitHasReason
    EndIsOnTheBus
PROPERTIES
    FilesEnd
    ErrorEnds
