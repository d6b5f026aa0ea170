CONSTANTS
    MaxUpdates = 4
    Crashes = TRUE
SPECIFICATION LoginFairSpec
INVARIANTS
    AtMostOnce
    NothingSkipped
    NewestLinkWorks
PROPERTIES
    EveryCommandIsRun
    LinkOpensOnce
