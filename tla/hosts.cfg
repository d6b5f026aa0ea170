CONSTANTS
    Fetches = {f1, f2, f3}
    Concurrency = 2
    MinGap = 2
    Retries = 1
    MaxPause = 1
    f1 = f1
    f2 = f2
    f3 = f3
SPECIFICATION FairSpec
INVARIANTS
    TypeOK
PROPERTIES
    RequestsAreSpaced
    EveryFetchEnds
