CONSTANTS
    Commits = {c0, c1, c2}
    First = c0
    Versions = {v1, v2}
    Units = {u1}
    None = None
    c0 = c0
    c1 = c1
    c2 = c2
    v1 = v1
    v2 = v2
    u1 = u1
SPECIFICATION FairSpec
INVARIANTS
    OnlyTestedRuns
    RollbackIsWhole
    ToldOnce
PROPERTIES
    PushIsAnswered
