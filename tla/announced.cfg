CONSTANTS
    Handles = {a}
    PageSize = 2
    PageSample = 3
    MaxPages = 1
    NoEntry = NoEntry
    NoBaseline = NoBaseline
    Everything = Everything
    NoTag = NoTag
    Tick = Tick
    Forcers = {}
    StoreLooks = {"on_sale", "unflagged", "sold_out", "staged", "bare"}
    StoreDates = {"new", "relisted", "undated"}
    Searches <- NoSearch
    Gated = TRUE
    Reshelves = FALSE
    Retargets = FALSE
    Crashes = FALSE
    SlowStart = FALSE
SPECIFICATION FairSpec
PROPERTIES
    ReleasesAreSpoken
    LaunchesAreSpaced
    ReleaseIsAnnounced
