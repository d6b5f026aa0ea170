CONSTANTS
    Handles = {a, b, c}
    PageSize = 1
    PageSample = 3
    MaxPages = 2
    NoEntry = NoEntry
    NoBaseline = NoBaseline
    Everything = Everything
    NoTag = NoTag
    Tick = Tick
    Forcers = {}
    StoreLooks = {"on_sale"}
    StoreDates = {"new"}
    Searches <- NoSearch
    Gated = FALSE
    Reshelves = FALSE
    Retargets = FALSE
    Crashes = FALSE
    SlowStart = FALSE
SPECIFICATION Spec
PROPERTIES
    ReleasesAreSpoken
SYMMETRY AnyHandle
