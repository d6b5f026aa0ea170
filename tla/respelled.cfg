CONSTANTS
    Handles = {a}
    PageSize = 2
    PageSample = 3
    MaxPages = 1
    NoEntry = NoEntry
    NoBaseline = NoBaseline
    Everything = Everything
    NoTag = NoTag
    Tick = Tick
    Forcers = {}
    StoreLooks = {"on_sale", "unflagged", "sold_out", "bare"}
    StoreDates = {"relisted", "undated"}
    Searches <- BuyableOrAny
    Gated = TRUE
    Reshelves = FALSE
    Retargets = TRUE
    Crashes = TRUE
    SlowStart = FALSE
SPECIFICATION Spec
PROPERTIES
    ArrivalsAreUnseen
    WordsAreTrue
