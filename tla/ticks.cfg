CONSTANTS
    Watches = {v, w}
    Limit = 1
    Slots = 1
    Tick = Tick
    Forcers = {now}
    Hurries = TRUE
    Toggles = TRUE
SPECIFICATION PollingFairSpec
PROPERTIES
    NoOverlap
    EveryDueWatchIsChecked
    OutageIsReported
