CONSTANTS
    Threshold = 2
    MaxFailures = 3
    NoPrice = NoPrice
    NoPage = NoPage
    NoTag = NoTag
    NoRow = NoRow
    NoAnswer = NoAnswer
    NoAlert = NoAlert
    Tick = Tick
    Forcers = {}
    Edits = {"enabled"}
    Crashes = FALSE
    Prices = {1, 2}
    Sizes = {"m", "l"}
    Shown <- AnyDoc
    Prefs <- OnlyM
    Targets = {"shoe"}
SPECIFICATION FairSpec
PROPERTIES
    RestockNeedsReturn
    ReturnIsAnnounced
    CheckSettlesState
    PausesAreAnnounced
    FailingIsEarned
    StateConverges
    EveryAlertIsTried
