CONSTANTS
    Threshold = 1
    MaxFailures = 1
    NoPrice = NoPrice
    NoPage = NoPage
    NoTag = NoTag
    NoRow = NoRow
    NoAnswer = NoAnswer
    NoAlert = NoAlert
    Tick = Tick
    Forcers = {now}
    Edits = {"target", "size", "enabled"}
    Crashes = TRUE
    Prices = {1}
    Sizes = {"m"}
    Shown <- SoldOut
    Prefs <- SizeOrAny
    Targets = {shoe, hat}
SPECIFICATION Spec
INVARIANTS
    NoOrphanEvents
PROPERTIES
    ChecksKeepSettings
SYMMETRY AnyTarget
VIEW WithoutTheUnread
