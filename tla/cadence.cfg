CONSTANTS
    Floor = 35
    Ceiling = 900
    Speedup = 15
    MaxBackoff = 120
    Hot = 45
    Default = 300
    Tiers = {45, 900}
    Jitters = {80, 120}
    RetryAfters <- Hints
    NoHint = NoHint
    Outcomes = {"ok", "failed", "cut", "limited"}
    Tick = Tick
    Forcers = {}
SPECIFICATION FairSpec
PROPERTIES
    CadenceMovesGently
    RefusalIsHeeded
    SpeedIsRegained
