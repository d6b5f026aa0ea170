CONSTANTS
    vendors = vendors
    max_price = max_price
    p = p
    q = q
    Names = {p, q}
    NoName = NoName
    NoWatch = NoWatch
    Unsaid = Unsaid
    SearchKeys = {vendors, max_price}
    StarKeys = {palette, max_landed}
    HasKey = FALSE
    MaxHops = 2
    Addresses <- Pasted
    Worlds <- Sampled
    Wishes <- Asked
    Overtaking = FALSE
SPECIFICATION FairSpec
INVARIANTS
    AddedCanBeRead
    SilenceIsNoNews
    SettingsStandAsSaid
PROPERTIES
    SearchIsNeverIgnored
    AddedAsWhatItIs
    EveryPasteIsAnswered
