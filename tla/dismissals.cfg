CONSTANTS
    Handles = {a, b, c}
    Requests = {phone, laptop}
    Attempts = 3
    NoEvent = NoEvent
    Nothing = Nothing
SPECIFICATION Spec
PROPERTIES
    Linearizable
