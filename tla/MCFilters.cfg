SPECIFICATION Spec
CONSTANTS
    None = None
    Text = Text
    Settings <- MCSettings
    Values <- MCValues
    Number <- MCNumber
    Millis = 2
    MaxGap = 3
    MaxTime = 12
INVARIANTS HeardInTime RareOverrides
CHECK_DEADLOCK FALSE
