SPECIFICATION Spec
CONSTANTS
    Mains = {m1, gone}
    Unreadable = {gone}
    Unparsable = {}
    DocTexts = {d1, d2}
    MaxEdits = 2
    ChannelSize = 1
    BackoffMax = 2
    MaxFailures = 2
    ReadsApart = TRUE
PROPERTIES
    DeferredRetried
CHECK_DEADLOCK FALSE
