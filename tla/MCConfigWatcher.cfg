SPECIFICATION Spec
CONSTANTS
    Mains = {m1, m2, bad, gone}
    Unreadable = {gone}
    Unparsable = {bad}
    DocTexts = {d1, d2}
    MaxEdits = 2
    ChannelSize = 1
    BackoffMax = 2
    MaxFailures = 2
    ReadsApart = FALSE
INVARIANTS
    InSync
PROPERTIES
    Converges
    ImplementsSync
CHECK_DEADLOCK FALSE
