SPECIFICATION Spec
CONSTANTS
    a = a
    b = b
    e1 = e1
    none = none
    NoCheck = none
    Live <- MCLive
    Endpoints = {e1}
    Configs <- MCConfigs
    MaxGen = 2
    Requests = {r1}
    MaxArrivals = 1
    MaxFlips = 2
INVARIANTS
    GenerationsAgree
PROPERTIES
    KnownDownCarried
    HealthConverges
    GaugeCatchesUp
CHECK_DEADLOCK FALSE
