SPECIFICATION Spec
CONSTANTS
    k1 = k1
    k2 = k2
    CheckOrder <- TwoChecks
    Sustained = 2
    MaxFaults = 2
    MaxPosts <- PostBounds
INVARIANTS TypeOK ShownAgrees
PROPERTY LastingFailureIsSeen
