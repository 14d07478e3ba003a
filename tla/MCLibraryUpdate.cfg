CONSTANTS
    h1 = h1
    h2 = h2
    h3 = h3
    Hooks = {h1, h2, h3}
    Nobody = Nobody
    Sweeps <- MCSweeps
    MaxReruns = 2
SPECIFICATION Spec
INVARIANTS TypeOK OneSweeper NothingForgotten
PROPERTIES EveryHookEnds
