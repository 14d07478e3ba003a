SPECIFICATION Spec
CONSTANTS
    Callers = {c1, c2, c3}
    Kinds <- Everything
SYMMETRY Threads
INVARIANTS TypeOK DownIsExplained
PROPERTY KeepsPromise
