CONSTANTS
    h1 = h1
    h2 = h2
    Hooks = {h1, h2}
    Nobody = Nobody
    Sweeps <- MCSweeps
    MaxReruns = 2
SPECIFICATION Spec
PROPERTIES ErrorsReported
