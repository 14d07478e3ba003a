SPECIFICATION Spec
CONSTANTS
    Pages = {p1, p2, p3}
SYMMETRY Editors
INVARIANTS TypeOK WholeCopy SavedIsLoaded
