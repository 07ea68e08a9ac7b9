SPECIFICATION Spec
CONSTANTS
    Surfaces = {s1, s2}
    MaxChurn = 2
INVARIANTS NeverUnenforced FinalReceiptIsReal
PROPERTIES WritesFindWhatWasPlanned
SYMMETRY SurfaceSymmetry
