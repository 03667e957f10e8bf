SPECIFICATION Spec
CONSTANTS
    Readers = {r1, r2}
    Writers = {w1, w2}
    MaxVersion = 2
INVARIANTS ReadsAreWhole
