SPECIFICATION Spec
CONSTANTS
    Request = {r1, r2}
    File = {f1, f2}
    Most = 3
SYMMETRY TransferSymmetry
\* When every request is answered nothing happens.
CHECK_DEADLOCK FALSE
INVARIANTS Intact
