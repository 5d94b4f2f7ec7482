CONSTANTS
    Tasks = {t1, t2}
    Wires = {w1, w2}
    Users = {u1, u2}
    MinNetId = 1
    MaxNetId = 3
SYMMETRY Symmetry
SPECIFICATION Spec
INVARIANTS TypeOK Exclusive Accounted
