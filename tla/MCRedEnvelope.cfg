CONSTANTS
    Packets = {p1}
    Users = {u1, u2, u3}
    Taps = {t1, t2, t3}
    Unit = 2
    Amounts = {0, 1, 3}
    Sizes = {1, 2, 3}
SPECIFICATION Spec
SYMMETRY Symmetry
INVARIANTS TypeOK EveryShareFunded StuckOnlyIfScarce Conservation 
PROPERTIES ViewsStack
CHECK_DEADLOCK FALSE
