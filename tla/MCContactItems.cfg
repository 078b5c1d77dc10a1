SPECIFICATION Spec
CONSTANTS
    Users = {u1}
    Items = {i1, i2}
    Reqs = {r1, r2}
    List = "friend"
INVARIANTS TypeOK DeletedStaysGone UndisturbedRefreshExact NewestIsComplete
SYMMETRY Symmetry
