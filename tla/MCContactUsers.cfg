SPECIFICATION Spec
CONSTANTS
    Users = {u1, u2}
    Items = {i1}
    Reqs = {r1, r2}
    List = "group"
INVARIANTS OnlyOwnRows
SYMMETRY Symmetry
VIEW OwnView
