SPECIFICATION Spec
CONSTANTS
    Users = {u1}
    Items = {i1}
    Reqs = {r1, r2}
    List = "friend"
INVARIANTS LogoutDeletesData
SYMMETRY Symmetry
