SPECIFICATION Spec
CONSTANTS
    Calls = {c1, c2}
    Kinds = {"create", "bet"}
    Data = {d1}
    BodyLen = 3
    CharEnds = {1, 3}
    MaxHead = 0
INVARIANTS TextStoredAsSent
