SPECIFICATION Spec
CONSTANTS
    Calls = {c1, c2}
    Kinds = {"transfer", "send", "recv", "create", "bet", "settlement", "key", "other"}
    Data = {d1}
    BodyLen = 2
    CharEnds = {2}
    MaxHead = 1
INVARIANTS TypeOK AnswerIsOwn RecordedAtMostOnce
PROPERTIES AppendOnly ImplementsService
SYMMETRY Symmetry
