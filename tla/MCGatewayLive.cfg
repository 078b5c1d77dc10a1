SPECIFICATION FairSpec
CONSTANTS
    Calls = {c1, c2}
    Kinds = {"bet", "key", "other"}
    Data = {d1}
    BodyLen = 3
    CharEnds = {1, 3}
    MaxHead = 0
PROPERTIES RoutedIsAnswered
