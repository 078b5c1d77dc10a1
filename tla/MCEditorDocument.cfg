SPECIFICATION Spec
CONSTANT Subjects = {"range", "letters", "match", "blocks", "nodes", "html blocks", "html lists", "html tables", "html inline"}
PROPERTIES RangeIsExact LettersAreExact BlocksAreExact ContentSurvives
CHECK_DEADLOCK FALSE
