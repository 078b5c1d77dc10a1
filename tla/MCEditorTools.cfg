SPECIFICATION Spec
CONSTANTS
    Nothing = Nothing
    Contents = {"c1", "c2"}
    Carets = {"p1"}
    Spans = {"s1"}
    maxUndoCount = 3
    maxInputCount = 2
    MaxPolls = 1
    Texts = {"t", "u"}
    Spots = {"here"}
    Commands = {"bold"}
    MaxSteps = 5
    Dialogs = {"link", "insertimage", "preview"}
    FullScreen = {"preview"}
    Viewports = {2, 5}
    Width = 3
    Subjects = {"undo", "modes", "firefox", "single", "nested", "together", "dialogs", "scale", "lines", "brushes", "picture", "pictures", "drag", "grid", "wide grid"}
INVARIANTS UndoIsSound ListenersAllRun DialogsTidyUp BoardIsStep
PROPERTIES ModesAgree DragsFollowMouse TablesStayWhole
CHECK_DEADLOCK FALSE
