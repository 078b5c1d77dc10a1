--------------------------- MODULE MCEditorTools ---------------------------
(***************************************************************************)
(* The tools around the document: the undo history, the modes of the       *)
(* editor, events, dialogs, the handles of an image, the scrawl board and  *)
(* tables.  They share no state that is modelled, so each                  *)
(* behaviour is about one of them, the subject; the variables of the       *)
(* others are Off.                                                         *)
(***************************************************************************)
EXTENDS Integers, Sequences

CONSTANTS Subjects,  \* the parts that are looked at
          Nothing,
          Contents, Carets, Spans, maxUndoCount, maxInputCount, MaxPolls,   \* of EditorUndo
          Texts, Spots, Commands, MaxSteps,   \* of EditorModes
          Dialogs, FullScreen, Viewports, Width   \* of UiDialog

\* A history and a burst of keys have room for one: the code reads 0 as the default.
ASSUME UndoAssumption == maxUndoCount \in Nat \ {0} /\ maxInputCount \in Nat \ {0} /\ MaxPolls \in Nat
\* Lengths are not negative, and no dialog and no drag of one is Nothing.
ASSUME DialogAssumption == /\ FullScreen \subseteq Dialogs /\ Viewports \subseteq Nat /\ Width \in Nat
                           /\ Nothing \notin Dialogs \cup [dialog : Dialogs, left : Nat]

VARIABLES
    subject,
    \* EditorUndo
    body, sel, um, keycont, timer, polls, inputType, isCollapsed, loose,
    \* EditorModes
    written, default, marks, cursor, lastBk, editable, shown, query, bkQuery, exc, source, text, savedAt,
    leaving, field, focused, bak, showing, last, held, act, modeSteps,
    \* EventBase
    allListeners, calls, answer,
    \* UiDialog
    node, hidden, left, dialogWidth, original, overflow, mask, dragMask, active, drag, viewport, timers, lostDrag,
    \* ImageScale
    imageWidth, handles, ups, moves, elementUpdated, pointer, change,
    \* Scrawl
    canvas, steps, pen, mouse, tool, lit, pic, box, page, history,
    \* TableDrag
    columns, grip, st, line, clicks, fits, disabled, drags,
    \* TableGrid
    tab, dead, stuck, failed, sort

-----------------------------------------------------------------------------
(* Instances                                                               *)

Undo == INSTANCE EditorUndo WITH Places <- Carets

Modes == INSTANCE EditorModes WITH Gecko <- FALSE, body <- written, steps <- modeSteps
Firefox == INSTANCE EditorModes WITH Gecko <- TRUE, body <- written, steps <- modeSteps

\* One event that its listeners change, or also fire again; two events fired together.
Single == INSTANCE EventBase WITH Types <- {"ready"}, Listeners <- {"a", "b"}, Handled <- {}, Firings <- {<<"ready">>},
            Results <- {"undefined"}, MaxListeners <- 3, MaxDepth <- 1
Nested == INSTANCE EventBase WITH Types <- {"ready"}, Listeners <- {"a", "b"}, Handled <- {}, Firings <- {<<"ready">>},
            Results <- {"undefined"}, MaxListeners <- 2, MaxDepth <- 2
Together == INSTANCE EventBase WITH Types <- {"ready", "change"}, Listeners <- {"a", "b"}, Handled <- {"ready"},
            Firings <- {<<"ready", "change">>}, Results <- {"undefined", "true", "value"}, MaxListeners <- 2, MaxDepth <- 1

Dialog == INSTANCE UiDialog WITH None <- Nothing, width <- dialogWidth

Scale == INSTANCE ImageScale WITH Editors <- {1}, Images <- {"a", "b"}, EditorOf <- [i \in {"a", "b"} |-> 1],
            MaxX <- 2, MaxWidth <- 4, MaxListeners <- 2, None <- Nothing,
            width <- imageWidth, box <- handles, mouse <- pointer

\* The board of 360 pixels: lines alone, other brushes in a browser whose events do
\* not tell the button, a line and a picture under the board, and one picture after another.
Lines == INSTANCE Scrawl WITH Webkit <- TRUE, SaveNum <- 2, Sizes <- {3}, Colors <- {"blue"}, FirstSize <- 3,
            FirstColor <- "blue", Pictures <- {}, Board <- 360, MaxSide <- 300, Offsets <- {-180, 180},
            MaxLines <- 3, MaxPicks <- 0, None <- Nothing
Brushes == INSTANCE Scrawl WITH Webkit <- FALSE, SaveNum <- 2, Sizes <- {1, 3}, Colors <- {"blue", "red"}, FirstSize <- 3,
            FirstColor <- "blue", Pictures <- {}, Board <- 360, MaxSide <- 300, Offsets <- {-180, 180},
            MaxLines <- 2, MaxPicks <- 0, None <- Nothing
Picture == INSTANCE Scrawl WITH Webkit <- TRUE, SaveNum <- 1, Sizes <- {3}, Colors <- {"blue"}, FirstSize <- 3,
            FirstColor <- "blue", Pictures <- {<<300, 500>>}, Board <- 360, MaxSide <- 300, Offsets <- {-360, 360},
            MaxLines <- 1, MaxPicks <- 1, None <- Nothing
Pictures == INSTANCE Scrawl WITH Webkit <- TRUE, SaveNum <- 1, Sizes <- {3}, Colors <- {"blue"}, FirstSize <- 3,
            FirstColor <- "blue", Pictures <- {<<300, 500>>}, Board <- 360, MaxSide <- 300, Offsets <- {-360, 360},
            MaxLines <- 0, MaxPicks <- 2, None <- Nothing

\* Lengths in units of five pixels; the padding is a little more than Margin.
Drag == INSTANCE TableDrag WITH Cols <- 3, StartWidths <- <<8, 6, 7>>, Natural <- 6, Positions <- {5, 10, 14, 19},
            Body <- 60, CellBorderWidth <- 2, OffsetOfTableCell <- 3, CellMinWidth <- 2, Margin <- 2, TabcellSpace <- 3,
            MaxTimers <- 2, MaxDrags <- 1, None <- Nothing,
            width <- columns, mouse <- grip, timers <- clicks, history <- drags

\* Tables that grow to three rows or more, and to three columns or more.
Grid == INSTANCE TableGrid WITH Texts <- {"x"}, InitRows <- 2, InitCols <- 2, MaxRow <- 3, MaxCol <- 2
Wide == INSTANCE TableGrid WITH Texts <- {"x"}, InitRows <- 2, InitCols <- 2, MaxRow <- 2, MaxCol <- 3

-----------------------------------------------------------------------------

Off == "off"

undo == <<body, sel, um, keycont, timer, polls, inputType, isCollapsed, loose>>
modes == <<written, default, marks, cursor, lastBk, editable, shown, query, bkQuery, exc, source, text, savedAt,
           leaving, field, focused, bak, showing, last, held, act, modeSteps>>
events == <<allListeners, calls, answer>>
dialogs == <<node, hidden, left, dialogWidth, original, overflow, mask, dragMask, active, drag, viewport, timers, lostDrag>>
scale == <<imageWidth, handles, ups, moves, elementUpdated, pointer, change>>
scrawl == <<canvas, steps, pen, mouse, tool, lit, pic, box, page, history>>
dragging == <<columns, grip, st, line, clicks, fits, disabled, drags>>
grid == <<tab, dead, stuck, failed, sort>>
vars == <<subject, undo, modes, events, dialogs, scale, scrawl, dragging, grid>>

NoUndo == /\ body = Off /\ sel = Off /\ um = Off /\ keycont = Off /\ timer = Off /\ polls = Off /\ inputType = Off
          /\ isCollapsed = Off /\ loose = Off
NoModes == /\ written = Off /\ default = Off /\ marks = Off /\ cursor = Off /\ lastBk = Off /\ editable = Off
           /\ shown = Off /\ query = Off /\ bkQuery = Off /\ exc = Off /\ source = Off /\ text = Off /\ savedAt = Off
           /\ leaving = Off /\ field = Off /\ focused = Off /\ bak = Off /\ showing = Off /\ last = Off /\ held = Off
           /\ act = Off /\ modeSteps = Off
NoEvents == allListeners = Off /\ calls = Off /\ answer = Off
NoDialogs == /\ node = Off /\ hidden = Off /\ left = Off /\ dialogWidth = Off /\ original = Off /\ overflow = Off
             /\ mask = Off /\ dragMask = Off /\ active = Off /\ drag = Off /\ viewport = Off /\ timers = Off
             /\ lostDrag = Off
NoScale == /\ imageWidth = Off /\ handles = Off /\ ups = Off /\ moves = Off /\ elementUpdated = Off /\ pointer = Off
           /\ change = Off
NoScrawl == /\ canvas = Off /\ steps = Off /\ pen = Off /\ mouse = Off /\ tool = Off /\ lit = Off /\ pic = Off
            /\ box = Off /\ page = Off /\ history = Off
NoDrag == /\ columns = Off /\ grip = Off /\ st = Off /\ line = Off /\ clicks = Off /\ fits = Off /\ disabled = Off
          /\ drags = Off
NoGrid == tab = Off /\ dead = Off /\ stuck = Off /\ failed = Off /\ sort = Off

OnBoard == subject \in {"lines", "brushes", "picture", "pictures"}
InGrid == subject \in {"grid", "wide grid"}

Init ==
    /\ subject \in Subjects
    /\ IF subject = "undo" THEN Undo!Init ELSE NoUndo
    /\ IF subject \in {"modes", "firefox"} THEN Modes!Init ELSE NoModes
    /\ \/ subject \in {"single", "nested"} /\ Nested!Init
       \/ subject = "together" /\ Together!Init
       \/ subject \notin {"single", "nested", "together"} /\ NoEvents
    /\ IF subject = "dialogs" THEN Dialog!Init ELSE NoDialogs
    /\ IF subject = "scale" THEN Scale!Init ELSE NoScale
    /\ IF OnBoard THEN Lines!Init ELSE NoScrawl
    /\ IF subject = "drag" THEN Drag!Init ELSE NoDrag
    /\ IF InGrid THEN Grid!Init ELSE NoGrid

UndoSteps == subject = "undo" /\ Undo!Next
             /\ UNCHANGED <<subject, modes, events, dialogs, scale, scrawl, dragging, grid>>
ModeSteps == /\ \/ subject = "modes" /\ Modes!Next
                \/ subject = "firefox" /\ Firefox!Next
             /\ UNCHANGED <<subject, undo, events, dialogs, scale, scrawl, dragging, grid>>
EventSteps == /\ \/ subject = "single" /\ Single!Next
                 \/ subject = "nested" /\ Nested!Next
                 \/ subject = "together" /\ Together!Next
              /\ UNCHANGED <<subject, undo, modes, dialogs, scale, scrawl, dragging, grid>>
DialogSteps == subject = "dialogs" /\ Dialog!Next
               /\ UNCHANGED <<subject, undo, modes, events, scale, scrawl, dragging, grid>>
ScaleSteps == subject = "scale" /\ Scale!Next
              /\ UNCHANGED <<subject, undo, modes, events, dialogs, scrawl, dragging, grid>>
ScrawlSteps == /\ \/ subject = "lines" /\ Lines!Next
                  \/ subject = "brushes" /\ Brushes!Next
                  \/ subject = "picture" /\ Picture!Next
                  \/ subject = "pictures" /\ Pictures!Next
               /\ UNCHANGED <<subject, undo, modes, events, dialogs, scale, dragging, grid>>
DragSteps == subject = "drag" /\ Drag!Next
             /\ UNCHANGED <<subject, undo, modes, events, dialogs, scale, scrawl, grid>>
GridSteps == /\ \/ subject = "grid" /\ Grid!Next
                \/ subject = "wide grid" /\ Wide!Next
             /\ UNCHANGED <<subject, undo, modes, events, dialogs, scale, scrawl, dragging>>

Next == \/ UndoSteps \/ ModeSteps \/ EventSteps \/ DialogSteps \/ ScaleSteps \/ ScrawlSteps
        \/ DragSteps \/ GridSteps
Spec == Init /\ [][Next]_vars

-----------------------------------------------------------------------------
(* Properties                                                              *)

\* Undo is offered iff there is an earlier scene and redo iff there is a later one; from
\* a saved scene a redo undoes an undo; and when no timer, composition or keyup is
\* pending at most one key is missing from the history.
UndoIsSound ==
    subject = "undo" => /\ Undo!TypeOK /\ Undo!FlagsMatch
                        /\ Undo!RedoInvertsUndo /\ Undo!AtMostOneKeyMissing

\* In whatever order the editor is disabled, hidden, focused and switched to source and
\* back: getContent returns what was written last, the form gets it on blur, sync and
\* leaving source, a disabled editor has only the exempted commands, no bookmark is left
\* behind, and setEnabled puts the cursor back to its place.
ModesAgree ==
    /\ [](subject = "modes" => /\ Modes!TypeOK /\ Modes!NoOrphanMarks /\ Modes!LastWins
                               /\ Modes!CommandsMatchMode /\ Modes!FormFollows)
    /\ [](subject = "firefox" => Firefox!TypeOK /\ Firefox!LastWins)
    /\ [][subject = "modes" => Modes!PlaceComesBack]_modes

\* While listeners add and remove listeners and fire events themselves, none that stays
\* registered is passed over, each runs once and the newest first while nobody removes
\* one, and fireEvent returns what its functions returned last.
ListenersAllRun ==
    /\ subject \in {"single", "nested"} => /\ Single!TypeOK
                                           /\ Single!EachOnceInOrder /\ Single!NobodyIsSkipped
    /\ subject = "together" => /\ Together!TypeOK
                               /\ Together!NobodyIsSkipped /\ Together!ResultIsLastValue

\* However opens, closes, drags and the timers of a resize cross: one dialog is open at
\* most, the shared mask is shown exactly while one is, the scroll bars and the drag mask
\* are given back, and an open dialog is inside the window.
DialogsTidyUp ==
    subject = "dialogs" => /\ Dialog!TypeOK
                           /\ Dialog!MaskFollowsDialogs /\ Dialog!OneOpenDialog
                           /\ Dialog!ScrollBarsComeBack /\ Dialog!DragMaskGoes
                           /\ Dialog!StaysInWindow /\ Dialog!FullScreenFills

\* A drag of an image's handle or of a column's border follows the mouse, whatever
\* handlers and timers earlier drags have left; it can always be ended, goes on only
\* while the button is down, and the editor is told of what it changed.
DragsFollowMouse ==
    /\ [](subject = "scale" => /\ Scale!TypeOK /\ Scale!BoxFitsImage /\ Scale!FollowsMouse
                               /\ Scale!DragCanEnd /\ Scale!ChangesAreTold)
    /\ [](subject = "drag" => /\ Drag!TypeOK /\ Drag!DragCanEnd /\ Drag!FollowsButton
                              /\ Drag!DoubleClickIsQuick)
    /\ [][subject = "drag" => Drag!DragMovesBorder]_dragging

\* The scrawl board shows the step that undo stands at, each step adds to the one
\* before, lines follow the mouse with the tool that is lit, one picture lies under the
\* board with its box on it, and what is uploaded is what is shown.
BoardIsStep ==
    /\ subject = "lines" => Lines!TypeOK
    /\ subject = "brushes" => Brushes!TypeOK
    /\ subject \in {"picture", "pictures"} => Picture!TypeOK
    /\ OnBoard => /\ Lines!BoardIsStep /\ Lines!StepsBuildUp
                  /\ Lines!LinesFollowMouse /\ Lines!ToolIsLit
                  /\ Picture!OnePicture /\ Picture!BoxFitsPicture /\ Picture!SentIsShown

\* Every square of a table belongs to one cell and every text stands in one cell; only
\* deleting loses a text, sorting is not offered on merged cells, and no command throws
\* on a table without them.
TablesStayWhole ==
    /\ [](InGrid => Grid!TypeOK /\ Grid!Tiled /\ Grid!NoTextTwice /\ Grid!SortMeansUnmerged)
    /\ [][InGrid => Grid!OnlyDeletesLose /\ Grid!ThrowsOnlyWhenMerged]_grid
=============================================================================
