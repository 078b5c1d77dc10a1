------------------------------- MODULE Scrawl -------------------------------
(* The drawing dialog (dialogs/scrawl/scrawl.js, scrawl.html): a board drawn  *)
(* on with the mouse, the steps that undo and redo go through, brushes and     *)
(* erasers, a picture read from a file and laid below the board, the box that  *)
(* moves and resizes it, and the upload of what was drawn.                     *)
(* What is on the board is the list of the lines drawn since it was empty.     *)
(* One dimension stands for both.                                              *)
EXTENDS Integers, Sequences, SequencesExt

CONSTANTS Webkit,       \* the button is read from the event
          SaveNum,      \* saveNum, the steps that can be undone
          Sizes, Colors, FirstSize, FirstColor,
          Pictures,     \* files to choose from: <<width, height>> of the picture
          Board,        \* width of the board
          MaxSide,      \* the larger side of a picture that is shown
          Offsets,      \* the mouse moves a hand of the box this far
          MaxLines,     \* bound on the lines drawn
          MaxPicks,     \* bound on the files chosen
          None

VARIABLES
    canvas,     \* the lines on the board
    steps,      \* drawStep, drawStepIndex, isScrawl
    pen,        \* the variables of the board's mouse handler
    mouse,      \* whether it is over the board, whether its button is down
    tool,       \* brushWidth and brushColor, the state of the context, what is lit
    lit,        \* the buttons that are highlighted
    pic,        \* J_picBoard: its images, those still loading, whether it is raised
    box,        \* the ScaleBoy and the drag of it
    page,       \* the mask, the OK button, the file being read, the upload
    history     \* lines drawn, files chosen, and what the exceptions speak of
vars == <<canvas, steps, pen, mouse, tool, lit, pic, box, page, history>>

NoBox == [there |-> FALSE, visible |-> FALSE, left |-> 0, width |-> 1, start |-> FALSE, dir |-> None, moved |-> FALSE]

Init ==
    /\ canvas = <<>>
    /\ steps = [list |-> << <<>> >>, index |-> 1, isScrawl |-> FALSE]
    /\ pen = [flag |-> FALSE, isMouseDown |-> FALSE, isMouseMove |-> FALSE, isMouseUp |-> FALSE, buttonPress |-> FALSE,
              start |-> None]
    /\ mouse = [over |-> FALSE, down |-> FALSE]
    /\ tool = [brushWidth |-> FirstSize, brushColor |-> FirstColor, op |-> "over", lineWidth |-> FirstSize,
               strokeStyle |-> FirstColor, lit |-> <<"brush", FirstSize>>, litColor |-> FirstColor]
    /\ lit = {}
    /\ pic = [images |-> <<>>, loading |-> {}, raised |-> FALSE]
    /\ box = NoBox
    /\ page = [mask |-> None, okDisabled |-> FALSE, reading |-> {}, open |-> TRUE, isCancelScrawl |-> FALSE,
               sent |-> <<>>, pending |-> FALSE, inserted |-> 0]
    /\ history = [lines |-> 0, picks |-> 0, kept |-> FALSE, overtaken |-> FALSE]

(* The mask layer covers the page.  A click ends a drag of the box first. *)
Usable == page.open /\ page.mask = None
Clickable == Usable /\ ~mouse.down /\ ~mouse.over /\ ~box.start

----------------------------------------------------------------------------
(* Drawing: startX and startY are where the mouse is, or where it was before *)
(* it left the board.                                                         *)
Button(p) == IF Webkit THEN mouse.down ELSE p.buttonPress

NewLine(dot, from, down) == [n |-> history.lines + 1, dot |-> dot, from |-> from, down |-> down]
DrawLine(line) == /\ history.lines < MaxLines
                  /\ canvas' = Append(canvas, line)
                  /\ history' = [history EXCEPT !.lines = @ + 1]

(* _saveOPerate(saveNum) on the list of steps *)
SavedWithoutIndex(s, c) == IF Len(s.list) <= SaveNum THEN [s EXCEPT !.list = Append(IF s.index < Len(@) THEN SubSeq(@, 1, s.index) ELSE @, c)]
                           ELSE [s EXCEPT !.list = Append(Tail(@), c)]
Saved(s, c) ==
    LET list == IF Len(s.list) <= SaveNum
                THEN Append(IF s.index < Len(s.list) THEN SubSeq(s.list, 1, s.index) ELSE s.list, c)
                ELSE Append(Tail(s.list), c)
    IN  [s EXCEPT !.list = list, !.index = Len(list)]
SavedLit(s, l) == (IF Len(s.list) <= SaveNum /\ s.index < Len(s.list) THEN l \ {"nextStep"} ELSE l)
                      \cup {"previousStep", "clearBoard"}
(* History: the list is full and keeps steps that were undone *)
Keeps(s) == Len(s.list) > SaveNum /\ s.index < Len(s.list)

MouseDown ==
    /\ mouse.over /\ ~mouse.down
    /\ mouse' = [mouse EXCEPT !.down = TRUE]
    /\ pen' = [flag |-> TRUE, isMouseDown |-> TRUE, isMouseMove |-> FALSE, isMouseUp |-> FALSE, buttonPress |-> TRUE,
               start |-> "here"]
    /\ steps' = [steps EXCEPT !.isScrawl = TRUE]
    /\ UNCHANGED <<canvas, tool, lit, pic, box, page, history>>

(* mousemove with the variables p of the handler *)
MoveIgnored(p) == ~p.flag /\ ~Button(p)
OnMouseMove(p) ==
    LET q == IF p.flag THEN p ELSE [p EXCEPT !.start = "here", !.flag = TRUE]
    IN  CASE MoveIgnored(p) -> pen' = p /\ UNCHANGED <<canvas, history>>
        []   ~MoveIgnored(p) /\ (q.isMouseUp \/ ~q.isMouseDown) -> pen' = q /\ UNCHANGED <<canvas, history>>
        []   OTHER -> /\ DrawLine(NewLine(FALSE, q.start, mouse.down))
                      /\ pen' = [q EXCEPT !.start = "here", !.isMouseMove = TRUE]
MouseMove == /\ mouse.over /\ OnMouseMove(pen)
             /\ UNCHANGED <<steps, mouse, tool, lit, pic, box, page>>
(* The mouse comes over the board, which a raised picture or the mask covers *)
MouseEnter == /\ ~mouse.over /\ Usable /\ ~pic.raised /\ ~box.start
              /\ mouse' = [mouse EXCEPT !.over = TRUE]
              /\ OnMouseMove(pen)
              /\ UNCHANGED <<steps, tool, lit, pic, box, page>>

MouseUp ==
    /\ mouse.over /\ mouse.down
    /\ mouse' = [mouse EXCEPT !.down = FALSE]
    /\ IF pen.isMouseDown
       THEN LET dot == NewLine(TRUE, pen.start, TRUE)
            IN  /\ IF pen.isMouseMove
                   THEN canvas' = canvas /\ history' = [history EXCEPT !.kept = @ \/ Keeps(steps)]
                   ELSE /\ history.lines < MaxLines
                        /\ canvas' = Append(canvas, dot)
                        /\ history' = [history EXCEPT !.lines = @ + 1, !.kept = @ \/ Keeps(steps)]
                /\ steps' = Saved(steps, canvas') /\ lit' = SavedLit(steps, lit)
                /\ pen' = [pen EXCEPT !.buttonPress = FALSE, !.isMouseDown = FALSE, !.isMouseMove = FALSE,
                                      !.isMouseUp = TRUE, !.start = None]
       ELSE /\ pen' = [pen EXCEPT !.buttonPress = FALSE]
            /\ UNCHANGED <<canvas, steps, lit, history>>
    /\ UNCHANGED <<tool, pic, box, page>>

MouseOut ==
    /\ mouse.over /\ mouse' = [mouse EXCEPT !.over = FALSE]
    /\ pen' = [pen EXCEPT !.flag = FALSE, !.buttonPress = FALSE, !.start = IF @ = None THEN None ELSE "away"]
    /\ UNCHANGED <<canvas, steps, tool, lit, pic, box, page, history>>

(* Pressed or released beside the board: its handlers are not told *)
PressOrReleaseOutside ==
    /\ page.open /\ ~mouse.over /\ ~box.start /\ mouse' = [mouse EXCEPT !.down = ~@]
    /\ UNCHANGED <<canvas, steps, pen, tool, lit, pic, box, page, history>>

----------------------------------------------------------------------------
(* _addOPerateListener: undo, redo and clear.  The board is put as it was saved. *)
PreviousStep ==
    /\ Clickable /\ steps.index > 1
    /\ steps' = [steps EXCEPT !.index = @ - 1]
    /\ canvas' = steps.list[steps.index - 1]
    /\ lit' = (lit \cup {"nextStep"}) \ (IF steps.index = 2 THEN {"previousStep"} ELSE {})
    /\ UNCHANGED <<pen, mouse, tool, pic, box, page, history>>
NextStep ==
    /\ Clickable /\ steps.index > 0 /\ steps.index < Len(steps.list)
    /\ canvas' = steps.list[steps.index + 1]
    /\ steps' = [steps EXCEPT !.index = @ + 1]
    /\ lit' = (lit \cup {"previousStep"}) \ (IF steps.index + 1 = Len(steps.list) THEN {"nextStep"} ELSE {})
    /\ UNCHANGED <<pen, mouse, tool, pic, box, page, history>>
ClearBoard ==
    /\ Clickable
    /\ canvas' = <<>>
    /\ steps' = [Saved([steps EXCEPT !.list = <<>>], <<>>) EXCEPT !.index = 1, !.isScrawl = FALSE]
    /\ lit' = lit \ {"previousStep", "nextStep", "clearBoard"}
    /\ history' = [history EXCEPT !.kept = FALSE]
    /\ UNCHANGED <<pen, mouse, tool, pic, box, page>>

(* The bars, with the marks of what is chosen (_addColorSelect, _addBESelect) *)
AddColorSelect(t, c) == [t EXCEPT !.litColor = c, !.lit = <<"brush", t.brushWidth>>]
AddBESelect(t, kind, size) == [t EXCEPT !.lit = <<kind, size>>]
ColorBar(c) ==
    /\ Clickable
    /\ tool' = [AddColorSelect(tool, c) EXCEPT !.brushColor = c, !.op = "over", !.lineWidth = tool.brushWidth,
                                               !.strokeStyle = c]
    /\ UNCHANGED <<canvas, steps, pen, mouse, lit, pic, box, page, history>>
BrushBar(size) ==
    /\ Clickable
    /\ tool' = [AddBESelect(tool, "brush", size) EXCEPT !.op = "over", !.lineWidth = size, !.brushWidth = size,
                                                        !.strokeStyle = tool.brushColor]
    /\ UNCHANGED <<canvas, steps, pen, mouse, lit, pic, box, page, history>>
EraserBar(size) ==
    /\ Clickable
    /\ tool' = [AddBESelect(tool, "eraser", size) EXCEPT !.lineWidth = size, !.op = "erase", !.strokeStyle = "#FFF"]
    /\ UNCHANGED <<canvas, steps, pen, mouse, lit, pic, box, page, history>>

----------------------------------------------------------------------------
(* The mask layer, which also disables OK *)
AddMaskLayer(p, m) == [p EXCEPT !.mask = m, !.okDisabled = TRUE]
RemoveMaskLayer(p) == [p EXCEPT !.mask = None, !.okDisabled = FALSE]

(* A file is chosen and read; ue_callback empties the picture board and has the image load *)
ChooseFile(f) ==
    /\ Clickable /\ history.picks < MaxPicks
    /\ page' = [AddMaskLayer(page, "reading") EXCEPT !.reading = {[n |-> history.picks + 1, file |-> f]}]
    /\ history' = [history EXCEPT !.picks = @ + 1, !.overtaken = @ \/ pic.loading # {}]
    /\ UNCHANGED <<canvas, steps, pen, mouse, tool, lit, pic, box>>
UeCallback ==
    /\ page.open /\ page.reading # {}
    /\ page' = [RemoveMaskLayer(page) EXCEPT !.reading = {}]
    /\ pic' = [pic EXCEPT !.images = <<>>, !.loading = @ \cup page.reading]
    /\ box' = NoBox
    /\ UNCHANGED <<canvas, steps, pen, mouse, tool, lit, history>>

(* scale(img, max): percent has two digits *)
Percent(part, whole) == (100 * part + whole \div 2) \div whole
ScaledWidth(w, h) ==
    IF w <= MaxSide /\ h <= MaxSide THEN w
    ELSE IF w >= h THEN MaxSide ELSE w - (w * Percent(h - MaxSide, h)) \div 100
Centred(width) == (Board - width) \div 2
ImageLoaded(l) ==
    /\ page.open /\ l \in pic.loading
    /\ LET w == ScaledWidth(l.file[1], l.file[2])
       IN  pic' = [pic EXCEPT !.loading = @ \ {l},
                              !.images = Append(@, [n |-> l.n, left |-> Centred(w), width |-> w])]
    /\ lit' = lit \cup {"removeImg", "scaleBoard"}
    /\ UNCHANGED <<canvas, steps, pen, mouse, tool, box, page, history>>
RemoveImg ==
    /\ Clickable
    /\ pic' = [pic EXCEPT !.images = <<>>] /\ box' = NoBox
    /\ lit' = lit \ {"removeImg", "scaleBoard"}
    /\ UNCHANGED <<canvas, steps, pen, mouse, tool, page, history>>

(* _addScalePicListenter: the box comes around the picture, or is hidden and shown.  *)
(* It is put where the picture is; a box that is removed leaves the picture raised.  *)
StartScale(i) == [NoBox EXCEPT !.there = TRUE, !.visible = TRUE, !.left = i.left, !.width = i.width]
ScaleBoard ==
    /\ Clickable /\ pic.images # <<>>
    /\ box' = IF ~box.there THEN StartScale(pic.images[1]) ELSE [box EXCEPT !.visible = ~@]
    /\ pic' = [pic EXCEPT !.raised = box'.visible]
    /\ UNCHANGED <<canvas, steps, pen, mouse, tool, lit, page, history>>

----------------------------------------------------------------------------
(* ScaleBoy.  rect: whether a hand moves the left side, and how it changes the width; *)
(* those above and below change neither.                                              *)
Hands == {"left", "right"}
Rect(dir) == CASE dir = "left" -> <<1, -1>> [] dir = "right" -> <<0, 1>> [] dir = "def" -> <<1, 0>>

ValidLeft(v, width) == IF v < 0 THEN 0 ELSE IF v + width > Board THEN Board - width ELSE v
ValidWidth(v, left) == IF v <= 0 THEN 1 ELSE IF v + left > Board THEN Board - left ELSE v
UpdateStyleByDir(b, dir, offset) ==
    LET left == IF Rect(dir)[1] # 0 THEN ValidLeft(b.left + offset, b.width) ELSE b.left
    IN  [b EXCEPT !.left = left,
                  !.width = IF Rect(dir)[2] # 0 THEN ValidWidth(@ + Rect(dir)[2] * offset, left) ELSE @]
UpdatePosition(i, b) == [i EXCEPT !.left = b.left]
UpdateScaledElement(i, b) == [UpdatePosition(i, b) EXCEPT !.width = b.width]

(* The handlers are on the body, which the mask does not cover. *)
(* On a hand, or on the box itself, which leaves the hand of a drag whose release was lost *)
ScaleMouseDown(hand) ==
    /\ Usable /\ box.visible /\ ~mouse.down /\ ~mouse.over
    /\ mouse' = [mouse EXCEPT !.down = TRUE]
    /\ box' = [box EXCEPT !.start = TRUE, !.dir = IF hand = None THEN @ ELSE hand]
    /\ UNCHANGED <<canvas, steps, pen, tool, lit, pic, page, history>>
ScaleMouseMove(offset) ==
    /\ page.open /\ box.start
    /\ LET dir == IF box.dir = None THEN "def" ELSE box.dir
       IN  /\ box' = [UpdateStyleByDir(box, dir, offset) EXCEPT !.moved = TRUE]
           /\ pic' = [pic EXCEPT !.images[1] = IF dir = "def" THEN UpdatePosition(@, box') ELSE @]
    /\ UNCHANGED <<canvas, steps, pen, mouse, tool, lit, page, history>>
ScaleMouseUp ==
    /\ page.open /\ box.start
    /\ mouse' = [mouse EXCEPT !.down = FALSE]
    /\ pic' = [pic EXCEPT !.images[1] = IF box.moved THEN UpdateScaledElement(@, box) ELSE @]
    /\ box' = [box EXCEPT !.start = FALSE, !.moved = FALSE, !.dir = None]
    /\ UNCHANGED <<canvas, steps, pen, tool, lit, page, history>>
ScaleMouseUpLost ==
    /\ box.start /\ mouse.down /\ mouse' = [mouse EXCEPT !.down = FALSE]
    /\ UNCHANGED <<canvas, steps, pen, tool, lit, pic, box, page, history>>

----------------------------------------------------------------------------
(* getCanvasData: the picture, or white, goes under what is drawn *)
GetCanvasDataOp == IF pic.images # <<>> THEN "destination-over" ELSE "destination-atop"
CanvasData == [lines |-> canvas, image |-> IF pic.images = <<>> THEN <<>> ELSE <<pic.images[1].n>>]

(* exec; readable: toDataURL has not failed *)
Exec(readable) ==
    /\ page.open /\ ~page.okDisabled /\ ~mouse.over /\ ~mouse.down
    /\ IF ~steps.isScrawl
       THEN page' = AddMaskLayer(page, "nothing") /\ UNCHANGED tool
       ELSE /\ tool' = [tool EXCEPT !.op = GetCanvasDataOp]
            /\ page' = IF readable
                       THEN [AddMaskLayer(page, "uploading") EXCEPT !.sent = Append(@, CanvasData), !.pending = TRUE]
                       ELSE AddMaskLayer(page, "uploading")
    /\ UNCHANGED <<canvas, steps, pen, mouse, lit, pic, box, history>>
Continue == /\ page.open /\ page.mask = "nothing" /\ page' = RemoveMaskLayer(page)
            /\ UNCHANGED <<canvas, steps, pen, mouse, tool, lit, pic, box, history>>

OnSuccess(p, state) ==
    IF ~p.isCancelScrawl /\ state = "SUCCESS" THEN [p EXCEPT !.pending = FALSE, !.inserted = @ + 1, !.open = FALSE]
    ELSE [p EXCEPT !.pending = FALSE]
OnError(p) == [p EXCEPT !.pending = FALSE, !.open = FALSE]
Answer(a) ==
    /\ page.pending
    /\ page' = IF a = "error" THEN OnError(page) ELSE OnSuccess(page, a)
    /\ UNCHANGED <<canvas, steps, pen, mouse, tool, lit, pic, box, history>>
Cancel ==
    /\ page.open
    /\ page' = [page EXCEPT !.isCancelScrawl = TRUE, !.open = FALSE]
    /\ UNCHANGED <<canvas, steps, pen, mouse, tool, lit, pic, box, history>>

Next ==
    \/ MouseDown \/ MouseMove \/ MouseEnter \/ MouseUp \/ MouseOut \/ PressOrReleaseOutside
    \/ PreviousStep \/ NextStep \/ ClearBoard
    \/ \E c \in Colors : ColorBar(c)
    \/ \E s \in Sizes : BrushBar(s) \/ EraserBar(s)
    \/ \E f \in Pictures : ChooseFile(f)
    \/ UeCallback \/ (\E l \in pic.loading : ImageLoaded(l)) \/ RemoveImg \/ ScaleBoard
    \/ \E h \in Hands \cup {None} : ScaleMouseDown(h)
    \/ \E o \in Offsets : ScaleMouseMove(o)
    \/ ScaleMouseUp \/ ScaleMouseUpLost
    \/ \E r \in BOOLEAN : Exec(r)
    \/ Continue \/ (\E a \in {"SUCCESS", "refused", "error"} : Answer(a)) \/ Cancel

Spec == Init /\ [][Next]_vars

----------------------------------------------------------------------------
(* Types; undo has at most saveNum steps to go back, as scrawl.html asks of it *)
TypeOK ==
    /\ Len(steps.list) \in 1 .. SaveNum + 1 /\ steps.index \in 1 .. Len(steps.list)
    /\ Len(canvas) <= MaxLines
    /\ page.mask \in {None, "reading", "nothing", "uploading"}
    /\ pen.start \in {None, "here", "away"}

(* Whatever was undone, redone or cleared, and whenever the list was full: unless a *)
(* line is being drawn, the board shows the step that drawStepIndex points at.       *)
BoardIsStep == ~pen.isMouseDown => canvas = steps.list[steps.index]

(* Each step adds to the one before, so that undo only takes lines away and redo    *)
(* brings them back (drawStep), except where a full list has kept undone steps.     *)
UndoTakesBack == \A i \in 1 .. Len(steps.list) - 1 : IsPrefix(steps.list[i], steps.list[i + 1])
StepsBuildUp == history.kept \/ UndoTakesBack

(* However the mouse leaves the board and comes back, and wherever its button is     *)
(* released: the board is drawn on only with the button down, and a line begins where *)
(* the mouse came over the board or where the last one ended (mousemove).             *)
LinesFollowMouse == \A i \in 1 .. Len(canvas) : canvas[i].dot \/ (canvas[i].down /\ canvas[i].from = "here")

(* The brush or eraser that is lit is the one the context draws with, and the colour *)
(* that is lit is the brush's (_addColorSelect, _addBESelect).                        *)
ToolIsLit ==
    page.sent = <<>> /\ page.mask # "uploading" =>
        /\ tool.lit = <<IF tool.op = "erase" THEN "eraser" ELSE "brush", tool.lineWidth>>
        /\ tool.litColor = tool.brushColor
        /\ tool.op = "over" => tool.strokeStyle = tool.brushColor

(* One picture lies under the board (ue_callback), unless a file was chosen while    *)
(* the picture of an earlier one was still loading.                                   *)
OnePicture == history.overtaken \/ Len(pic.images) <= 1

(* The box stays on the board, and outside of a drag the picture is where the box is *)
(* (_validScaledProp, updateScaledElement).                                           *)
BoxFitsPicture ==
    box.there => /\ box.left >= 0 /\ box.width >= 1 /\ box.left + box.width <= Board
                 /\ ~box.start => pic.images[1].left = box.left /\ pic.images[1].width = box.width

(* A drawing is uploaded once, and the board stays as it was sent, over the picture   *)
(* that was sent (exec, addMaskLayer).                                                 *)
SentIsShown == /\ Len(page.sent) <= 1
               /\ page.sent # <<>> => page.sent[1].lines = canvas
               /\ page.sent # <<>> /\ page.sent[1].image # <<>> =>
                      page.sent[1].image = CanvasData.image
=============================================================================
