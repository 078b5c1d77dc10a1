----------------------------- MODULE TableDrag ------------------------------
(* Dragging the borders between the columns of a table (ueditor.all.js, table *)
(* plugin): the mouse handlers, the timers that tell a drag from a double      *)
(* click, the line that follows the mouse, and the widths that result.         *)
(* A row stands for all rows; cells are not merged and have borders of no      *)
(* width; the mouse does not come to the left side of the table.  Row heights  *)
(* work alike and are left out.                                                *)
EXTENDS Integers, Sequences, SequencesExt, FiniteSetsExt

CONSTANTS Cols,             \* number of columns
          StartWidths,      \* their widths, 0: none given
          Natural,          \* width of a column that has none given
          Positions,        \* where the mouse may be
          Body,             \* width of the editor's body
          CellBorderWidth, OffsetOfTableCell, CellMinWidth,
          Margin,           \* the 20 pixels of getPermissionX
          TabcellSpace,     \* the padding of a cell
          MaxTimers,        \* bound on the timers of clicks
          MaxDrags,         \* bound on the drags
          None

VARIABLES
    width,      \* the attribute width of the cells, 0: none
    mouse,      \* where it is, whether its button is down
    st,         \* the variables of the plugin; userX (userActionStatus) as long as it is read
    line,       \* the drag line in the document: its place, or None
    timers,     \* pending tableDragTimer and tableResizeTimers, which take equally long
    fits,       \* pending timers of tableDbclickHandler
    disabled,   \* the editor is disabled
    history     \* drags begun, and what the exceptions speak of
vars == <<width, mouse, st, line, timers, fits, disabled, history>>

Columns == 1 .. Cols
Null == 0
Outside == Cols + 1     \* an element that is not of the table

(* What the browser shows: clientWidth less padding, offsetWidth, left side *)
Shown(w, c) == IF w[c] > 0 THEN w[c] ELSE Natural
OffsetWidth(w, c) == Shown(w, c) + TabcellSpace
Left(w, c) == MapThenSumSet(LAMBDA d : OffsetWidth(w, d), 1 .. c - 1)
Right(w, c) == Left(w, c) + OffsetWidth(w, c)
At(w, x) == IF x >= Right(w, Cols) THEN Outside ELSE CHOOSE c \in Columns : Left(w, c) <= x /\ x < Right(w, c)

Init ==
    /\ width = StartWidths
    /\ mouse \in [x : Positions, down : {FALSE}]
    /\ st = [onBorder |-> FALSE, isInResizeBuffer |-> FALSE, userX |-> 0, singleClickState |-> 0,
             mousedown |-> FALSE, onDrag |-> "", dragTd |-> Null, startTd |-> Null, over |-> FALSE, dragLine |-> "null"]
    /\ line = None /\ timers = <<>> /\ fits = <<>> /\ disabled = FALSE
    /\ history = [drags |-> 0, lost |-> FALSE, early |-> FALSE]

(* The timers: a drag that begins at x, the end of a click *)
DragAt(x) == [kind |-> "drag", x |-> x]
Click == [kind |-> "click", x |-> 0]
ClearTableDragTimer(t) == SelectSeq(t, LAMBDA e : e = Click)
DragPending == timers # ClearTableDragTimer(timers)
Clicks == Len(ClearTableDragTimer(timers))

Dragging(s) == s.onDrag # "" /\ s.dragTd # Null
(* What mouseOverEvent asks for *)
Selecting(s) == s.over /\ s.startTd \in Columns

----------------------------------------------------------------------------
GetRelation(c, x) ==
    IF c = Outside THEN ""
    ELSE IF Right(width, c) - x < CellBorderWidth THEN "h"
    ELSE IF x - Left(width, c) < CellBorderWidth THEN "h1" ELSE ""
(* The cell whose right border is meant (getPreviewCell) *)
BorderCell(c, x) == IF GetRelation(c, x) = "h1" THEN c - 1 ELSE c

(* The line: getDragLine and hideDragLine do nothing while mousedown is set *)
HideDragLine(s, l) == IF s.mousedown THEN [s |-> s, l |-> l]
                      ELSE [s |-> [s EXCEPT !.dragLine = IF @ = "in" THEN "gone" ELSE @], l |-> None]
GetDragLine(s, l) == IF s.mousedown THEN [s |-> s, l |-> l] ELSE [s |-> [s EXCEPT !.dragLine = "in"], l |-> 0]

(* tableBorderDrag at x.  It throws, and does not go on, where there is no table or no line. *)
TableBorderDragAt(c, x) ==
    LET b == BorderCell(c, x)
        state == IF GetRelation(c, x) = "" THEN "" ELSE "h"
        hidden == HideDragLine([st EXCEPT !.isInResizeBuffer = FALSE, !.userX = 0, !.startTd = b], line)
        got == GetDragLine(hidden.s, hidden.l)
        throws == b = Outside \/ (state = "h" /\ got.s.dragLine = "null")
        shown == IF state = "h" /\ got.s.dragLine = "in" THEN Right(width, b) ELSE got.l
    IN  IF throws THEN [s |-> got.s, l |-> got.l]
        ELSE [s |-> [got.s EXCEPT !.mousedown = TRUE, !.onDrag = state, !.dragTd = b], l |-> shown]

----------------------------------------------------------------------------
(* getPermissionX: the line stays Margin off the far sides of the two columns *)
GetPermissionX(c, x) ==
    LET left == Left(width, c) + Margin + CellMinWidth
        right == (IF c < Cols THEN Right(width, c + 1) - Margin ELSE Body) - CellMinWidth
    IN  IF x < left THEN left ELSE IF x > right THEN right ELSE x

(* mouseMoveEvent after the check of the resize buffer *)
MovedDrag(r, x) ==
    [s |-> [r.s EXCEPT !.singleClickState = 0, !.onBorder = TRUE],
     l |-> IF r.s.dragLine = "in" THEN GetPermissionX(r.s.dragTd, x) ELSE r.l]
Moved(r, x) ==
    LET c == At(width, x)
    IN  IF Dragging(r.s) THEN MovedDrag(r, x)
        ELSE IF c = Outside THEN r
        ELSE [r EXCEPT !.s.onBorder = GetRelation(c, x) # ""]

LeavesBuffer(x) == /\ st.isInResizeBuffer
                   /\ st.userX - x > OffsetOfTableCell \/ x - st.userX > OffsetOfTableCell
(* The drag begins where the mouse is now; it throws outside the table *)
QuickDrag(x) == LET r == TableBorderDragAt(At(width, x), x) IN [r EXCEPT !.s.singleClickState = 0]
MouseMove(x) ==
    /\ x # mouse.x /\ mouse' = [mouse EXCEPT !.x = x]
    /\ IF disabled THEN UNCHANGED <<st, line, timers, history>>
       ELSE IF LeavesBuffer(x)
       THEN /\ history.drags < MaxDrags
            /\ LET r == IF At(width, x) = Outside THEN QuickDrag(x) ELSE Moved(QuickDrag(x), x)
               IN  st' = r.s /\ line' = r.l
            /\ timers' = ClearTableDragTimer(timers)
            /\ history' = [history EXCEPT !.drags = @ + 1]
       ELSE /\ LET r == Moved([s |-> st, l |-> line], x) IN st' = r.s /\ line' = r.l
            /\ UNCHANGED <<timers, history>>
    /\ UNCHANGED <<width, fits, disabled>>

(* The mouse leaves the element table itself *)
MouseOutOfTable ==
    /\ At(width, mouse.x) = Outside /\ st.onBorder
    /\ st' = [st EXCEPT !.onBorder = FALSE]
    /\ UNCHANGED <<width, mouse, line, timers, fits, disabled, history>>

----------------------------------------------------------------------------
(* mouseDownEvent, tableClickHander, borderActionHandler: on a border the press waits. *)
(* The timer of a double click, of no delay, has fired before the next press.           *)
MouseDown ==
    /\ ~mouse.down /\ fits = <<>>
    /\ mouse' = [mouse EXCEPT !.down = TRUE]
    /\ LET c == At(width, mouse.x)
           s == [st EXCEPT !.startTd = IF c = Outside THEN Null ELSE BorderCell(c, mouse.x)]
           waits == ~disabled /\ c # Outside /\ st.onBorder
       IN  /\ st' = IF disabled THEN st
                    ELSE IF c = Outside THEN s
                    ELSE IF waits THEN [s EXCEPT !.isInResizeBuffer = TRUE, !.userX = mouse.x]
                    ELSE [s EXCEPT !.mousedown = TRUE, !.over = TRUE]
           /\ timers' = IF waits THEN Append(ClearTableDragTimer(timers), DragAt(mouse.x)) ELSE timers
    /\ UNCHANGED <<width, line, fits, disabled, history>>

(* tableDragTimer, after dblclickTime *)
DragTimer ==
    /\ timers # <<>> /\ Head(timers) # Click /\ history.drags < MaxDrags
    /\ LET x == Head(timers).x
           r == TableBorderDragAt(At(width, x), x)
       IN  st' = r.s /\ line' = r.l
    /\ timers' = Tail(timers)
    /\ history' = [history EXCEPT !.drags = @ + 1]
    /\ UNCHANGED <<width, mouse, fits, disabled>>

CorrectChangeValue(v, c) ==
    LET change == v - TabcellSpace - Shown(width, c)
        near == IF change < 0 THEN c ELSE c + 1
        size == IF change < 0 THEN -change ELSE change
        limit == IF near <= Cols THEN Min({size, Shown(width, near) - CellMinWidth}) ELSE size
        capped == IF limit < 0 THEN 0 ELSE limit
    IN  IF v < TabcellSpace THEN 0 ELSE IF change < 0 THEN -capped ELSE capped
(* The cells in whose attribute getTableCellWidth has noted what is shown *)
NotedCells(v, c) ==
    IF v < TabcellSpace THEN {}
    ELSE {c} \cup (IF v - TabcellSpace < Shown(width, c) \/ c = Cols THEN {} ELSE {c + 1})
(* An attribute that would be negative is no width *)
Attribute(v) == IF v < 0 THEN 0 ELSE v
ChangeColWidth(c, v) ==
    LET w == [d \in Columns |-> IF d \in NotedCells(v, c) THEN Shown(width, d) ELSE width[d]]
        change == CorrectChangeValue(v, c)
    IN  [d \in Columns |-> CASE d = c -> Attribute(w[d] + change)
                           []   d = c + 1 -> Attribute(w[d] - change)
                           []   OTHER -> w[d]]

(* mouseUpEvent *)
Released(t) == IF st.onBorder THEN Append(ClearTableDragTimer(t), Click) ELSE ClearTableDragTimer(t)
(* tableDbclickHandler: the column's widths are taken away, and given again by a timer *)
DblClick(s) ==
    LET c == At(width, mouse.x)
        b == BorderCell(c, mouse.x)
        hidden == HideDragLine([s EXCEPT !.singleClickState = 0], line)
    IN  IF GetRelation(c, mouse.x) = ""
        THEN st' = [s EXCEPT !.singleClickState = 0] /\ UNCHANGED <<width, line, fits>>
        ELSE /\ st' = hidden.s /\ line' = hidden.l
             /\ fits' = Append(fits, [cell |-> b, old |-> OffsetWidth(width, b)])
             /\ width' = [width EXCEPT ![b] = 0]
DragUp(s) ==
    /\ st' = [HideDragLine(s, line).s EXCEPT !.onDrag = "", !.dragTd = Null] /\ line' = None
    /\ width' = ChangeColWidth(s.dragTd, line - Left(width, s.dragTd))
PlainUp(s) == /\ st' = IF s.startTd = Null THEN s ELSE [s EXCEPT !.startTd = Null, !.over = FALSE]
              /\ UNCHANGED <<line, width>>
OnMouseUp ==
    LET s == [st EXCEPT !.isInResizeBuffer = FALSE, !.userX = 0]
        double == st.onBorder /\ st.singleClickState = 1
        up == [s EXCEPT !.singleClickState = IF st.onBorder THEN (@ + 1) % 3 ELSE @]
        drag == [up EXCEPT !.mousedown = FALSE, !.singleClickState = 0,
                           !.dragLine = IF line = None THEN "null" ELSE "in"]
    IN  /\ Clicks < MaxTimers /\ fits = <<>>
        /\ timers' = Released(timers)
        /\ IF double
           THEN DblClick(up) /\ history' = [history EXCEPT !.early = @ \/ st.mousedown]
           ELSE /\ IF Dragging(st) /\ line # None THEN DragUp(drag)
                   ELSE PlainUp(IF Dragging(st) THEN drag ELSE [up EXCEPT !.mousedown = FALSE])
                /\ UNCHANGED fits
                /\ history' = IF st'.over \/ Dragging(st') THEN history
                              ELSE [history EXCEPT !.lost = FALSE, !.early = FALSE]
MouseUp ==
    /\ mouse.down /\ mouse' = [mouse EXCEPT !.down = FALSE]
    /\ IF disabled
       THEN history' = [history EXCEPT !.lost = TRUE] /\ UNCHANGED <<width, st, line, timers, fits>>
       ELSE OnMouseUp
    /\ UNCHANGED disabled

ClickTimer ==
    /\ timers # <<>> /\ Head(timers) = Click /\ timers' = Tail(timers)
    /\ st' = [st EXCEPT !.singleClickState = IF @ > 0 THEN @ - 1 ELSE 0]
    /\ UNCHANGED <<width, mouse, line, fits, disabled, history>>
(* The column gets the width it has now, unless that is wider than it was *)
FitTimer ==
    /\ fits # <<>>
    /\ LET f == Head(fits)
           now == OffsetWidth(width, f.cell)
       IN  width' = [width EXCEPT ![f.cell] = (IF now > f.old THEN f.old ELSE now) - TabcellSpace]
    /\ fits' = Tail(fits)
    /\ UNCHANGED <<mouse, st, line, timers, disabled, history>>

(* Released where no event comes from *)
MouseUpLost ==
    /\ mouse.down /\ mouse' = [mouse EXCEPT !.down = FALSE]
    /\ history' = [history EXCEPT !.lost = TRUE]
    /\ UNCHANGED <<width, st, line, timers, fits, disabled>>
SetDisabled ==
    /\ disabled' = ~disabled
    /\ UNCHANGED <<width, mouse, st, line, timers, fits, history>>

Next == \/ \E x \in Positions : MouseMove(x)
        \/ MouseOutOfTable \/ MouseDown \/ DragTimer \/ MouseUp \/ ClickTimer \/ FitTimer \/ MouseUpLost \/ SetDisabled
Spec == Init /\ [][Next]_vars

----------------------------------------------------------------------------
TypeOK == /\ width \in [Columns -> 0 .. Body]
          /\ st.dragTd \in 0 .. Cols /\ st.startTd \in 0 .. Outside /\ st.singleClickState \in 0 .. 2
          /\ st.dragLine \in {"null", "in", "gone"} /\ Clicks <= MaxTimers

(* Whatever timers, disabling and lost releases do: a drag, the timer that begins one *)
(* and the selecting of cells go on only while the button is down, unless a release    *)
(* was lost or taken for a double click (mouseUpEvent returns early for both).         *)
FollowsButton == DragPending \/ Dragging(st) \/ Selecting(st) => mouse.down \/ history.lost \/ history.early

(* A drag can be ended: there is a line for mouseUpEvent to find, unless mousedown was *)
(* left set by a lost or an early release.                                              *)
DragCanEnd == Dragging(st) => line # None \/ history.lost \/ history.early

(* Two releases count as a double click only within dblclickTime of each other *)
DoubleClickIsQuick == st.singleClickState <= Clicks

(* A drag changes only the columns beside its border and leaves them room, and the     *)
(* border goes to the line (changeColWidth); inside the table, its width stays.         *)
Total(w) == Right(w, Cols)
DragMovesBorder ==
    LET c == st.dragTd
        near == IF c < Cols THEN {c, c + 1} ELSE {c}
    IN  fits = <<>> /\ Dragging(st) /\ width' # width =>
            /\ \A d \in Columns \ near : width'[d] = width[d]
            /\ \A d \in near : width'[d] >= CellMinWidth \/ width'[d] >= width[d]
            /\ c < Cols => Total(width') = Total(width)
            /\ Right(width', c) - line \in -1 .. 1
=============================================================================
