----------------------------- MODULE ImageScale -----------------------------
(* The box that resizes an image (ueditor.all.js, fiximgclick).  It is shown  *)
(* around an image that was clicked, and a hand of it is dragged.  Its mouse  *)
(* handlers are bound to the page, which all editors share, as is the flag    *)
(* elementUpdated.  One dimension stands for width and height.                *)
EXTENDS Integers, Sequences, FiniteSetsExt, SequencesExt

CONSTANTS Editors,      \* editors of the page
          Images,       \* their images
          EditorOf,     \* the editor of each image
          MaxX,         \* positions of the mouse are 0..MaxX
          MaxWidth,     \* bound on the width of an image
          MaxListeners, \* bound on the handlers bound to one event
          None

VARIABLES
    width,          \* of the images
    box,            \* the Scale object of each editor
    ups, moves,     \* the handlers of mouseup and mousemove on the page: their editors
    elementUpdated, \* the flag of the plugin
    mouse,          \* the mouse: where it is, whether its button is down
    change          \* of each editor, history: its content has changed untold
vars == <<width, box, ups, moves, elementUpdated, mouse, change>>

(* dragId is the direction of the hand that is dragged.  History of the drag: *)
(* where and with which width it began, and whether it met the smallest width  *)
(* or went over to another image.                                              *)
NoBox == [shown |-> FALSE, target |-> None, resizer |-> 0, dragId |-> None, prePos |-> 0,
          timer |-> FALSE, from |-> 0, was |-> 0, loose |-> FALSE]
Hands == {"left", "middle", "right"}
Direction(hand) == CASE hand = "left" -> -1 [] hand = "right" -> 1 [] OTHER -> 0

Init == /\ width \in [Images -> {1, 2}]
        /\ box = [e \in Editors |-> NoBox]
        /\ ups = <<>> /\ moves = <<>> /\ elementUpdated = FALSE
        /\ mouse = [x |-> 0, down |-> FALSE]
        /\ change = [e \in Editors |-> FALSE]

Dragging(e) == box[e].dragId # None

(* What the handlers of an event work on *)
State == [box |-> box, width |-> width, moves |-> moves, updated |-> elementUpdated, change |-> change]
SetState(s) == /\ box' = s.box /\ width' = s.width /\ moves' = s.moves
               /\ elementUpdated' = s.updated /\ change' = s.change

(* domUtils.un with what proxy returns, a new function each time: nothing is unbound *)
Un(list, e) == list

----------------------------------------------------------------------------
AttachTo(b, i, w) == [b EXCEPT !.target = i, !.resizer = w]

(* A click on an image; the cover keeps clicks off the frame while a box is shown *)
Show(i) ==
    LET e == EditorOf[i]
    IN  /\ ~box[e].shown /\ ~mouse.down /\ Len(ups) < MaxListeners
        /\ box' = [box EXCEPT ![e] = AttachTo([@ EXCEPT !.shown = TRUE, !.loose = Dragging(e)], i, width[i])]
        /\ ups' = Append(ups, e)
        /\ UNCHANGED <<width, moves, elementUpdated, mouse, change>>

Hidden(b) == [b EXCEPT !.shown = FALSE]
Hide(E) ==
    /\ box' = [e \in Editors |-> IF e \in E THEN Hidden(box[e]) ELSE box[e]]
    /\ ups' = FoldSet(LAMBDA e, list : Un(list, e), ups, E)
    /\ UNCHANGED <<width, moves, elementUpdated, mouse, change>>
(* A key, or the mouse beside the boxes, in an editor or on the page *)
KeyDown(E) == (\A e \in E : box[e].shown) /\ Hide(E)
MouseDownElsewhere(E) == ~mouse.down /\ (\A e \in E : box[e].shown) /\ Hide(E)

(* The mouse on the box: on a hand a drag begins; elsewhere the box is hidden after 200 ms *)
MouseDownHand(e, hand) ==
    /\ ~mouse.down /\ box[e].shown /\ Len(moves) < MaxListeners
    /\ mouse' = [mouse EXCEPT !.down = TRUE]
    /\ IF Dragging(e) THEN UNCHANGED <<box, moves>>
       ELSE /\ box' = [box EXCEPT ![e] = [@ EXCEPT !.dragId = hand, !.prePos = mouse.x, !.from = mouse.x,
                                                   !.was = box[e].resizer, !.loose = FALSE]]
            /\ moves' = Append(moves, e)
    /\ UNCHANGED <<width, ups, elementUpdated, change>>
MouseDownBox(e) ==
    /\ ~mouse.down /\ box[e].shown
    /\ mouse' = [mouse EXCEPT !.down = TRUE] /\ box' = [box EXCEPT ![e].timer = TRUE]
    /\ UNCHANGED <<width, ups, moves, elementUpdated, change>>
Timer(e) ==
    /\ box[e].timer
    /\ box' = [box EXCEPT ![e] = [Hidden(@) EXCEPT !.timer = FALSE]]
    /\ ups' = Un(ups, e)
    /\ UNCHANGED <<width, moves, elementUpdated, mouse, change>>

(* _validScaledProp: the page has no clientWidth, so only the smallest width is kept *)
ValidScaledProp(value) == IF value <= 0 THEN 1 ELSE value
(* updateContainerStyle and updateTargetElement, which attaches the box again *)
ScaledFromStart(s, e, x) ==
    LET b == s.box[e]
        w == ValidScaledProp(b.resizer + Direction(b.dragId) * (x - b.prePos))
    IN  [s EXCEPT !.box[e] = [AttachTo(b, b.target, w) EXCEPT !.loose = @ \/ w = 1],
                  !.width[b.target] = w,
                  !.change[e] = @ \/ w # s.width[b.target]]
Scaled(s, e, x) ==
    LET b == s.box[e]
        w == ValidScaledProp(b.resizer + Direction(b.dragId) * (x - b.prePos))
    IN  [s EXCEPT !.box[e] = [AttachTo(b, b.target, w) EXCEPT !.loose = @ \/ w = 1, !.prePos = x],
                  !.width[b.target] = w,
                  !.change[e] = @ \/ w # s.width[b.target]]

OnMove(s, e, x) == IF s.box[e].dragId = None THEN s ELSE [Scaled(s, e, x) EXCEPT !.updated = TRUE]
OnUp(s, e, x) ==
    LET t == IF s.box[e].dragId = None THEN s ELSE [Scaled(s, e, x) EXCEPT !.box[e].dragId = None]
        u == [t EXCEPT !.moves = Un(@, e)]
    IN  IF u.updated THEN [u EXCEPT !.updated = FALSE, !.change[e] = FALSE] ELSE u

InBounds(s) == \A i \in Images : s.width[i] <= MaxWidth
(* Each handler on the page is called in the order it was bound *)
MouseMove(x) ==
    /\ x # mouse.x
    /\ LET s == FoldLeft(LAMBDA t, e : OnMove(t, e, x), State, moves) IN InBounds(s) /\ SetState(s)
    /\ mouse' = [mouse EXCEPT !.x = x] /\ UNCHANGED ups
(* The button is released: where the last move has been; over the box its timer is cleared *)
MouseUp(over) ==
    /\ mouse.down
    /\ SetState(FoldLeft(LAMBDA t, e : OnUp(t, e, mouse.x),
                         [State EXCEPT !.box = [e \in Editors |-> IF e \in over THEN [box[e] EXCEPT !.timer = FALSE]
                                                                  ELSE box[e]]], ups))
    /\ mouse' = [mouse EXCEPT !.down = FALSE] /\ UNCHANGED ups
(* Released outside the window: no event *)
MouseUpLost ==
    /\ mouse.down /\ mouse' = [mouse EXCEPT !.down = FALSE]
    /\ UNCHANGED <<width, box, ups, moves, elementUpdated, change>>
(* Pressed and released somewhere on the page afterwards *)
Click ==
    /\ ~mouse.down /\ \A e \in Editors : ~box[e].shown
    /\ mouse' = [mouse EXCEPT !.down = TRUE]
    /\ UNCHANGED <<width, box, ups, moves, elementUpdated, change>>

Next == \/ \E i \in Images : Show(i)
        \/ \E E \in SUBSET Editors \ {{}} : KeyDown(E) \/ MouseDownElsewhere(E)
        \/ \E e \in Editors : (\E hand \in Hands : MouseDownHand(e, hand)) \/ MouseDownBox(e) \/ Timer(e)
        \/ \E x \in 0..MaxX : MouseMove(x)
        \/ Click
        \/ \E over \in {{}} \cup {{e} : e \in Editors} : MouseUp(over)
        \/ MouseUpLost
Spec == Init /\ [][Next]_vars

----------------------------------------------------------------------------
(* The state has its type; no image is lost to a width of 0 or less. *)
TypeOK ==
    /\ width \in [Images -> 1..MaxWidth]
    /\ \A e \in Editors : /\ box[e].target \in Images \cup {None} /\ box[e].dragId \in Hands \cup {None}
                          /\ box[e].prePos \in 0..MaxX
    /\ ups \in Seq(Editors) /\ moves \in Seq(Editors) /\ elementUpdated \in BOOLEAN

(* The box and its image have one size, through drags that go on after the box *)
(* was hidden.                                                                 *)
BoxFitsImage == \A e \in Editors : box[e].shown => box[e].resizer = width[box[e].target]

(* However many handlers earlier drags have left behind, the image grows by    *)
(* what the mouse has moved.  Excepted: after it met the smallest width the    *)
(* hand is no longer under the mouse, and a drag whose release was lost goes   *)
(* over to the image that is clicked next.                                     *)
FollowsMouse ==
    \A e \in Editors : Dragging(e) /\ ~box[e].loose =>
        width[box[e].target] = box[e].was + Direction(box[e].dragId) * (box[e].prePos - box[e].from)

(* A drag can always be ended: the handler of mouseup is bound as long as one  *)
(* is under way, also when a key or the timer has hidden the box meanwhile.    *)
DragCanEnd == \A e \in Editors : Dragging(e) => Contains(ups, e) /\ Contains(moves, e)

(* When no drag is under way an editor has been told of each change of its     *)
(* images (contentchange).                                                     *)
ChangesAreTold == \A e \in Editors : ~Dragging(e) => ~change[e]
=============================================================================
