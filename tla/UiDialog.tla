------------------------------ MODULE UiDialog ------------------------------
(* The dialogs of the editor (ueditor.all.js, Mask, UIBase.render, Dialog and *)
(* the toolbar buttons that open dialogs).  All dialogs of a page share one   *)
(* modal mask and one drag mask; a full screen dialog also takes the scroll   *)
(* bars of the page away and gives them back.  Lengths are in one dimension:  *)
(* the code treats both alike.                                                *)
EXTENDS Integers

CONSTANTS Dialogs,     \* the dialogs of the page
          FullScreen,  \* those with fullscreen: true
          Viewports,   \* the widths the window may get
          Width,       \* the width of the other dialogs
          None

VARIABLES
    node,       \* node[d]: "absent", "bare" (its content node is removed), "empty" or "page"
    hidden,     \* hidden[d]: _hidden, "undefined" before the first render
    left, width,\* the place of each dialog
    original,   \* original[d]: _originalContext, None when deleted
    overflow,   \* the overflow of the page: "auto" or "hidden"
    mask,       \* the modal mask: "absent", "hidden" or "shown"
    dragMask,   \* the drag mask
    active,     \* activeDialog
    drag,       \* the dialog whose title is held and where it was, or None
    viewport,   \* the width of the window
    timers,     \* the timers of resize events: <<"offset", d>> and <<"size", d>>
    lostDrag    \* a dialog was closed while it was dragged

vars == <<node, hidden, left, width, original, overflow, mask, dragMask,
          active, drag, viewport, timers, lostDrag>>

Open(d) == hidden[d] = "no"
HasContent(d) == node[d] \in {"empty", "page"}

TypeOK ==
    /\ node \in [Dialogs -> {"absent", "bare", "empty", "page"}]
    /\ hidden \in [Dialogs -> {"undefined", "yes", "no"}]
    /\ left \in [Dialogs -> Nat]
    /\ width \in [Dialogs -> Nat]
    /\ original \in [Dialogs -> {"auto", "hidden", None}]
    /\ overflow \in {"auto", "hidden"}
    /\ {mask, dragMask} \subseteq {"absent", "hidden", "shown"}
    /\ active \in Dialogs \cup {None}
    /\ drag \in [dialog : Dialogs, left : Nat] \cup {None}
    /\ viewport \in Viewports
    /\ timers \subseteq {"offset", "size"} \X Dialogs
    /\ lostDrag \in BOOLEAN

Init ==
    /\ node = [d \in Dialogs |-> "absent"]
    /\ hidden = [d \in Dialogs |-> "undefined"]
    /\ left = [d \in Dialogs |-> 0]
    /\ width = [d \in Dialogs |-> Width]
    /\ original = [d \in Dialogs |-> None]
    /\ overflow = "auto"
    /\ mask = "absent" /\ dragMask = "absent"
    /\ active = None
    /\ drag = None
    /\ viewport \in Viewports
    /\ timers = {}
    /\ lostDrag = FALSE

AtLeast0(n) == IF n > 0 THEN n ELSE 0

\* safeSetOffset: as far right as asked, but inside the window, and never
\* left of it.
SafeOffset(x, w) == AtLeast0(IF x + w > viewport THEN viewport - w ELSE x)

\* What open does to the dialog, its masks and the page, as a record: the
\* functions below take and return it.
Page(d) == [node |-> node[d], hidden |-> hidden[d], left |-> left[d], width |-> width[d],
            original |-> original[d], overflow |-> overflow, mask |-> mask]

\* Mask.show and Mask.hide, called by the listeners of 'show' and 'hide'.
ShowMask(s) == [s EXCEPT !.mask = "shown"]
HideMask(s) == [s EXCEPT !.mask = "hidden"]

\* _show: only a hidden dialog.
Show(s) == IF s.hidden = "yes" THEN ShowMask([s EXCEPT !.hidden = "no"]) ELSE s

\* _hide: only a dialog that is not hidden; it loses its size.
HideMaskless(s) == IF s.hidden # "yes" THEN [s EXCEPT !.hidden = "yes", !.width = Width] ELSE s
Hide(s) ==
    IF s.hidden # "yes"
    THEN HideMask([s EXCEPT !.hidden = "yes", !.width = Width])
    ELSE s

\* getHtmlTpl: with autoReset the content node comes empty.
FreshNode == "empty"

\* Dialog.postRender: the masks are rendered, hidden, with the first dialog.
PostRender(s) == Hide(IF s.mask = "absent" THEN HideMask(s) ELSE s)

\* UIBase.render: a fresh node, with the place of the one it replaces.
Render(s) == PostRender([s EXCEPT !.node = FreshNode])

\* reset puts the page into the content node.
Reset(s) == [s EXCEPT !.node = "page"]

\* showAtCenter
ShowAtCenter(d, s) ==
    IF d \in FullScreen
    THEN Show([s EXCEPT !.left = 0, !.width = viewport,
                        !.original = s.overflow, !.overflow = "hidden"])
    ELSE Show([s EXCEPT !.left = SafeOffset(AtLeast0((viewport - s.width) \div 2), s.width)])

\* open: without a content node reset throws, and the dialog is rendered,
\* opened, and centred once more.
OpenDialog(d, s) ==
    IF s.node \in {"empty", "page"}
    THEN ShowAtCenter(d, Reset(s))
    ELSE ShowAtCenter(d, ShowAtCenter(d, Reset(Render(s))))

\* close, once nobody vetoed it: the page gets its scroll bars back, the dialog
\* is hidden, its page is emptied and its content node removed.
CloseDialog(d, s) ==
    LET restored == IF d \in FullScreen
                    THEN [s EXCEPT !.overflow = s.original, !.original = None]
                    ELSE s
    IN  Hide([restored EXCEPT !.node = IF @ = "page" THEN "bare" ELSE @])

Becomes(d, s) ==
    /\ node' = [node EXCEPT ![d] = s.node]
    /\ hidden' = [hidden EXCEPT ![d] = s.hidden]
    /\ left' = [left EXCEPT ![d] = s.left]
    /\ width' = [width EXCEPT ![d] = s.width]
    /\ original' = [original EXCEPT ![d] = s.original]
    /\ overflow' = s.overflow
    /\ mask' = s.mask
    /\ dragMask' = IF dragMask = "absent" /\ s.mask # "absent" THEN "hidden" ELSE dragMask

\* A mask that covers the page keeps the mouse away from what is below it.
Blocked == mask = "shown" \/ dragMask = "shown"

----------------------------------------------------------------------------
\* The button of the toolbar: dialog.render(); dialog.open().
ClickToolbar(d) ==
    /\ ~Blocked /\ drag = None
    /\ Becomes(d, OpenDialog(d, Render(Page(d))))
    /\ active' = d
    /\ UNCHANGED <<drag, viewport, timers, lostDrag>>

\* The links of the bubble below an image or a link and the context menu:
\* dialog.open(), whatever became of the node.  No full screen dialog is opened
\* this way.
OpenFromMenu(d) ==
    /\ ~Blocked /\ drag = None
    /\ d \notin FullScreen
    /\ Becomes(d, OpenDialog(d, Page(d)))
    /\ active' = d
    /\ UNCHANGED <<drag, viewport, timers, lostDrag>>

\* The buttons and the close button of the dialog.  onok and oncancel belong to
\* the page of the dialog: they may return false, let it close, or call close
\* themselves before they return.
Close(d) ==
    /\ Open(d)
    /\ dragMask # "shown"
    /\ \/ UNCHANGED vars
       \/ /\ Becomes(d, CloseDialog(d, Page(d)))
          /\ UNCHANGED <<active, drag, viewport, timers, lostDrag>>
       \/ /\ d \notin FullScreen
          /\ Becomes(d, CloseDialog(d, CloseDialog(d, Page(d))))
          /\ UNCHANGED <<active, drag, viewport, timers, lostDrag>>

\* A click on the modal mask closes the dialog opened last.
ClickMask ==
    /\ mask = "shown" /\ dragMask # "shown"
    /\ active # None
    /\ Becomes(active, CloseDialog(active, Page(active)))
    /\ UNCHANGED <<active, drag, viewport, timers, lostDrag>>

\* The page of the dialog closes it when an answer of the server arrives
\* (scrawl.js), whatever the mouse does in the meantime.
CloseByPage(d) ==
    /\ Open(d) /\ d \notin FullScreen
    /\ Becomes(d, CloseDialog(d, Page(d)))
    /\ lostDrag' = (lostDrag \/ (drag # None /\ drag.dialog = d))
    /\ UNCHANGED <<active, drag, viewport, timers>>

\* _onTitlebarMouseDown: the drag mask appears until the mouse is released.
TitleMouseDown(d) ==
    /\ Open(d) /\ drag = None /\ dragMask # "shown"
    /\ drag' = [dialog |-> d, left |-> left[d]]
    /\ dragMask' = "shown"
    /\ UNCHANGED <<node, hidden, left, width, original, overflow, mask, active,
                   viewport, timers, lostDrag>>

\* ondragmove; the node stays in the page when the dialog closes.
DragMove(x) ==
    /\ drag # None
    /\ left' = [left EXCEPT ![drag.dialog] = SafeOffset(drag.left + x, width[drag.dialog])]
    /\ UNCHANGED <<node, hidden, width, original, overflow, mask, dragMask, active,
                   drag, viewport, timers, lostDrag>>

\* ondragstop: it throws before it hides the mask when the content node, and
\* the cover of the page in it, are gone.
MouseUp ==
    /\ drag # None
    /\ drag' = None
    /\ dragMask' = IF node[drag.dialog] = "page" THEN "hidden" ELSE dragMask
    /\ UNCHANGED <<node, hidden, left, width, original, overflow, mask, active,
                   viewport, timers, lostDrag>>

\* The window changes its width: every rendered dialog looks at its place in a
\* moment, and an open full screen dialog at its size in 100 ms.
WindowResize(v) ==
    /\ v # viewport
    /\ viewport' = v
    /\ timers' = timers \cup {<<"offset", d>> : d \in {e \in Dialogs : node[e] # "absent"}}
                        \cup {<<"size", d>> : d \in {e \in FullScreen : Open(e)}}
    /\ UNCHANGED <<node, hidden, left, width, original, overflow, mask, dragMask, active,
                   drag, lostDrag>>

\* The timer of postRender.
OffsetTimer(d) ==
    /\ <<"offset", d>> \in timers
    /\ timers' = timers \ {<<"offset", d>>}
    /\ left' = IF Open(d) THEN [left EXCEPT ![d] = SafeOffset(@, width[d])] ELSE left
    /\ UNCHANGED <<node, hidden, width, original, overflow, mask, dragMask, active,
                   drag, viewport, lostDrag>>

\* The timer of initResizeEvent: it throws without effect when the content node
\* is gone, and gives a size to a dialog that was closed and rendered again.
SizeTimer(d) ==
    /\ <<"size", d>> \in timers
    /\ timers' = timers \ {<<"size", d>>}
    /\ width' = IF HasContent(d) THEN [width EXCEPT ![d] = viewport] ELSE width
    /\ UNCHANGED <<node, hidden, left, original, overflow, mask, dragMask, active,
                   drag, viewport, lostDrag>>

Next ==
    \/ \E d \in Dialogs : ClickToolbar(d) \/ OpenFromMenu(d) \/ Close(d) \/ CloseByPage(d)
    \/ ClickMask
    \/ \E d \in Dialogs : TitleMouseDown(d)
    \/ \E x \in -2 .. 2 : DragMove(x)
    \/ MouseUp
    \/ \E v \in Viewports : WindowResize(v)
    \/ \E d \in Dialogs : OffsetTimer(d) \/ SizeTimer(d)

Spec == Init /\ [][Next]_vars
----------------------------------------------------------------------------
(* Properties *)

\* The shared mask is shown exactly while a dialog is open (modalMask.show and
\* hide are called by the listeners of every render of every dialog).
MaskFollowsDialogs == (mask = "shown") <=> (\E d \in Dialogs : Open(d))

\* The dialogs are modal: at most one is open, it is the one a click on the
\* mask closes (activeDialog), and it shows its page.
OneOpenDialog ==
    \A d \in Dialogs : Open(d) => /\ active = d
                                  /\ node[d] = "page"
                                  /\ \A e \in Dialogs \ {d} : ~Open(e)

\* The page has its own scroll bars again when no full screen dialog is open,
\* whatever was opened, rendered again or closed before (_originalContext).
ScrollBarsComeBack ==
    /\ (overflow = "hidden") <=> (\E d \in FullScreen : Open(d))
    /\ \A d \in FullScreen : Open(d) => original[d] = "auto"

\* The drag mask, which keeps the mouse from the whole page, is gone when the
\* title is released, unless the page of the dialog closed it during the drag.
DragMaskGoes == dragMask = "shown" => (drag # None \/ lostDrag)

\* Once the timers of a resize have run, an open dialog is inside the window,
\* or, when it is wider than the window, at its left edge (safeSetOffset).
StaysInWindow ==
    \A d \in Dialogs \ FullScreen :
        (Open(d) /\ <<"offset", d>> \notin timers)
            => (left[d] + width[d] <= viewport \/ left[d] = 0)

\* After the timers a full screen dialog has the width of the window.
FullScreenFills ==
    \A d \in FullScreen : (Open(d) /\ <<"size", d>> \notin timers) => width[d] = viewport
=============================================================================
