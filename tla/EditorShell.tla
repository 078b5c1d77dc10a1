---------------------------- MODULE EditorShell ----------------------------
(* The frame around the text (ueditor.all.js, EditorUI and the plugins        *)
(* autoheight and autofloat): full screen and back, the frame that grows with *)
(* its content, the toolbar that stays in sight, the handle that resizes the  *)
(* frame.  They talk through the events fullscreenchanged and contentchange,  *)
(* and each keeps its own memory of the state before.  The browser is not     *)
(* Firefox, so that full screen is announced at once.                         *)
EXTENDS Integers, Sequences

CONSTANTS Heights,       \* the heights the content may have
          Viewports,     \* the heights of the window
          MinHeight,     \* options.minFrameHeight
          ScaleEnabled,  \* options.scaleEnabled
          Positions      \* the style position of the ancestors of the frame, inner first

VARIABLES
    fullscreen,    \* EditorUI: _fullscreen
    bak,           \* what setFullScreen keeps: _bakHtmlOverflow, _bakAutoHeight, _bakCssText1
    nodeStack,     \* the positions it keeps, of the whole page
    position,      \* the positions of the ancestors
    htmlOverflow,  \* the overflow of the page
    isFullscreen,  \* autoheight: what fullscreenchanged said last
    autoHeight,    \* editor.autoHeightEnabled
    listening,     \* adjustHeight listens to contentchange, keyup and mouseup
    bodyOverflow, bakOverflow,  \* overflowY of the text and what autoheight keeps of it
    lastHeight,    \* the height autoheight gave the frame last
    timers,        \* pending: "enable", "adjust", "resize", "float"
    content,       \* the height of the text
    frame,         \* the height of the frame
    minimum,       \* minFrameHeight, which setHeight changes
    viewport,      \* the height of the window
    above,         \* the top of the frame is scrolled out of the window
    floating,      \* the toolbar is fixed, and its placeholder inserted
    scaleOn,       \* the handle is shown
    editable,      \* contentEditable of the text
    source,        \* source mode
    undisturbed    \* no change of full screen was unannounced or met a pending adjustment

autoheight == <<isFullscreen, autoHeight, listening, bodyOverflow, bakOverflow, lastHeight>>
layout == <<fullscreen, bak, nodeStack, position, htmlOverflow>>
vars == <<layout, autoheight, timers, content, frame, minimum, viewport, above,
          floating, scaleOn, editable, source, undisturbed>>

TypeOK ==
    /\ {fullscreen, isFullscreen, autoHeight, listening, above, floating, scaleOn,
        editable, source, undisturbed} \subseteq BOOLEAN
    /\ bak.frame \in Nat
    /\ nodeStack \in {<<>>, Positions}
    /\ Len(position) = Len(Positions)
    /\ {htmlOverflow, bak.overflow, bodyOverflow, bakOverflow} \subseteq {"auto", "hidden"}
    /\ timers \subseteq {"enable", "adjust", "resize", "float"}
    /\ content \in Heights /\ viewport \in Viewports
    /\ {frame, minimum, lastHeight} \subseteq Nat

\* After the listeners of ready: with the handle autoheight is off.
Init ==
    /\ fullscreen = FALSE /\ isFullscreen = FALSE
    /\ bak = [overflow |-> "auto", autoHeight |-> FALSE, frame |-> MinHeight]
    /\ nodeStack = <<>> /\ position = Positions
    /\ htmlOverflow = "auto"
    /\ autoHeight = ~ScaleEnabled /\ listening = ~ScaleEnabled
    /\ bodyOverflow = (IF ScaleEnabled THEN "auto" ELSE "hidden") /\ bakOverflow = "auto"
    /\ lastHeight = 0
    /\ timers = IF ScaleEnabled THEN {} ELSE {"enable"}
    /\ content \in Heights /\ frame = MinHeight /\ minimum = MinHeight
    /\ viewport \in Viewports
    /\ above = FALSE /\ floating = FALSE
    /\ scaleOn = ScaleEnabled
    /\ editable = TRUE /\ source = FALSE
    /\ undisturbed = TRUE

Taller(a, b) == IF a > b THEN a ELSE b

\* adjustHeight: looks at the height again in 50 ms.
Adjusted(pending, full, inSource) ==
    IF full \/ inSource THEN pending \ {"adjust"} ELSE pending \cup {"adjust"}

\* enableAutoHeight, once autoHeightEnabled is set.
EnableAutoHeight ==
    /\ autoHeight' = TRUE /\ listening' = TRUE
    /\ bakOverflow' = bodyOverflow /\ bodyOverflow' = "hidden"

\* disableAutoHeight: the listener of afterinserthtml stays.
DisableAutoHeight ==
    /\ autoHeight' = FALSE /\ listening' = FALSE
    /\ bodyOverflow' = bakOverflow
    /\ UNCHANGED bakOverflow

\* The listeners of fullscreenchanged, which is fired when the text is editable:
\* autoheight,
AutoHeightTold(f) == isFullscreen' = IF editable THEN f ELSE isFullscreen

\* the handle,
ScaleTold(f) ==
    scaleOn' = IF ~editable THEN scaleOn
               ELSE IF f THEN FALSE
               ELSE scaleOn \/ (ScaleEnabled /\ ~source)

\* and the toolbar, which also listens to beforefullscreenchange.
ToolbarTold(f) == floating' = IF f THEN FALSE ELSE IF editable THEN above ELSE floating

Announce(f) == AutoHeightTold(f) /\ ScaleTold(f) /\ ToolbarTold(f)

----------------------------------------------------------------------------
\* setFullScreen(true): the ancestors become static, everything is kept, and
\* the frame gets the height of the window.
EnterFullScreenForgets ==
    /\ ~fullscreen
    /\ fullscreen' = TRUE
    /\ nodeStack' = nodeStack \o position
    /\ position' = [i \in DOMAIN position |-> "static"]
    /\ bak' = [overflow |-> "hidden", autoHeight |-> autoHeight, frame |-> frame]
    /\ IF autoHeight THEN DisableAutoHeight
                     ELSE UNCHANGED <<autoHeight, listening, bodyOverflow, bakOverflow>>
    /\ htmlOverflow' = "hidden"
    /\ frame' = viewport
    /\ Announce(TRUE)
    /\ undisturbed' = (undisturbed /\ editable /\ timers \cap {"adjust", "enable"} = {})
    /\ UNCHANGED <<lastHeight, timers, content, minimum, viewport, above, editable, source>>
EnterFullScreen ==
    /\ ~fullscreen
    /\ fullscreen' = TRUE
    /\ nodeStack' = nodeStack \o position
    /\ position' = [i \in DOMAIN position |-> "static"]
    /\ bak' = [overflow |-> htmlOverflow, autoHeight |-> autoHeight, frame |-> frame]
    /\ IF autoHeight THEN DisableAutoHeight
                     ELSE UNCHANGED <<autoHeight, listening, bodyOverflow, bakOverflow>>
    /\ htmlOverflow' = "hidden"
    /\ frame' = viewport
    /\ Announce(TRUE)
    /\ undisturbed' = (undisturbed /\ editable /\ timers \cap {"adjust", "enable"} = {})
    /\ UNCHANGED <<lastHeight, timers, content, minimum, viewport, above, editable, source>>

\* setFullScreen(false): everything kept is put back.
LeaveFullScreen ==
    /\ fullscreen
    /\ fullscreen' = FALSE
    /\ position' = [i \in DOMAIN position |-> nodeStack[i]]
    /\ nodeStack' = SubSeq(nodeStack, Len(position) + 1, Len(nodeStack))
    /\ frame' = bak.frame
    /\ IF bak.autoHeight THEN EnableAutoHeight
                         ELSE UNCHANGED <<autoHeight, listening, bodyOverflow, bakOverflow>>
    /\ timers' = IF bak.autoHeight THEN timers \cup {"enable"} ELSE timers
    /\ htmlOverflow' = bak.overflow
    /\ Announce(FALSE)
    /\ undisturbed' = (undisturbed /\ editable)
    /\ UNCHANGED <<bak, lastHeight, content, minimum, viewport, above, editable, source>>

\* The timer enableAutoHeight starts.
EnableTimer ==
    /\ "enable" \in timers
    /\ timers' = Adjusted(timers \ {"enable"}, isFullscreen, source)
    /\ UNCHANGED <<layout, autoheight, content, frame, minimum, viewport, above, floating,
                   scaleOn, editable, source, undisturbed>>

\* The timer of adjustHeight: the frame gets the height of the text.  It does
\* not ask again about full screen.
AdjustTimer ==
    LET currentHeight == Taller(content, minimum) IN
    /\ "adjust" \in timers
    /\ timers' = timers \ {"adjust"}
    /\ frame' = IF currentHeight # lastHeight THEN currentHeight ELSE frame
    /\ lastHeight' = currentHeight
    /\ UNCHANGED <<layout, isFullscreen, autoHeight, listening, bodyOverflow, bakOverflow,
                   content, minimum, viewport, above, floating, scaleOn, editable, source,
                   undisturbed>>

\* Typing or a command changes the text: contentchange.
ContentChange(h) ==
    /\ editable /\ ~source
    /\ content' = h
    /\ timers' = IF listening THEN Adjusted(timers, isFullscreen, source) ELSE timers
    /\ UNCHANGED <<layout, autoheight, frame, minimum, viewport, above, floating, scaleOn,
                   editable, source, undisturbed>>

\* The command inserthtml also fires afterinserthtml, whose listener is added by
\* enableAutoHeight and never removed.
InsertHtml(h) ==
    /\ editable /\ ~source
    /\ content' = h
    /\ timers' = IF ScaleEnabled THEN timers ELSE Adjusted(timers, isFullscreen, source)
    /\ UNCHANGED <<layout, autoheight, frame, minimum, viewport, above, floating, scaleOn,
                   editable, source, undisturbed>>

\* The command source: on the way back the text is set, which is a change.
Source ==
    /\ editable
    /\ source' = ~source
    /\ content' \in (IF source THEN Heights ELSE {content})
    /\ timers' = (IF source /\ listening THEN Adjusted(timers, isFullscreen, FALSE) ELSE timers)
                    \cup {"float"}
    /\ UNCHANGED <<layout, autoheight, frame, minimum, viewport, above, floating, scaleOn,
                   editable, undisturbed>>

\* setHeight(h) of the page of the editor, in full screen as well: the event setHeight
\* ends autoheight.
SetHeight(h) ==
    /\ frame' = h /\ minimum' = h
    /\ IF ScaleEnabled THEN UNCHANGED <<autoHeight, listening, bodyOverflow, bakOverflow>>
                       ELSE DisableAutoHeight
    /\ UNCHANGED <<layout, isFullscreen, lastHeight, timers, content, viewport, above, floating,
                   scaleOn, editable, source, undisturbed>>

\* _scale: the handle is dragged and released.
ScaleDrag(h) ==
    /\ scaleOn /\ h >= minimum
    /\ frame' = h
    /\ UNCHANGED <<layout, autoheight, timers, content, minimum, viewport, above, floating,
                   scaleOn, editable, source, undisturbed>>

\* The listener of selectionchange shows or hides the handle.
ScaleQueried(edits, inSource) ==
    scaleOn' = IF ScaleEnabled THEN edits /\ ~inSource ELSE scaleOn

SelectionChange ==
    /\ ScaleQueried(editable, source)
    /\ UNCHANGED <<layout, autoheight, timers, content, frame, minimum, viewport, above,
                   floating, editable, source, undisturbed>>

\* setDisabled('fullscreen') and setEnabled.
SetEditable ==
    /\ editable' = ~editable
    /\ ScaleQueried(editable', source)
    /\ UNCHANGED <<layout, autoheight, timers, content, frame, minimum, viewport, above,
                   floating, source, undisturbed>>

\* The window gets another height: in full screen the frame follows at once, a
\* timer later; the toolbar looks at its place in any case.
WindowResize(v) ==
    /\ viewport' = v
    /\ timers' = timers \cup {"resize"}
    /\ floating' = (~fullscreen /\ above)
    /\ UNCHANGED <<layout, autoheight, content, frame, minimum, above, scaleOn, editable,
                   source, undisturbed>>

\* updateFullScreenTime
ResizeTimer ==
    /\ "resize" \in timers
    /\ timers' = timers \ {"resize"}
    /\ frame' = IF fullscreen THEN viewport ELSE frame
    /\ UNCHANGED <<layout, autoheight, content, minimum, viewport, above, floating, scaleOn,
                   editable, source, undisturbed>>

\* The page is scrolled: updateFloating.  In full screen the frame covers the
\* window and the page does not scroll.
Scroll ==
    /\ ~fullscreen
    /\ above' = ~above
    /\ floating' = above'
    /\ UNCHANGED <<layout, autoheight, timers, content, frame, minimum, viewport, scaleOn,
                   editable, source, undisturbed>>

\* A key or another mode: updateFloating in a moment.
FloatTimer ==
    /\ "float" \in timers
    /\ timers' = timers \ {"float"}
    /\ floating' = (~fullscreen /\ above)
    /\ UNCHANGED <<layout, autoheight, content, frame, minimum, viewport, above, scaleOn,
                   editable, source, undisturbed>>

Next ==
    \/ EnterFullScreen \/ LeaveFullScreen
    \/ EnableTimer \/ AdjustTimer \/ ResizeTimer \/ FloatTimer
    \/ \E h \in Heights : ContentChange(h) \/ InsertHtml(h) \/ SetHeight(h) \/ ScaleDrag(h)
    \/ Source \/ SelectionChange \/ SetEditable
    \/ \E v \in Viewports : WindowResize(v)
    \/ Scroll

\* Timers run.
Fairness == WF_vars(EnableTimer) /\ WF_vars(AdjustTimer)
Spec == Init /\ [][Next]_vars /\ Fairness
----------------------------------------------------------------------------
(* Properties *)

\* setFullScreen(false) gives the page everything back that setFullScreen(true)
\* took: its scroll bars and the position of every ancestor of the frame.
PageIsRestored ==
    ~fullscreen => /\ htmlOverflow = "auto"
                   /\ position = Positions
                   /\ nodeStack = <<>>

\* autoheight hides the scroll bar of the text exactly while it is on, although
\* full screen and setHeight turn it off and on (bakOverflow), and it listens
\* exactly then.
ScrollBarOfText == /\ (bodyOverflow = "hidden") <=> autoHeight
                   /\ listening = autoHeight

\* The frame grows with the text: once the timers have run it has the height of
\* the text, unless full screen came or went unannounced or met a timer.
HeightFollowsText ==
    (undisturbed /\ autoHeight /\ ~source /\ timers \cap {"enable", "adjust"} = {})
        => frame = Taller(content, minimum)

\* The toolbar floats exactly while the frame's top is out of sight, and never
\* in full screen, whatever changed the mode (setFloating, unsetFloating).
ToolbarInSight ==
    (undisturbed /\ "float" \notin timers) => (floating <=> (above /\ ~fullscreen))

\* A text that got higher than its frame gets a frame that fits in the end.
HeightCatchesUp ==
    (autoHeight /\ undisturbed /\ ~source /\ frame # Taller(content, minimum))
        ~> (frame = Taller(content, minimum) \/ fullscreen \/ ~autoHeight \/ source \/ ~undisturbed)

\* "当全屏时不能执行自动长高": no height of autoheight is applied in full screen.
NoAutoHeightInFullScreen ==
    [][(fullscreen /\ fullscreen') => lastHeight' = lastHeight]_vars
=============================================================================
