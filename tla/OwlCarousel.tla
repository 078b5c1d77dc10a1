---------------------------- MODULE OwlCarousel ----------------------------
(* The carousel of the web site (owl.carousel.js).  Its state is computed     *)
(* again by every resize of the window, every change of its items and when    *)
(* the page shows it; moves come from the controls, from the autoplay         *)
(* interval, from events of the page and from the mouse that drags it.        *)
(* Lengths are multiples of 5 pixels; ancestors of the carousel may be hidden *)
(* and then its width is 0.  Heights and the CSS fallback are left out.       *)
EXTENDS Integers, Sequences, FiniteSets, FiniteSetsExt, TLC

CONSTANTS
    Amounts,        \* how many items the carousel may have
    Widths,         \* the widths of the window
    ElemWidth,      \* [Widths -> Nat]: the width of the carousel in it
    OrignalItems,   \* options.items
    DesktopLimit,   \* itemsDesktop[0], or the number of items when it is false
    ItemsCustom,    \* itemsCustom, sorted; <<>> when it is false
    ItemsRules,     \* itemsDesktop .. itemsMobile, without those that are false
    ItemsScaleUp, ScrollPerPage, RewindNav, StopOnHover, LazyLoad, LazyFollow,
    AutoPlay,       \* the option autoPlay is not false
    Transition,     \* the option transitionStyle is not false
    DragBeforeAnimFinish,
    DragDistances,  \* how far the mouse drags, from where it was pressed
    Events,         \* the page sends the events owl.goTo, owl.play ...
    Rebuilds,       \* the page adds and removes items, re-initialises
    Hides           \* the page hides and shows the carousel

VARIABLES
    base,     \* the carousel, see Blank
    drag,     \* the drag under way: on, where it began, the fields newRelativeX, newPosX
    win,      \* the width of the window
    visible,  \* is the carousel visible
    timers,   \* pending "smallDelay", "checkVisible", "reload"
    lastWindowWidth,
    history   \* what happened: "click" a drag ended without a move, "back" it came
              \* back to where it began, "cut" it ended, or the items were rebuilt,
              \* during a transition, "rebuilt" the items were rebuilt since owl.stop
vars == <<base, drag, win, visible, timers, lastWindowWidth, history>>

NoDrag == [on |-> FALSE, relativePos |-> 0, newRelativeX |-> 0, newPosX |-> 0]
TimerNames == {"smallDelay", "checkVisible", "reload"}
Marks == {"click", "cut", "back", "rebuilt"}
Abs(x) == IF x < 0 THEN -x ELSE x
Round(a, b) == (2 * a + b) \div (2 * b)

(* positionsInArray, and the page of an item: loops and appendItemsSizes *)
Position(b, i) == -(i * b.itemWidth)
RoundPages(b, i) ==
    LET lastItem == b.amount - b.items
    IN  Cardinality({k \in 0..i : (k % b.items = 0 \/ k = lastItem) /\ k <= lastItem})
PositionsInArray(b) == [i \in 1..b.amount + 1 |-> Position(b, i - 1)]
PagesInArray(b) ==
    LET starts == SelectSeq([i \in 1..b.amount |-> i - 1],
                            LAMBDA i : RoundPages(b, i) # (IF i = 0 THEN 0 ELSE RoundPages(b, i - 1)))
    IN  [k \in DOMAIN starts |-> Position(b, starts[k])]
InArray(x, seq) == IF \E i \in DOMAIN seq : seq[i] = x
                   THEN Min({i \in DOMAIN seq : seq[i] = x}) - 1 ELSE -1

(* The data owl-page of the pagination buttons *)
Pages(b) ==
    LET lastPage == b.amount - (b.amount % b.items)
        starts == SelectSeq([i \in 1..b.amount |-> i - 1], LAMBDA i : i % b.items = 0)
    IN  [k \in DOMAIN starts |-> IF starts[k] = lastPage THEN b.amount - b.items ELSE starts[k]]

(* How many items the window shows; no matching rule leaves the last answer *)
ItemsForWidth(items, w) ==
    LET first == IF w > DesktopLimit THEN OrignalItems ELSE items
        LastOf(seq, default) == IF seq = <<>> THEN default ELSE seq[Len(seq)][2]
    IN  IF ItemsCustom # <<>> THEN LastOf(SelectSeq(ItemsCustom, LAMBDA r : r[1] <= w), first)
        ELSE LastOf(SelectSeq(ItemsRules, LAMBDA r : w <= r[1]), first)
UpdateItems(b) ==
    LET items == ItemsForWidth(b.items, win)
    IN  [b EXCEPT !.items = IF items > b.amount /\ ItemsScaleUp THEN b.amount ELSE items]

Maximum(b) == IF b.items > b.amount THEN 0 ELSE b.amount - b.items
CalculateAll(b) ==
    LET width == IF visible THEN ElemWidth[win] ELSE 0
        sized == [b EXCEPT !.itemWidth = Round(width, b.items)]
    IN  [sized EXCEPT !.maximumItem = Maximum(sized), !.maximumPixels = Position(sized, Maximum(sized))]

CheckPagination(b) ==
    LET round == RoundPages(b, b.currentItem)
    IN  IF round \in DOMAIN b.pages THEN [b EXCEPT !.active = round] ELSE b
CheckNavigation(b) ==
    IF RewindNav THEN b
    ELSE [b EXCEPT !.disabled = (IF b.currentItem = 0 THEN {"prev"} ELSE {})
                          \cup (IF b.currentItem = b.maximumItem THEN {"next"} ELSE {})]
UpdateControls(b) ==
    [CheckNavigation(CheckPagination([b EXCEPT !.pages = Pages(b), !.active = 0]))
        EXCEPT !.controls = b.items < b.amount]

VisibleItems(b) == b.currentItem .. b.currentItem + b.items - 1
(* lazyLoad starts to load the images of the items in view *)
Lazy(b) ==
    {i \in 0..b.amount - 1 :
        i \notin b.loaded /\ i < b.currentItem + b.items /\ (LazyFollow => i >= b.currentItem)}
EachMoveUpdate(b) ==
    [b EXCEPT !.loading = IF LazyLoad THEN @ \cup Lazy(b) ELSE @, !.visibleItems = VisibleItems(b)]

Play(b) == [b EXCEPT !.apStatus = "play", !.interval = @ \/ b.autoPlay]
CheckAp(b) == IF b.apStatus # "stop" THEN Play(b) ELSE b
Stop(b) == [b EXCEPT !.apStatus = "stop", !.interval = FALSE]

AfterGo(b) ==
    LET moved == [b EXCEPT !.prevItem = b.lastItem, !.lastItem = b.currentItem]
        told == EachMoveUpdate(CheckNavigation(CheckPagination(moved)))
    IN  IF moved.prevItem = b.currentItem THEN moved
        ELSE IF b.autoPlay THEN CheckAp(told) ELSE told

Clamp(b, position) ==
    IF position >= b.maximumItem THEN b.maximumItem ELSE IF position <= 0 THEN 0 ELSE position
MoveTo(b, item) == [b EXCEPT !.currentItem = item, !.left = Position(b, item)]
(* goTo; a transition of single items animates both items and blocks moves until it ends *)
GoTo(b, position, isDrag) ==
    LET to == MoveTo(b, Clamp(b, position))
    IN  IF b.isTransition THEN b
        ELSE IF Transition /\ ~isDrag /\ b.items = 1
        THEN [AfterGo(to) EXCEPT !.isTransition = TRUE,
                                 !.animating = {"prev", "current"}, !.ended = {}]
        ELSE AfterGo([to EXCEPT !.isCss3Finish = FALSE])
JumpTo(b, position) == AfterGo(MoveTo(b, IF position = -1 THEN b.maximumItem ELSE Clamp(b, position)))

UpdatePositionOnly(b) == JumpTo(b, b.currentItem)
UpdatePosition(b) ==
    LET jumped == JumpTo(b, b.currentItem)
    IN  IF b.autoPlay THEN CheckAp(jumped) ELSE jumped

Step(b) == IF ScrollPerPage THEN b.items ELSE 1
GoNext(b) ==
    LET item == b.currentItem + Step(b)
    IN  IF b.isTransition THEN b
        ELSE IF item <= b.maximumItem + Step(b) - 1 THEN GoTo(b, item, FALSE)
        ELSE IF RewindNav THEN GoTo(b, 0, FALSE)
        ELSE [b EXCEPT !.currentItem = b.maximumItem]
GoPrev(b) ==
    LET item == IF ScrollPerPage /\ b.currentItem > 0 /\ b.currentItem < b.items THEN 0
                ELSE b.currentItem - Step(b)
    IN  IF b.isTransition THEN b
        ELSE IF item >= 0 THEN GoTo(b, item, FALSE)
        ELSE IF RewindNav THEN GoTo(b, b.maximumItem, FALSE)
        ELSE [b EXCEPT !.currentItem = 0]

(* watchVisibility: the carousel and, when it is hidden, the interval that waits for it *)
WatchVisibility(b) == IF visible THEN b ELSE [b EXCEPT !.interval = FALSE]
Watched(ts) == IF visible THEN ts ELSE ts \cup {"checkVisible"}
UpdateVars(b) ==
    EachMoveUpdate(UpdateControls(UpdatePosition(CalculateAll(UpdateItems(WatchVisibility(b))))))

(* setVars and onStartup; the fields of a transition and of owl.stop survive them *)
Blank == [amount |-> 0, items |-> OrignalItems, itemWidth |-> 0, maximumItem |-> 0,
          maximumPixels |-> 0, currentItem |-> 0, prevItem |-> 0,
          lastItem |-> 0,                   \* the only element of prevArr between two moves
          left |-> 0,                       \* where the wrapper is, or moves to
          pages |-> <<>>, active |-> 0, disabled |-> {}, controls |-> FALSE,
          visibleItems |-> {}, loading |-> {}, loaded |-> {},
          autoPlay |-> AutoPlay, interval |-> FALSE, apStatus |-> "none", hoverStatus |-> "none",
          hoverBound |-> FALSE,             \* the handlers of stopOnHover are bound
          isCss3Finish |-> TRUE, isTransition |-> FALSE,
          animating |-> {}, ended |-> {},   \* items whose animation runs, and ended
          state |-> "off"]
SetVars(b, n) ==
    LET fresh == [b EXCEPT !.amount = n, !.currentItem = 0, !.prevItem = 0, !.lastItem = 0,
                           !.left = 0, !.loaded = {}, !.loading = {}, !.disabled = {},
                           !.pages = <<>>, !.active = 0, !.animating = {}, !.state = "on"]
        sized == UpdateControls(CalculateAll(UpdateItems(fresh)))
        bound == [sized EXCEPT !.hoverBound = @ \/ (StopOnHover /\ b.autoPlay)]
    IN  EachMoveUpdate(WatchVisibility(Play(bound)))

Init == /\ win \in Widths /\ visible \in (IF Hides THEN BOOLEAN ELSE {TRUE})
        /\ \E n \in Amounts : base = SetVars(Blank, n)
        /\ timers = Watched({}) /\ lastWindowWidth = win
        /\ drag = NoDrag /\ history = {}

On == base.state = "on"
page == <<win, visible, lastWindowWidth>>
Base(b) == base' = b /\ UNCHANGED <<drag, page, timers, history>>

(* The buttons, built here only with rewindNav false, and the pages can be     *)
(* pressed while they are shown; the page may send owl.next and owl.prev.      *)
CanPress == ~drag.on /\ base.controls /\ ~RewindNav
ClickNext == On /\ (CanPress \/ Events) /\ Base(GoNext(base))
ClickPrev == On /\ (CanPress \/ Events) /\ Base(GoPrev(base))
ClickPage ==
    /\ On /\ ~drag.on /\ base.controls
    /\ \E k \in DOMAIN base.pages :
        base.pages[k] # base.currentItem /\ Base(GoTo(base, base.pages[k], FALSE))

(* The autoplay interval; it may outlive the carousel *)
AutoPlayTick == base.interval /\ base.state # "off" /\ Base(GoNext(base))

(* The events owl.goTo, owl.jumpTo, owl.play and owl.stop of the page *)
OwlGoTo == Events /\ On /\ \E item \in -1..base.amount : Base(GoTo(base, item, FALSE))
OwlJumpTo == Events /\ On /\ \E item \in -1..base.amount : Base(JumpTo(base, item))
OwlPlay == Events /\ On /\ Base([Play([base EXCEPT !.autoPlay = TRUE]) EXCEPT !.hoverStatus = "play"])
OwlStop == /\ Events /\ On /\ base' = [Stop(base) EXCEPT !.hoverStatus = "stop"]
           /\ history' = history \ {"rebuilt"} /\ UNCHANGED <<drag, page, timers>>

MouseOver == base.hoverBound /\ Base(Stop(base))
MouseOut == base.hoverBound /\ base.hoverStatus # "stop" /\ Base(Play(base))

(* gestures: the carousel is where an animation has brought it when it is pressed *)
DragStart ==
    /\ On /\ ~drag.on /\ DragDistances # {} /\ base.amount > base.items
    /\ base.isCss3Finish \/ DragBeforeAnimFinish
    /\ base' = [base EXCEPT !.interval = @ /\ ~base.autoPlay]
    /\ \E at \in {base.left} \cup (IF base.isCss3Finish THEN {}
                                   ELSE {Position(base, base.prevItem)}) :
        drag' = [NoDrag EXCEPT !.on = TRUE, !.relativePos = at]
    /\ UNCHANGED <<page, timers, history>>

AtMost(a, b) == IF a < b THEN a ELSE b
AtLeast(a, b) == IF a > b THEN a ELSE b
DragMove ==
    /\ drag.on
    /\ \E rel \in DragDistances :
        LET raw == drag.relativePos + rel
            x == AtLeast(AtMost(raw, rel \div 5), base.maximumPixels + rel \div 5)
        IN  /\ drag' = [drag EXCEPT !.newRelativeX = rel, !.newPosX = x]
            /\ base' = [base EXCEPT !.left = x]
            /\ history' = IF rel = 0 THEN history \cup {"back"} ELSE history \ {"back"}
    /\ UNCHANGED <<page, timers>>

(* closestItem: the item, or page, that the drag has entered; the last match wins *)
ClosestItem(b) ==
    LET array == IF ScrollPerPage THEN PagesInArray(b) ELSE PositionsInArray(b)
        goal == drag.newPosX
        dead == b.itemWidth \div 20
        After(i) == IF i < Len(array) /\ array[i + 1] # 0 THEN array[i + 1] ELSE array[i] - b.itemWidth
        left == {i \in DOMAIN array : /\ i < Len(array) /\ goal - dead > array[i + 1]
                                      /\ goal - dead < array[i] /\ drag.newRelativeX >= 0}
        right == {i \in DOMAIN array : /\ goal + dead < array[i] /\ goal + dead > After(i)
                                       /\ drag.newRelativeX < 0}
        Item(i) == IF ~ScrollPerPage THEN (IF i \in left THEN i - 1 ELSE i)
                   ELSE InArray(IF i \in left THEN array[i] ELSE array[AtMost(i + 1, Len(array))],
                                PositionsInArray(b))
    IN  IF left \cup right = {} THEN b.currentItem ELSE Item(Max(left \cup right))
GetNewPosition(b) ==
    LET closest == ClosestItem(b)
    IN  IF closest > b.maximumItem THEN b.maximumItem ELSE IF drag.newPosX >= 0 THEN 0 ELSE closest

DragEnd ==
    LET item == GetNewPosition(base)
        moved == drag.newRelativeX # 0
        released == IF ~moved THEN base
                    ELSE GoTo([base EXCEPT !.currentItem = item], item, TRUE)
    IN  /\ drag.on
        /\ base' = released /\ drag' = NoDrag
        /\ history' = history
                        \cup (IF moved /\ released.prevItem # released.currentItem THEN {} ELSE {"click"})
                        \cup (IF moved /\ base.isTransition THEN {"cut"} ELSE {})
        /\ UNCHANGED <<page, timers>>

(* The timer of goTo; timers of earlier moves are not cleared, so it ends at any time *)
FinishTimer == ~base.isCss3Finish /\ Base([base EXCEPT !.isCss3Finish = TRUE])

(* animationend of the item that leaves or of the one that comes *)
AnimationEndOfOne ==
    /\ visible
    /\ \E side \in base.animating :
        LET ended == base.ended \cup {side}
            over == ended = {"prev"}
        IN  Base([base EXCEPT !.animating = @ \ {side}, !.ended = IF over THEN {} ELSE ended,
                              !.isTransition = @ /\ ~over])
AnimationEnd ==
    /\ visible
    /\ \E side \in base.animating :
        LET ended == base.ended \cup {side}
            over == ended = {"prev", "current"}
        IN  Base([base EXCEPT !.animating = @ \ {side}, !.ended = IF over THEN {} ELSE ended,
                              !.isTransition = @ /\ ~over])

(* lazyPreload: the image is complete, or was asked for a hundred times *)
ImageShown(i) ==
    /\ i \in base.loading
    /\ Base([base EXCEPT !.loading = @ \ {i}, !.loaded = @ \cup {i}])

(* The window is resized: the resizer clears the autoplay and starts its timer *)
Resize ==
    /\ \E w \in Widths \ {win} :
        /\ win' = w
        /\ IF w # lastWindowWidth /\ On
           THEN /\ base' = [base EXCEPT !.interval = @ /\ ~base.autoPlay]
                /\ timers' = timers \cup {"smallDelay"}
           ELSE UNCHANGED <<base, timers>>
    /\ UNCHANGED <<drag, visible, lastWindowWidth, history>>
ResizeSmallDelay ==
    /\ "smallDelay" \in timers
    /\ base' = UpdateVars(base) /\ lastWindowWidth' = win
    /\ timers' = Watched(timers \ {"smallDelay"})
    /\ UNCHANGED <<drag, win, visible, history>>

(* The page hides the carousel or shows it; nothing tells the carousel *)
Hide == Hides /\ visible' = ~visible /\ UNCHANGED <<base, drag, win, timers, lastWindowWidth, history>>
CheckVisible ==
    /\ "checkVisible" \in timers /\ visible
    /\ timers' = (timers \ {"checkVisible"}) \cup {"reload"}
    /\ UNCHANGED <<base, drag, page, history>>
Reload ==
    /\ "reload" \in timers
    /\ base' = UpdateVars(base) /\ timers' = Watched(timers \ {"reload"})
    /\ UNCHANGED <<drag, page, history>>

(* addItem, removeItem and reinit unwrap the items and build the carousel again *)
Unwrapped == history \cup {"rebuilt"} \cup (IF base.isTransition THEN {"cut"} ELSE {})
Rebuild(b, n) ==
    /\ base' = SetVars(b, n) /\ drag' = NoDrag
    /\ timers' = Watched(timers) /\ lastWindowWidth' = win
    /\ history' = Unwrapped \ {"click", "back"} /\ UNCHANGED <<win, visible>>
AddItem ==
    /\ Rebuilds /\ base.state \in {"on", "empty"}
    /\ LET n == IF base.state = "empty" THEN 1 ELSE base.amount + 1
       IN  n \in Amounts /\ Rebuild(base, n)
RemoveItem ==
    /\ Rebuilds /\ On
    /\ IF base.amount > 1 THEN base.amount - 1 \in Amounts /\ Rebuild(base, base.amount - 1)
       ELSE /\ base' = [base EXCEPT !.state = "empty", !.animating = {}] /\ drag' = NoDrag
            /\ history' = Unwrapped /\ UNCHANGED <<page, timers>>
Reinit == Rebuilds /\ On /\ Rebuild([base EXCEPT !.autoPlay = AutoPlay, !.items = OrignalItems], base.amount)
Destroy ==
    /\ Rebuilds /\ On
    /\ base' = [Stop(base) EXCEPT !.state = "destroyed", !.animating = {}]
    /\ timers' = timers \ {"checkVisible"} /\ drag' = NoDrag
    /\ UNCHANGED <<page, history>>

MoveActions == ClickNext \/ ClickPrev \/ ClickPage \/ AutoPlayTick \/ OwlGoTo \/ OwlJumpTo
PlayActions == OwlPlay \/ OwlStop \/ MouseOver \/ MouseOut
DragActions == DragStart \/ DragMove \/ DragEnd
Items == 0..Max(Amounts) - 1
TimerActions == FinishTimer \/ AnimationEnd \/ (\E i \in Items : ImageShown(i))
                \/ ResizeSmallDelay \/ CheckVisible \/ Reload
PageActions == Resize \/ Hide \/ AddItem \/ RemoveItem \/ Reinit \/ Destroy
Next == MoveActions \/ PlayActions \/ DragActions \/ TimerActions \/ PageActions

(* Animations of a visible element end, and images load or are given up. *)
Fairness == (\A i \in Items : WF_vars(ImageShown(i))) /\ WF_vars(AnimationEnd)
Spec == Init /\ [][Next]_vars /\ Fairness

----------------------------------------------------------------------------
(* The state has its type. *)
TypeOK ==
    /\ base.currentItem \in 0..base.maximumItem /\ base.prevItem \in 0..Max(Amounts)
    /\ base.left \in Int /\ base.interval \in BOOLEAN
    /\ base.state \in {"on", "empty", "destroyed"}
    /\ base.apStatus \in {"none", "play", "stop"}
    /\ drag.on \in BOOLEAN /\ win \in Widths /\ visible \in BOOLEAN
    /\ timers \subseteq TimerNames /\ history \subseteq Marks

Settled == On /\ ~drag.on /\ history \cap {"cut", "back"} = {}

(* When nobody drags it the wrapper is at the current item, whatever resizes,  *)
(* drags, ticks and rebuilds came before (goTo, jumpTo, updatePosition); a     *)
(* drag that ends during a transition, or exactly where it began, is excepted. *)
WrapperAtItem == Settled => base.left = Position(base, base.currentItem)

(* The active page is the last one that begins at or before the current item   *)
(* (checkPagination compares the rounds that two different loops have counted),*)
(* and the items in view are the ones the handlers are told.                   *)
ActivePageShowsItem ==
    Settled /\ base.controls =>
        /\ base.active = Max({k \in DOMAIN base.pages : base.pages[k] <= base.currentItem})
        /\ base.visibleItems = VisibleItems(base) /\ VisibleItems(base) \subseteq 0..base.amount - 1

(* With rewindNav false a button is disabled just when a press would not move  *)
(* the carousel (checkNavigation against next and prev).                       *)
ButtonsTellTruth ==
    Settled /\ ~RewindNav /\ ~base.isTransition =>
        /\ ("next" \in base.disabled) = (GoNext(base).currentItem = base.currentItem)
        /\ ("prev" \in base.disabled) = (GoPrev(base).currentItem = base.currentItem)

(* Autoplay that nobody stopped goes on after moves, drags, resizes and when   *)
(* the carousel is shown again; a drag that does not move it ends autoplay.    *)
AutoPlayGoesOn ==
    On /\ base.autoPlay /\ base.apStatus = "play" /\ ~drag.on /\ timers = {} /\ "click" \notin history
        => base.interval

(* A stopped carousel stays still: neither a resize, a move nor the mouse that *)
(* leaves it starts autoplay again; a rebuilt carousel plays again.            *)
StopLasts == base.hoverStatus = "stop" /\ "rebuilt" \notin history => ~base.interval

(* A destroyed carousel is not played by a timer that was pending; the mouse   *)
(* handlers of stopOnHover are not removed and may.                            *)
DestroyedIsQuiet == base.state = "destroyed" /\ ~base.hoverBound => ~base.interval

(* When no timer is pending a visible carousel has the size of its window,     *)
(* whether the window or the items changed while it was visible or hidden and  *)
(* whichever of smallDelay, checkVisible and reload came first.                *)
SizesFitWindow ==
    On /\ visible /\ timers = {} =>
        base.items = UpdateItems(base).items /\ base.itemWidth = Round(ElemWidth[win], base.items)

(* Each item in view has its image or is loading it.                           *)
InViewIsLoaded ==
    LazyLoad /\ Settled =>
        VisibleItems(base) \cap 0..base.amount - 1 \subseteq base.loaded \cup base.loading

(* A drag ends at an item less than an item (a page) from where it was let go, *)
(* or at its beginning, unless it ends on the very edge that closestItem skips.*)
DragLandsNear ==
    (drag.on /\ ~drag'.on /\ drag.newRelativeX # 0 /\ ~base.isTransition /\ base'.amount = base.amount
          /\ On /\ base'.state = "on" /\ base.itemWidth > 0 /\ base.left = drag.newPosX
          /\ (Abs(drag.newPosX) - base.itemWidth \div 20) % base.itemWidth # 0
          /\ (Abs(drag.newPosX) + base.itemWidth \div 20) % base.itemWidth # 0)
        => \/ Abs(base'.left - drag.newPosX) < Step(base) * base.itemWidth + base.itemWidth \div 20
           \/ base'.currentItem = 0 /\ drag.newPosX >= 0

(* A transition ends: the carousel does not stay blocked, unless its items were *)
(* taken away under the animation or it is hidden.                              *)
TransitionEnds == base.isTransition ~> (~base.isTransition \/ ~visible \/ "cut" \in history \/ ~On)

(* An image that loads is shown in the end, unless the items are built again. *)
ImagesCome == \A i \in Items : i \in base.loading ~> (i \notin base.loading \/ "rebuilt" \in history)
=============================================================================
