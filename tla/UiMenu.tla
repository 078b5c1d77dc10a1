------------------------------- MODULE UiMenu -------------------------------
(* Popups, menus and buttons of the editor (ueditor.all.js: Popup, Stateful,  *)
(* Button, SplitButton, ColorButton, Combox, Menu, MenuItem and the plugin    *)
(* contextmenu).  A press of the mouse anywhere asks every open popup whether *)
(* it stays; submenus come and go with timers while the mouse moves.  The     *)
(* popup of a button and a menu have at most one level of submenus.           *)
EXTENDS Integers, FiniteSets

CONSTANTS Popups,        \* the popups of the page
          Menus,         \* those that are a Menu (the others are a plain Popup)
          Buttons,       \* the split buttons of the toolbar
          ButtonPopup,   \* [Buttons -> Popups]
          Elements,      \* the items and cells the mouse may be on
          Within,        \* [Elements -> Popups]: the popup an element is in
          SubMenu,       \* [Elements -> Popups \cup {None}]: the submenu of an item
          ContextMenu,   \* the menu of the right mouse button
          Combo,         \* the Combox among the buttons
          ValueOf,       \* the values of its items, a function on elements
          UnknownValue,  \* a value the Combox has no item for
          Page,          \* the rest of the page
          None

VARIABLES
    menu,     \* the popups and submenus, a record of sets:
              \*   rendered, shown: popups with a node, and those that are not hidden
              \*   opened: buttons and items in the state 'opened'
              \*   showing, closing: items whose _showingTimer, _closingTimer runs
    hover, active, disabled,  \* the states of the buttons
    mouse,    \* where the mouse is
    pressed,  \* what it was pressed on, or None
    combo     \* the Combox: its value and the item selected in it

buttons == <<hover, active, disabled>>
vars == <<menu, buttons, mouse, pressed, combo>>

ItemsOf(p) == {e \in Elements : Within[e] = p}
SubMenus == {SubMenu[e] : e \in Elements} \ {None}
OwnerOf(p) == IF p \in SubMenus THEN CHOOSE e \in Elements : SubMenu[e] = p ELSE None
HasSubMenu(e) == SubMenu[e] # None
Owners == {e \in Elements : HasSubMenu(e)}
Places == Elements \cup Buttons \cup {Page}

TypeOK ==
    /\ menu.rendered \subseteq Popups /\ menu.shown \subseteq menu.rendered
    /\ menu.opened \subseteq Buttons \cup Elements
    /\ menu.showing \subseteq Elements /\ menu.closing \subseteq Elements
    /\ \A s \in {hover, active, disabled} : s \subseteq Buttons
    /\ mouse \in Places
    /\ pressed \in Places \cup {None}
    /\ combo.selected \in DOMAIN ValueOf \cup {None}

Init ==
    /\ menu = [rendered |-> {}, shown |-> {}, opened |-> {}, showing |-> {}, closing |-> {}]
    /\ hover = {} /\ active = {} /\ disabled = {}
    /\ mouse = Page /\ pressed = None
    /\ combo = [value |-> UnknownValue, selected |-> None]

----------------------------------------------------------------------------
(* Popup *)

\* setPopup: the buttons that listen to 'show' and 'hide' of the popups.
ButtonsOf(ps) == {b \in Buttons : ButtonPopup[b] \in ps}

\* _show of a hidden popup fires 'show', which its button listens to
\* (_onPopupShow); showAnchorRect renders it before if need be.
ShowPopup(u, p) ==
    [u EXCEPT !.rendered = @ \cup {p},
              !.shown = @ \cup {p},
              !.opened = @ \cup (IF p \in u.shown THEN {} ELSE ButtonsOf({p}))]

\* hide of the popups ps fires 'hide': their buttons (_onPopupHide) and the
\* submenus of their items follow.
HidePopups(u, ps) ==
    LET hidden == ps \cap u.shown
        gone   == hidden \cup {SubMenu[e] : e \in {i \in Elements : Within[i] \in hidden}}
    IN  [u EXCEPT !.shown = @ \ gone,
                  !.opened = @ \ ButtonsOf(gone)]

\* queryAutoHide of a popup: it stays when the element is inside, or is the item
\* it is the submenu of.
Contains(p, el) == el \in Elements /\ (Within[el] = p \/ OwnerOf(p) = el)

\* Menu.queryAutoHide asks the open submenus of its items, too.
Stays(u, p, el) ==
    \/ Contains(p, el)
    \/ \E i \in ItemsOf(p) \cap u.opened : HasSubMenu(i) /\ Contains(SubMenu[i], el)

\* closeAllPopup, on every press of the mouse and with None on every scroll.
CloseAllPopup(u, el) == HidePopups(u, {p \in u.shown : ~Stays(u, p, el)})

----------------------------------------------------------------------------
(* MenuItem *)

\* delayShowSubMenu
DelayShowSubMenu(u, e) ==
    [u EXCEPT !.opened = @ \cup {e}, !.showing = @ \cup {e}, !.closing = @ \ {e}]

\* delayHideSubMenu of the items es
DelayHideKeepsShowing(u, es) == [u EXCEPT !.opened = @ \ es, !.closing = @ \cup es]
DelayHideSubMenu(u, es) ==
    [u EXCEPT !.opened = @ \ es, !.showing = @ \ es, !.closing = @ \cup es]

\* The mouse leaves an item: 'out'.
MouseOut(u, e) == IF e \in Elements /\ HasSubMenu(e) THEN DelayHideSubMenu(u, {e}) ELSE u

\* The mouse comes over an item: 'over', which is 'submenuover' for the others.
MouseOver(u, e) ==
    LET others == {i \in ItemsOf(Within[e]) : HasSubMenu(i) /\ i # e}
        v      == DelayHideSubMenu(u, others)
    IN  IF HasSubMenu(e) THEN DelayShowSubMenu(v, e) ELSE v

\* The mouse enters a submenu: its item is opened again; a Menu also stops the
\* timer that would close it, a plain Popup does not.
EnterSubMenu(u, p) ==
    LET i == OwnerOf(p) IN
    IF i = None THEN u
    ELSE [u EXCEPT !.opened = @ \cup {i}, !.closing = IF p \in Menus THEN @ \ {i} ELSE @]

\* An element that disappears below the mouse gets no event.
Below(u) == IF mouse \in Elements /\ Within[mouse] \notin u.shown THEN Page ELSE mouse
Becomes(u) == menu' = u /\ mouse' = Below(u)

----------------------------------------------------------------------------
\* The mouse moves on (Stateful_onMouseOut and Stateful_onMouseOver).
Move(x) ==
    /\ x # mouse
    /\ x \in Elements => Within[x] \in menu.shown
    /\ LET u == MouseOut(menu, mouse)
           entered == x \in Elements /\ (mouse \in Elements => Within[mouse] # Within[x])
       IN  menu' = IF x \notin Elements THEN u
                   ELSE LET v == MouseOver(u, x)
                        IN IF entered \/ Within[x] \notin Menus THEN EnterSubMenu(v, Within[x]) ELSE v
    /\ mouse' = x
    /\ hover' = (hover \ ({mouse} \ disabled)) \cup ({x} \cap (Buttons \ disabled))
    /\ active' = active \ ({mouse} \ disabled)
    /\ pressed' = None
    /\ UNCHANGED <<disabled, combo>>

\* A mouse button is pressed: every open popup is asked.
Press ==
    /\ pressed = None
    /\ Becomes(CloseAllPopup(menu, mouse))
    /\ active' = active \cup ({mouse} \cap (Buttons \ disabled))
    /\ pressed' = mouse
    /\ UNCHANGED <<hover, disabled, combo>>

Release == active' = active \ ({mouse} \ disabled) /\ pressed' = None

\* A click on a split button: the arrow, or the body of the Combox, shows the
\* popup; another press has closed it just before.
ClickButton ==
    /\ mouse \in Buttons /\ pressed = mouse
    /\ Release
    /\ IF mouse \in disabled THEN UNCHANGED <<menu, mouse>>
                             ELSE Becomes(ShowPopup(menu, ButtonPopup[mouse]))
    /\ UNCHANGED <<hover, disabled, combo>>

\* A click on an item with a submenu shows it at once.
ClickOwner ==
    /\ mouse \in Elements /\ pressed = mouse
    /\ HasSubMenu(mouse)
    /\ Release
    /\ Becomes(ShowPopup(menu, SubMenu[mouse]))
    /\ UNCHANGED <<hover, disabled, combo>>

SelectByIndex(e) == combo' = [value |-> ValueOf[e], selected |-> e]

\* A click on any other item or cell: an item of the Combox is selected
\* (selectByIndex) unless the command refuses; then all popups are closed.
ClickItem ==
    /\ mouse \in Elements /\ pressed = mouse
    /\ ~HasSubMenu(mouse)
    /\ Within[mouse] \in Menus \cup SubMenus
    /\ Release
    /\ \/ UNCHANGED combo
       \/ mouse \in DOMAIN ValueOf /\ SelectByIndex(mouse)
    /\ Becomes(CloseAllPopup(menu, None))
    /\ UNCHANGED <<hover, disabled>>

\* A cell of a picker: _onPickColor, _onPickTable hide their own popup, unless
\* the command refuses.
PickCell ==
    /\ mouse \in Elements /\ pressed = mouse
    /\ Within[mouse] \notin Menus \cup SubMenus
    /\ Release
    /\ \/ Becomes(HidePopups(menu, {Within[mouse]}))
       \/ UNCHANGED <<menu, mouse>>
    /\ UNCHANGED <<hover, disabled, combo>>

\* A scroll of the window or of the text.
Scroll ==
    /\ Becomes(CloseAllPopup(menu, None))
    /\ pressed' = IF mouse' = mouse THEN pressed ELSE None
    /\ UNCHANGED <<buttons, combo>>

\* destroy and clearItems: the nodes of the menu and of its submenus go, and the
\* timers of its items.
DestroyMenu(u) ==
    LET own == {ContextMenu} \cup SubMenus
    IN  [u EXCEPT !.rendered = @ \ own, !.shown = @ \ own,
                  !.opened = @ \ Elements, !.showing = {}, !.closing = {}]

\* The right mouse button in the text: the old menu is destroyed, a new one is
\* built, rendered with its submenus, and shown.
NewContextMenu ==
    /\ mouse = Page /\ pressed = Page
    /\ LET v == ShowPopup(DestroyMenu(menu), ContextMenu)
       IN  menu' = [v EXCEPT !.rendered = @ \cup SubMenus]
    /\ pressed' = None
    /\ UNCHANGED <<mouse, buttons, combo>>

\* The timers of an item, 250 and 400 ms after the mouse came and went.
ShowTimer(e) ==
    /\ e \in menu.showing
    /\ menu' = ShowPopup([menu EXCEPT !.showing = @ \ {e}], SubMenu[e])
    /\ UNCHANGED <<buttons, mouse, pressed, combo>>

CloseTimer(e) ==
    /\ e \in menu.closing
    /\ LET u == [menu EXCEPT !.closing = @ \ {e}]
       IN  Becomes(IF e \in u.opened THEN u ELSE HidePopups(u, {SubMenu[e]}))
    /\ pressed' = IF mouse' = mouse THEN pressed ELSE None
    /\ UNCHANGED <<buttons, combo>>

\* selectionchange: setDisabled and, for the Combox, setValue.
SetDisabled(b) ==
    /\ disabled' = disabled \cup {b}
    /\ hover' = hover \ {b} /\ active' = active \ {b}
    /\ UNCHANGED <<menu, mouse, pressed, combo>>

SetEnabled(b) ==
    /\ disabled' = disabled \ {b}
    /\ UNCHANGED <<menu, mouse, pressed, combo, hover, active>>

SetValue(v) ==
    LET found == {e \in DOMAIN ValueOf : ValueOf[e] = v} IN
    /\ combo' = [value |-> v, selected |-> IF found = {} THEN None ELSE CHOOSE e \in found : TRUE]
    /\ UNCHANGED <<menu, mouse, pressed, buttons>>

Next ==
    \/ \E x \in Places : Move(x)
    \/ Press \/ ClickButton \/ ClickOwner \/ ClickItem \/ PickCell
    \/ Scroll \/ NewContextMenu
    \/ \E e \in Owners : ShowTimer(e) \/ CloseTimer(e)
    \/ \E b \in Buttons : SetDisabled(b) \/ SetEnabled(b)
    \/ \E v \in {ValueOf[e] : e \in DOMAIN ValueOf} \cup {UnknownValue} : SetValue(v)

\* Timers run.
Fairness == \A e \in Owners : WF_vars(ShowTimer(e))
Spec == Init /\ [][Next]_vars /\ Fairness
----------------------------------------------------------------------------
(* Properties *)

PressStep == pressed = None /\ pressed' # None

\* A press outside all popups leaves none of them open, submenus included
\* (closeAllPopup and the listeners of 'hide').
OutsideClosesAll ==
    [][(PressStep /\ mouse \notin Elements) => menu'.shown = {}]_vars

\* A press inside a popup keeps it open, and the menu it is the submenu of, so
\* that the click that follows arrives: the item must still be 'opened', however
\* the mouse came into the submenu.
InsideStays ==
    [][(PressStep /\ mouse \in Elements) =>
          LET p == Within[mouse]
              up == IF OwnerOf(p) = None THEN {} ELSE {Within[OwnerOf(p)]}
          IN  (({p} \cup up) \cap menu.shown) \subseteq menu'.shown]_vars

\* When the mouse rests on an item and the timers have run, the menu shows the
\* submenu of this item and no other.
RestShowsItsSubMenu ==
    (/\ mouse \in Elements
     /\ mouse \in ItemsOf(ContextMenu)
     /\ menu.showing = {} /\ menu.closing = {})
        => (menu.shown \cap SubMenus) = {SubMenu[mouse]} \ {None}

\* A submenu that is shown belongs to an item in the state 'opened' or is about
\* to be closed: none is forgotten.
NoForgottenSubMenu ==
    \A e \in Elements : (HasSubMenu(e) /\ SubMenu[e] \in menu.shown)
        => (e \in menu.opened \/ e \in menu.closing)

\* The submenu of an item the mouse rests on comes in the end.
SubMenuComes ==
    \A e \in Owners : (mouse = e /\ e \in menu.showing)
        ~> (SubMenu[e] \in menu.shown \/ mouse # e)
=============================================================================
