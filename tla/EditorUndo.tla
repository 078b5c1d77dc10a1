---------------------------- MODULE EditorUndo -----------------------------
(***************************************************************************)
(* Undo and redo of the web editor: the undo manager, the saves that typing *)
(* triggers at once, after 200 ms or after a composition, and the saves     *)
(* around every command.                                                    *)
(***************************************************************************)
EXTENDS Naturals, Sequences, FiniteSetsExt

CONSTANTS Contents,       \* what the body can hold, in the form getScene gives it
          Places,         \* addresses of a cursor
          Spans,          \* addresses of selections that are not collapsed
          maxUndoCount, maxInputCount,
          MaxPolls        \* bound: intervals waiting for the end of a composition

VARIABLES body, sel,      \* the document and the address of its selection
          um,             \* the undo manager: list, index (from 0), hasUndo, hasRedo
          keycont, timer, \* keys since the last save; saveSceneTimer is set
          polls,          \* running intervals (interalTimer)
          inputType,      \* a composition is under way
          isCollapsed,    \* FALSE from a key on a selection to the next keyup
          loose           \* history: keys typed since the body was last a saved scene

vars == <<body, sel, um, keycont, timer, polls, inputType, isCollapsed, loose>>

Scenes == [content : Contents, address : Places \cup Spans]
Scene == [content |-> body, address |-> sel]
EmptyManager == [list |-> <<>>, index |-> 0, hasUndo |-> FALSE, hasRedo |-> FALSE]

TypeOK ==
    /\ body \in Contents /\ sel \in Places \cup Spans
    /\ um.list \in Seq(Scenes) /\ Len(um.list) <= maxUndoCount
    /\ um.index \in 0 .. maxUndoCount - 1
    /\ um.hasUndo \in BOOLEAN /\ um.hasRedo \in BOOLEAN
    /\ keycont \in 0 .. maxInputCount
    /\ timer \in BOOLEAN /\ polls \in 0 .. MaxPolls
    /\ inputType \in BOOLEAN /\ isCollapsed \in BOOLEAN
    /\ loose \in 0 .. maxInputCount

Init ==
    /\ body \in Contents /\ sel \in Places
    /\ um = EmptyManager
    /\ keycont = 0 /\ timer = FALSE /\ polls = 0
    /\ inputType = FALSE /\ isCollapsed = TRUE
    /\ loose = 0

-----------------------------------------------------------------------------
(* The undo manager.  list[i] of the code is At(u, i).                     *)

Has(u, i) == i + 1 \in DOMAIN u.list
At(u, i) == u.list[i + 1]

Update(u) == [u EXCEPT !.hasRedo = Has(u, u.index + 1), !.hasUndo = u.index > 0 /\ Has(u, u.index - 1)]

\* list.slice(0, index + 1)
Kept(u) == IF u.list = <<>> THEN <<>> ELSE SubSeq(u.list, 1, u.index + 1)

Push(u, s) ==
    LET long == Append(Kept(u), s)
        list == IF Len(long) > maxUndoCount THEN Tail(long) ELSE long
    IN  Update([u EXCEPT !.list = list, !.index = Len(list) - 1])

\* Mutant: the selection only is compared.
KnownByAddress(u, s, notCompareRange) ==
    Has(u, u.index) /\ At(u, u.index).address = s.address

\* save does nothing if the scene is the current one, up to the selection where
\* notCompareRange is set.
Known(u, s, notCompareRange) ==
    /\ Has(u, u.index)
    /\ At(u, u.index).content = s.content
    /\ notCompareRange \/ At(u, u.index).address = s.address

Save(u, s, notCompareRange) == IF Known(u, s, notCompareRange) THEN u ELSE Push(u, s)

\* The index undo goes to: below the run of scenes whose content is the current
\* one, or the first scene.
UndoIndex(u) ==
    LET other == {i \in 0 .. u.index - 1 : At(u, i).content # At(u, u.index).content}
    IN  IF other = {} THEN 0 ELSE Max(other)

RedoIndex(u) ==
    LET other == {i \in u.index + 1 .. Len(u.list) - 1 : At(u, i).content # At(u, u.index).content}
    IN  IF other = {} THEN Len(u.list) - 1 ELSE Min(other)

UndoOf(u) == Update([u EXCEPT !.index = UndoIndex(u)])
RedoOf(u) == Update([u EXCEPT !.index = RedoIndex(u)])

-----------------------------------------------------------------------------
(* Handlers                                                                *)

\* restore puts the scene into the body and selects its address.
Restore(u) ==
    /\ um' = u
    /\ body' = At(u, u.index).content
    /\ sel' = At(u, u.index).address
    /\ keycont' = 0
    /\ loose' = 0
    /\ UNCHANGED <<timer, polls, inputType, isCollapsed>>

\* A shortcut, a click on the toolbar or into the text ends a composition first.
Undo == ~inputType /\ um.hasUndo /\ Restore(UndoOf(um))
Redo == ~inputType /\ um.hasRedo /\ Restore(RedoOf(um))

\* editor.reset
Reset ==
    /\ ~inputType
    /\ um' = EmptyManager /\ keycont' = 0
    /\ UNCHANGED <<body, sel, timer, polls, inputType, isCollapsed, loose>>

Select(s) ==
    /\ ~inputType /\ s # sel /\ sel' = s
    /\ UNCHANGED <<body, um, keycont, timer, polls, inputType, isCollapsed, loose>>

\* What the browser does after the keydown handlers: change the body and put the
\* cursor there, or start a composition.
Typed(c, p) == body' = c /\ sel' = p /\ UNCHANGED inputType
CompositionStart == inputType' = TRUE /\ UNCHANGED <<body, sel>>

\* A plain key on a selection: save now, and again at the keyup.
KeydownOnSpan ==
    /\ ~inputType /\ sel \in Spans
    /\ um' = Save(um, Scene, FALSE)
    /\ timer' = FALSE
    /\ keycont' = IF um' = um THEN keycont ELSE 0
    /\ isCollapsed' = FALSE
    /\ loose' = 1
    /\ UNCHANGED polls

\* A plain key at a cursor: the first scene, the timer, and a save once
\* maxInputCount keys are counted, which stops the timer.
KeydownAtCursor ==
    /\ ~inputType /\ sel \in Places
    /\ LET first == IF um.list = <<>> THEN Save(um, Scene, TRUE) ELSE um
           count == (IF first = um THEN keycont ELSE 0) + 1
           full == count >= maxInputCount
           last == IF full THEN Save(first, Scene, FALSE) ELSE first
       IN  /\ um' = last
           /\ keycont' = IF ~full THEN count ELSE IF last # first THEN 0 ELSE maxInputCount
           /\ timer' = ~full
           /\ loose' = IF full \/ first # um THEN 1 ELSE loose + 1
    /\ UNCHANGED <<polls, isCollapsed>>

Keyup ==
    /\ ~inputType /\ ~isCollapsed
    /\ um' = Save(um, Scene, FALSE)
    /\ timer' = FALSE
    /\ keycont' = IF um' = um THEN keycont ELSE 0
    /\ isCollapsed' = TRUE
    /\ loose' = 0
    /\ UNCHANGED <<body, sel, polls, inputType>>

Compose(c, p) ==
    /\ inputType
    /\ body' = c /\ sel' = p
    /\ UNCHANGED <<um, keycont, timer, polls, inputType, isCollapsed, loose>>

CompositionEnd ==
    /\ inputType
    /\ inputType' = FALSE
    /\ UNCHANGED <<body, sel, um, keycont, timer, polls, isCollapsed, loose>>

\* The 200 ms are over.
TimerSaves ==
    /\ timer /\ ~inputType
    /\ um' = Save(um, Scene, FALSE)
    /\ timer' = FALSE
    /\ keycont' = IF um' = um THEN keycont ELSE 0
    /\ loose' = 0
    /\ UNCHANGED <<body, sel, polls, inputType, isCollapsed>>

TimerWaits ==
    /\ timer /\ inputType
    /\ polls < MaxPolls
    /\ timer' = FALSE /\ polls' = polls + 1
    /\ UNCHANGED <<body, sel, um, keycont, inputType, isCollapsed, loose>>

\* The interval finds the composition ended.
PollSaves ==
    /\ polls > 0 /\ ~inputType
    /\ um' = Save(um, Scene, FALSE)
    /\ timer' = FALSE /\ polls' = polls - 1
    /\ keycont' = IF um' = um THEN keycont ELSE 0
    /\ loose' = 0
    /\ UNCHANGED <<body, sel, inputType, isCollapsed>>

\* execCommand of a command that needs undo: a save, the command, a save.  A save that
\* adds a scene clears the count, also when both leave a full list as it was.
ExecCommand(c, s) ==
    /\ ~inputType
    /\ LET first == Save(um, Scene, FALSE)
       IN  /\ um' = Save(first, [content |-> c, address |-> s], FALSE)
           /\ keycont' = IF first = um /\ um' = first THEN keycont ELSE 0
    /\ body' = c /\ sel' = s
    /\ timer' = FALSE
    /\ loose' = 0
    /\ UNCHANGED <<polls, inputType, isCollapsed>>

Next ==
    \/ Undo \/ Redo \/ Reset
    \/ \E s \in Places \cup Spans : Select(s)
    \/ \E c \in Contents, p \in Places :
          \/ (KeydownOnSpan \/ KeydownAtCursor) /\ Typed(c, p)
          \/ Compose(c, p)
    \/ (KeydownOnSpan \/ KeydownAtCursor) /\ CompositionStart
    \/ Keyup
    \/ CompositionEnd
    \/ TimerSaves \/ TimerWaits \/ PollSaves
    \/ \E c \in Contents, s \in Places \cup Spans : ExecCommand(c, s)

Spec == Init /\ [][Next]_vars

-----------------------------------------------------------------------------
(* Properties                                                              *)

\* The buttons tell the truth: undo is offered iff there is an earlier scene and
\* redo iff there is a later one, so that neither reads past the list.
FlagsMatch ==
    /\ um.hasUndo <=> um.index > 0
    /\ um.hasRedo <=> um.index + 1 < Len(um.list)

\* From a saved scene, an undo that changes the content is undone by a redo,
\* whatever runs of scenes with equal content both of them skip.
RedoInvertsUndo ==
    (um.hasUndo /\ body = At(um, um.index).content)
        => LET u == UndoOf(um)
           IN  At(u, u.index).content # body => At(RedoOf(u), RedoOf(u).index).content = body

\* When nothing is pending any more, no timer, no interval, no composition and no
\* keyup, at most one key, or what it composed, is missing from the history: the
\* one that reached maxInputCount, whose save came before it and stopped the timer.
AtMostOneKeyMissing ==
    (~timer /\ polls = 0 /\ ~inputType /\ isCollapsed /\ um.list # <<>>)
        => loose <= 1 /\ (loose = 0 => body = At(um, um.index).content)
=============================================================================
