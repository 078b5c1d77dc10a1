---------------------------- MODULE EditorModes ----------------------------
(***************************************************************************)
(* The modes of a running editor: enabled or disabled, shown or hidden,    *)
(* visual or source, focused or not; with its content, the form field that *)
(* is kept in step with it, and the place of the cursor.  The content is a *)
(* set of pieces of text.  A bookmark is a pair of nodes in the content    *)
(* and lastBk their ids, which setDisabled and setHide share.              *)
(***************************************************************************)
EXTENDS Integers, FiniteSets, Sequences

CONSTANTS Texts,      \* pieces of text
          Spots,      \* places of the cursor other than the start of the body
          Commands,   \* commands that are undoable
          Gecko,      \* the browser is Firefox
          MaxSteps    \* bound: calls and user actions

Home == "home"
None == "none"
Places == Spots \cup {Home}

VARIABLES
    body,           \* pieces in the body of the iframe
    default,        \* the body is the initial content that the first focus clears
    marks,          \* bookmark nodes in the body: [id, at]
    cursor,
    lastBk,         \* id of the bookmark that is kept, or 0
    editable,       \* body.contentEditable
    shown,
    query, bkQuery, \* queryCommandState: "live" or "off", and the copy of it
    exc,            \* the commands that setDisabled exempts
    source, text,   \* source mode and the text in the source editor
    savedAt,        \* bakAddress
    leaving,        \* Firefox: the timers that end the way out of source mode
    field,          \* value of the form's textarea
    focused, bak,   \* the window of the iframe; _bakRange, or None
    showing,        \* the ranges that calls of setShow select 100 ms later, next first
    last,           \* history: what was typed or set last
    held,           \* history: the cursor when the editor was disabled, or None
    act, steps      \* history: the last call; number of calls

vars == <<body, default, marks, cursor, lastBk, editable, shown, query, bkQuery, exc, source, text, savedAt,
          leaving, field, focused, bak, showing, last, held, act, steps>>
content == <<body, default, marks, last>>
switches == <<lastBk, editable, shown, query, bkQuery, exc, showing>>
sourceVars == <<source, text, savedAt, leaving>>
focusVars == <<focused, bak>>

Init ==
    /\ \/ body = {} /\ default = FALSE
       \/ \E t \in Texts : body = {t} /\ default \in BOOLEAN
    /\ marks = {} /\ cursor \in Places /\ lastBk = 0
    /\ editable = TRUE /\ shown = TRUE
    /\ query = "live" /\ bkQuery = None /\ exc = {}
    /\ source = FALSE /\ text = {} /\ savedAt = Home /\ leaving = FALSE
    /\ field = {} /\ focused = FALSE /\ bak = None /\ showing = <<>>
    /\ last = body /\ held = None /\ act = "ready" /\ steps = 0

Ready == steps < MaxSteps
Called(name) == act' = name /\ steps' = steps + 1

\* getContent and hasContents.  In source mode getContent is replaced, hasContents is not.
HasContents == body # {}
GetContent == IF source THEN text ELSE body

\* setValue: the form's field takes the content, or nothing when there is none.
SetValue == IF HasContents THEN GetContent ELSE {}

-----------------------------------------------------------------------------
(* Bookmarks                                                               *)

Mark(id) == CHOOSE m \in marks : m.id = id
Found(id) == \E m \in marks : m.id = id
NewId == 1 + steps

\* if (!me.lastBk) me.lastBk = createBookmark(true)
KeepPlace ==
    IF lastBk # 0 THEN UNCHANGED <<lastBk, marks>>
    ELSE lastBk' = NewId /\ marks' = marks \cup {[id |-> NewId, at |-> cursor]}

\* try { moveToBookmark(lastBk); delete lastBk } catch: the start of the body.
PlaceKept(place) ==
    /\ place = IF Found(lastBk) THEN Mark(lastBk).at ELSE Home
    /\ IF Found(lastBk) THEN lastBk' = 0 /\ marks' = {m \in marks : m.id # lastBk}
       ELSE UNCHANGED <<lastBk, marks>>

-----------------------------------------------------------------------------
(* setEnabled, setDisabled, setShow, setHide                               *)

\* Mutant: the exempted commands of a second call replace the queries again.
SetDisabledAgain(e) ==
    /\ KeepPlace
    /\ editable' = FALSE /\ bkQuery' = query /\ query' = "off" /\ exc' = e
    /\ UNCHANGED <<shown, showing, body, default, last, cursor>>
    /\ Called("disable") /\ UNCHANGED <<sourceVars, focusVars, field>>

SetDisabled(e) ==
    /\ IF editable
       THEN /\ KeepPlace
            /\ editable' = FALSE /\ bkQuery' = query /\ query' = "off" /\ exc' = e
            /\ UNCHANGED <<shown, showing, body, default, last>>
       ELSE UNCHANGED <<switches, content>>
    /\ Called("disable") /\ UNCHANGED <<cursor, sourceVars, focusVars, field>>

SetEnabled ==
    /\ IF ~editable
       THEN /\ editable' = TRUE
            /\ PlaceKept(cursor')
            /\ query' = IF bkQuery = None THEN query ELSE bkQuery
            /\ bkQuery' = None
            /\ UNCHANGED <<shown, exc, showing, body, default, last>>
       ELSE UNCHANGED <<switches, content, cursor>>
    /\ Called("enable") /\ UNCHANGED <<sourceVars, focusVars, field>>

SetHide ==
    /\ KeepPlace /\ shown' = FALSE
    /\ UNCHANGED <<editable, query, bkQuery, exc, showing, body, default, last>>
    /\ Called("hide") /\ UNCHANGED <<cursor, sourceVars, focusVars, field>>
SetShow ==
    /\ IF shown THEN UNCHANGED <<switches, content>>
       ELSE /\ shown' = TRUE
            /\ \E p \in Places : PlaceKept(p) /\ showing' = Append(showing, p)
            /\ UNCHANGED <<editable, query, bkQuery, exc, body, default, last>>
    /\ Called("show") /\ UNCHANGED <<cursor, sourceVars, focusVars, field>>
\* A timer of setShow selects its range.
ShowTimer ==
    /\ showing # <<>> /\ cursor' = Head(showing) /\ showing' = Tail(showing)
    /\ act' = "shown" /\ UNCHANGED steps
    /\ UNCHANGED <<content, lastBk, editable, shown, query, bkQuery, exc, sourceVars, focusVars, field>>

-----------------------------------------------------------------------------
(* Content                                                                 *)

\* The body is written anew; bookmark nodes survive when it is appended to.
Replace(new, keepMarks) ==
    /\ body' = new /\ default' = FALSE /\ cursor' = Home /\ bak' = None
    /\ marks' = IF keepMarks THEN marks ELSE {}

\* setContent, with autoSyncData and the editor in a form.  The setContent of
\* source mode has no argument isAppendTo.
SetContent(t, append) ==
    /\ Called(IF append THEN "append" ELSE "set") /\ UNCHANGED <<switches, source, savedAt, leaving, focused>>
    /\ IF source
       THEN text' = {t} /\ UNCHANGED <<body, default, marks, cursor, bak, field>>
       ELSE /\ Replace(IF append THEN body \cup {t} ELSE {t}, append)
            /\ UNCHANGED text /\ field' = SetValue'
    /\ last' = IF append /\ ~source THEN body \cup {t} ELSE {t}

Sync ==
    /\ field' = SetValue
    /\ Called("sync") /\ UNCHANGED <<content, cursor, switches, sourceVars, focusVars>>

\* The user
Click(p) ==
    /\ shown /\ ~source /\ focused /\ cursor' = p
    /\ Called("click") /\ UNCHANGED <<content, switches, sourceVars, focusVars, field>>
Type(t) ==
    /\ shown /\ ~source /\ focused /\ editable /\ t \notin body
    /\ body' = body \cup {t} /\ last' = body'
    /\ Called("type") /\ UNCHANGED <<default, marks, cursor, switches, sourceVars, focusVars, field>>
EditSource(new) ==
    /\ source /\ shown /\ text' = new /\ last' = new
    /\ Called("edit") /\ UNCHANGED <<body, default, marks, cursor, switches, source, savedAt, leaving, focusVars, field>>

-----------------------------------------------------------------------------
(* Focus of the iframe's window                                            *)

Blur ==
    /\ focused /\ focused' = FALSE /\ bak' = cursor /\ field' = SetValue
    /\ Called("blur") /\ UNCHANGED <<content, cursor, switches, sourceVars>>

\* The listener of _setDefaultContent clears the initial content; then the
\* range of the last blur is selected.
Focus ==
    /\ ~focused /\ shown /\ ~source /\ focused' = TRUE
    /\ IF default
       THEN body' = {} /\ default' = FALSE /\ marks' = {} /\ last' = {} /\ cursor' = Home
       ELSE UNCHANGED content /\ cursor' = (IF bak = None THEN cursor ELSE bak)
    /\ Called("focus") /\ UNCHANGED <<bak, switches, sourceVars, field>>

-----------------------------------------------------------------------------
(* Commands and source mode                                                *)

State(cmd) ==
    IF query = "off" /\ cmd \notin exc THEN -1
    ELSE IF source /\ cmd # "source" THEN -1 ELSE 0

\* firstBeforeExecCommand: every command clears the initial content first.
ClearDefault ==
    IF default THEN body' = {} /\ default' = FALSE /\ marks' = {} /\ last' = {} /\ cursor' = Home
    ELSE UNCHANGED <<content, cursor>>

\* execCommand of an undoable command
Exec(cmd) ==
    /\ ClearDefault
    /\ Called(IF State(cmd) = -1 THEN "refused" ELSE "exec")
    /\ UNCHANGED <<switches, sourceVars, focusVars, field>>

\* The command source is not undoable: execCommand does not ask for its state.
\* The output rule leaves the bookmarks out of the source.
SourceOn ==
    /\ ~source /\ ~leaving
    /\ ClearDefault
    /\ source' = TRUE /\ text' = body' /\ savedAt' = cursor' /\ focused' = FALSE
    /\ editable' = (editable /\ ~Gecko)
    /\ bak' = IF focused THEN cursor ELSE bak
    /\ Called("source") /\ UNCHANGED <<lastBk, shown, query, bkQuery, exc, showing, leaving, field>>

\* setContent runs while getContent is still that of source mode.
SourceOff ==
    /\ source /\ source' = FALSE
    /\ body' = text /\ default' = FALSE /\ marks' = {} /\ bak' = None
    /\ field' = (IF text = {} THEN {} ELSE text)
    /\ IF Gecko THEN cursor' = Home /\ editable' = FALSE /\ leaving' = TRUE
       ELSE /\ cursor' \in (IF text = body THEN {savedAt} ELSE {savedAt, Home})
            /\ UNCHANGED <<editable, leaving>>
    /\ Called("visual") /\ UNCHANGED <<last, lastBk, shown, query, bkQuery, exc, showing, text, savedAt, focused>>

\* Firefox: contentEditable is set by a timer, whatever it was before.
GeckoTimer ==
    /\ leaving /\ leaving' = FALSE /\ editable' = TRUE
    /\ cursor' \in {savedAt, Home}
    /\ act' = "left" /\ UNCHANGED steps
    /\ UNCHANGED <<content, lastBk, shown, query, bkQuery, exc, showing, source, text, savedAt, focusVars, field>>

Step ==
    \/ \E e \in {{}, Commands} : SetDisabled(e)
    \/ SetEnabled \/ SetHide \/ SetShow
    \/ \E t \in Texts, append \in BOOLEAN : SetContent(t, append)
    \/ Sync \/ Blur \/ Focus \/ SourceOn \/ SourceOff
    \/ \E p \in Spots : Click(p)
    \/ \E t \in Texts : Type(t)
    \/ \E new \in SUBSET Texts : EditSource(new)
    \/ \E cmd \in Commands : Exec(cmd)
\* The place counts until the content is replaced or the editor is hidden or shown.
Holding ==
    held' = IF act' = "disable" /\ editable THEN IF lastBk = 0 THEN cursor ELSE None
            ELSE IF act' \in {"enable", "hide", "show", "shown", "set", "append", "visual"} \/ default # default'
            THEN None ELSE held
Next == ((Ready /\ Step) \/ ShowTimer \/ GeckoTimer) /\ Holding

Spec == Init /\ [][Next]_vars

-----------------------------------------------------------------------------
(* Properties                                                              *)

TypeOK ==
    /\ body \subseteq Texts /\ text \subseteq Texts /\ field \subseteq Texts /\ last \subseteq Texts
    /\ cursor \in Places /\ savedAt \in Places /\ bak \in Places \cup {None} /\ showing \in Seq(Places)
    /\ query \in {"live", "off"} /\ bkQuery \in {None, "live", "off"} /\ exc \subseteq Commands
    /\ {default, editable, shown, source, leaving, focused} \subseteq BOOLEAN
    /\ source => ~focused

\* No bookmark of an earlier setDisabled or setHide is left in the document.
NoOrphanMarks == {m.id : m \in marks} \subseteq {lastBk}

\* getContent returns what was typed or set last, in either mode and on the way
\* between them.  In source mode appending
\* is setting.
LastWins == GetContent = last

\* An editor that can be edited has its commands, and one that was disabled
\* refuses all but the exempted ones.
CommandsMatchMode ==
    /\ editable /\ ~source /\ ~leaving => query = "live"
    /\ ~editable /\ ~Gecko => query = "off"

\* In visual mode the form gets the content when the editor loses the focus, is
\* synchronised, is written to or leaves source mode.
FormFollows == act \in {"sync", "blur", "set", "append", "visual"} /\ ~source => field = body

\* The cursor is back where it was when the editor was disabled, whatever the
\* user does meanwhile, unless an older bookmark was still being kept, the content
\* was replaced, or the editor was hidden or shown in between.
PlaceComesBack == (act' = "enable" /\ ~editable /\ held # None) => cursor' = held
=============================================================================
