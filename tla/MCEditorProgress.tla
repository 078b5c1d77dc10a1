-------------------------- MODULE MCEditorProgress --------------------------
(***************************************************************************)
(* The parts of the editor in which something must happen in the end:      *)
(* drafts, the frame that grows, submenus, the start of an editor,         *)
(* requests and images on their way.  They share no state that is modelled,*)
(* so each behaviour is about one of them, the subject; the others rest in *)
(* an initial state.                                                       *)
(***************************************************************************)
EXTENDS Naturals, Sequences, TLC

CONSTANTS Subjects,   \* the parts that are looked at
          Requests, Jsonp, TimeOut,  \* of Ajax
          Popups, Menus, Buttons, ButtonPopup, Elements, Within, SubMenu, ContextMenu,   \* of UiMenu
          Combo, ValueOf, UnknownValue, Page, Nothing

VARIABLES
    subject,
    \* AutoSave
    ready, alive, content, stored, drafts, timer, recent, noteTimer, uid, shown, calm, actor, count,
    \* EditorShell
    fullscreen, bak, nodeStack, position, htmlOverflow, isFullscreen, autoHeight, listening, bodyOverflow,
    bakOverflow, lastHeight, timers, textHeight, frame, minimum, viewport, above, floating, scaleOn,
    editable, source, undisturbed,
    \* UiMenu
    menu, hover, active, disabled, mouse, pressed, combo,
    \* EditorLifecycle
    doc, domReady, i18n, file, instances, ed,
    \* Ajax
    req,
    \* LateImages
    images, pasting, um, up, form, catches, tick, history

Drafts == INSTANCE AutoSave WITH Editors <- {"a", "b"}, AtOnce <- FALSE, MaxChanges <- 2
DraftsAtOnce == INSTANCE AutoSave WITH Editors <- {"a", "b"}, AtOnce <- TRUE, MaxChanges <- 2

Grows == INSTANCE EditorShell WITH Heights <- {1, 3}, Viewports <- {6}, MinHeight <- 1, ScaleEnabled <- FALSE,
            Positions <- <<"relative", "absolute">>, content <- textHeight
Handle == INSTANCE EditorShell WITH Heights <- {1, 3}, Viewports <- {2, 6}, MinHeight <- 2, ScaleEnabled <- TRUE,
            Positions <- <<"relative", "absolute">>, content <- textHeight

Menu == INSTANCE UiMenu WITH None <- Nothing

\* Every item and cell is in a popup; a submenu is that of one item, which is in the
\* context menu; the other popups are those of the buttons.
ASSUME MenuAssumption ==
    /\ Menus \subseteq Popups /\ ContextMenu \in Menus
    /\ Within \in [Elements -> Popups]
    /\ SubMenu \in [Elements -> Popups \cup {Nothing}]
    /\ ButtonPopup \in [Buttons -> Popups \ ({ContextMenu} \cup Menu!SubMenus)]
    /\ ContextMenu \notin Menu!SubMenus
    /\ \A e \in Menu!Owners : Within[e] = ContextMenu
    /\ \A e, i \in Menu!Owners : SubMenu[e] = SubMenu[i] => e = i
    /\ DOMAIN ValueOf \subseteq Elements
    /\ Elements \cap Buttons = {} /\ Page \notin Elements \cup Buttons
    /\ Nothing \notin Popups \cup Elements \cup Buttons \cup {Page}

Life == INSTANCE EditorLifecycle WITH Editors <- {1, 2}, Ids <- {"cont", "note"}, Fns <- {"f"}, Handlers <- {}, NoEditor <- 0
Config == INSTANCE EditorLifecycle WITH Editors <- {1, 2}, Ids <- {"cont"}, Fns <- {}, Handlers <- {"h", "k"}, NoEditor <- 0

\* The requests with a script are among those that are made.
ASSUME JsonpAssumption == Jsonp \subseteq Requests
Ajax == INSTANCE Ajax

Late == INSTANCE LateImages WITH Files <- {"a", "b"}, Images <- {"a", "b"}, Allowed <- {"a", "b"}, Remotes <- {},
            Pastes <- {}, MaxImages <- 2, MaxCatches <- 1, MaxScenes <- 2, doc <- images
Fetch == INSTANCE LateImages WITH Files <- {"a", "b"}, Images <- {}, Allowed <- {}, Remotes <- {"r", "q"},
            Pastes <- {<<"r", "q">>, <<"r", "r">>}, MaxImages <- 2, MaxCatches <- 2, MaxScenes <- 2, doc <- images

-----------------------------------------------------------------------------

saving == <<ready, alive, content, stored, drafts, timer, recent, noteTimer, uid, shown, calm, actor, count>>
shell == <<fullscreen, bak, nodeStack, position, htmlOverflow, isFullscreen, autoHeight, listening, bodyOverflow,
           bakOverflow, lastHeight, timers, textHeight, frame, minimum, viewport, above, floating, scaleOn,
           editable, source, undisturbed>>
menus == <<menu, hover, active, disabled, mouse, pressed, combo>>
life == <<doc, domReady, i18n, file, instances, ed>>
late == <<images, pasting, um, up, form, catches, tick, history>>
vars == <<subject, saving, shell, menus, life, req, late>>

Init ==
    /\ subject \in Subjects
    /\ Drafts!Init
    /\ subject \notin {"drafts", "drafts at once"} => content = [e \in {"a", "b"} |-> 0] /\ actor = "a"
    /\ IF subject = "handle" THEN Handle!Init ELSE Grows!Init
    /\ subject \notin {"frame", "handle"} => textHeight = 1
    /\ Menu!Init
    /\ IF subject = "config" THEN Config!Init ELSE Life!Init
    /\ subject \notin {"life", "config"} => doc = "complete" /\ i18n
    /\ Ajax!Init
    /\ Late!Init

DraftSteps == /\ \/ subject = "drafts" /\ Drafts!Next
                 \/ subject = "drafts at once" /\ DraftsAtOnce!Next
              /\ UNCHANGED <<subject, shell, menus, life, req, late>>
ShellSteps == /\ \/ subject = "frame" /\ Grows!Next
                 \/ subject = "handle" /\ Handle!Next
              /\ UNCHANGED <<subject, saving, menus, life, req, late>>
MenuSteps == subject = "menus" /\ Menu!Next /\ UNCHANGED <<subject, saving, shell, life, req, late>>
LifeSteps == /\ \/ subject = "life" /\ Life!Next
                \/ subject = "config" /\ Config!Next
             /\ UNCHANGED <<subject, saving, shell, menus, req, late>>
AjaxSteps == subject = "ajax" /\ Ajax!Next /\ UNCHANGED <<subject, saving, shell, menus, life, late>>
LateSteps == /\ \/ subject = "images" /\ Late!Next
                \/ subject = "fetch" /\ Fetch!Next
             /\ UNCHANGED <<subject, saving, shell, menus, life, req>>

Next == DraftSteps \/ ShellSteps \/ MenuSteps \/ LifeSteps \/ AjaxSteps \/ LateSteps

\* The timers of a page run, its files and frames load, and a server answers or the
\* connection breaks.
Fairness ==
    /\ \A e \in {"a", "b"} : /\ WF_saving(subject = "drafts" /\ Drafts!SaveTimer(e))
                            /\ WF_saving(subject = "drafts" /\ Drafts!MinTimePasses(e))
                            /\ WF_saving(subject = "drafts" /\ Drafts!Notice(e))
    /\ WF_saving(subject = "drafts" /\ \E n \in shown : Drafts!HideMessage(n))
    /\ WF_shell(subject = "frame" /\ Grows!EnableTimer)
    /\ WF_shell(subject = "frame" /\ Grows!AdjustTimer)
    /\ \A e \in Menu!Owners : WF_menus(subject = "menus" /\ Menu!ShowTimer(e))
    /\ WF_life(subject = "life" /\ Life!PageProceeds)
    /\ WF_life(subject = "life" /\ (Life!FileLoads \/ Life!FileFails))
    /\ \A e \in {1, 2} : WF_life(subject = "life" /\ Life!FrameLoads(e))
    /\ \A r \in Requests : WF_req(subject = "ajax" /\ Ajax!Timer(r))
    /\ \A f \in {"a", "b"} :
          WF_late(subject = "images" /\ ((\E ok \in BOOLEAN : Late!Answer(f, ok)) \/ Late!Lost(f)))
    /\ WF_late(subject = "images" /\ \E ok \in BOOLEAN : Late!FrameLoads(ok))
Spec == Init /\ [][Next]_vars /\ Fairness

-----------------------------------------------------------------------------
(* The popups of the runs: those of a colour button and of a Combox; a     *)
(* context menu with a submenu, the picker of the cell alignment as a      *)
(* second one, and a plain item.                                           *)

Items == {"red", "p", "tableItem", "alignItem", "copyItem", "insertRow", "left"}
PopupOfButton == "forecolor" :> "colors" @@ "paragraph" :> "list"
PopupOfItem == "red" :> "colors" @@ "p" :> "list" @@ "tableItem" :> "context"
               @@ "alignItem" :> "context" @@ "copyItem" :> "context" @@ "insertRow" :> "table" @@ "left" :> "align"
SubMenuOfItem == [e \in Items |-> CASE e = "tableItem" -> "table" [] e = "alignItem" -> "align" [] OTHER -> "none"]
ValueOfItem == "p" :> "p"

-----------------------------------------------------------------------------
(* Properties                                                              *)

\* When no save is due the stored draft is the document, unless a save was vetoed,
\* failed or skipped or the draft was cleared or loaded since; and although all drafts
\* are in one stored object, an editor changes only its own (plugin autosave).
DraftsAreSound ==
    /\ [](subject \in {"drafts", "drafts at once"} => Drafts!TypeOK /\ Drafts!DraftIsCurrent)
    /\ Drafts!OwnDraftOnly

\* However full screen, the source mode and the timers of autoheight cross: the page gets
\* everything back that full screen took, autoheight hides the scroll bar of the text
\* exactly while it is on, the frame has the height of the text once the timers have run,
\* and the toolbar floats exactly while the top of the frame is out of sight.
FrameFollows ==
    /\ subject \in {"frame", "handle"} => /\ Handle!TypeOK /\ Grows!PageIsRestored
                                          /\ Grows!ScrollBarOfText /\ Grows!ToolbarInSight
    /\ subject = "frame" => Grows!HeightFollowsText

\* A press outside all popups leaves none open and one inside keeps it and its parent;
\* when the mouse rests on an item and the timers have run, the submenu of this item is
\* shown and no other.
MenusFollowMouse ==
    /\ [](subject = "menus" => /\ Menu!TypeOK
                               /\ Menu!RestShowsItsSubMenu /\ Menu!NoForgottenSubMenu)
    /\ Menu!OutsideClosesAll /\ Menu!InsideStays

\* Whoever of the page, the language file, the frame and the server comes first: no
\* editor is built before its language is there, every callback of ready has run when it
\* is ready and none before, each handler of afterConfigReady runs once, and getEditor
\* returns no dead editor.
StartIsOrdered ==
    /\ subject = "config" => Config!TypeOK
    /\ subject # "config" => Life!TypeOK /\ Life!InstancesAreLive
    /\ Life!BuiltInItsLanguage /\ Life!ReadyRunsAll /\ Life!ConfigHandlersRunOnce

\* A caller of UE.ajax is told once however answer, headers and timer cross, a JSONP
\* request with timeOut excepted, and never of a failure after success; a JSONP request
\* that was told leaves neither its tag nor its function.
ToldOnce == Ajax!TypeOK /\ Ajax!ToldOnce /\ Ajax!NothingIsLeft

\* However uploads, answers, cuts and undo cross, an image shows what the user has put
\* there, a placeholder only while its upload is under way, and every copy of a remote
\* image that was asked for is replaced by the answer; files with one id, files picked
\* during another upload, lost connections and undo excepted.
ShowsOwnPicture ==
    /\ subject = "images" => Late!TypeOK /\ Late!ShowsOwnPicture /\ Late!SpinnersTurn
    /\ subject = "fetch" => Fetch!TypeOK /\ Fetch!CaughtAreLocal

\* Nothing that was begun stays begun: a draft catches up with the last change, its
\* notice goes, a frame gets the height of its text, the submenu of the item under the
\* mouse comes, an editor becomes ready unless it is destroyed or its language file
\* fails, every XMLHttpRequest is told, and a placeholder goes unless its connection was
\* lost or undo brought it back.
WaitsEnd ==
    /\ subject = "drafts" => Drafts!DraftCatchesUp
    /\ subject = "drafts" => Drafts!NoticesGo
    /\ subject = "frame" => Grows!HeightCatchesUp
    /\ subject = "menus" => Menu!SubMenuComes
    /\ subject = "life" => Life!EditorsGetReady
    /\ subject = "ajax" => Ajax!AlwaysTold
    /\ subject = "images" => Late!SpinnerEnds

\* "当全屏时不能执行自动长高" (ueditor.all.js:29081): no height of autoheight is applied
\* in full screen.
NoAutoHeightInFullScreen == Grows!NoAutoHeightInFullScreen

=============================================================================
