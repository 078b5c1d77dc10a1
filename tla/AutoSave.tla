------------------------------ MODULE AutoSave ------------------------------
(***************************************************************************)
(* The plugin autosave of the editors of one page: drafts in the browser's *)
(* local storage, written some time after the last change, and the notice  *)
(* that tells of it.  All editors keep their drafts in one stored object   *)
(* (ueditor_preference), each under its own key.                           *)
(***************************************************************************)
EXTENDS Naturals, FiniteSets, TLC

CONSTANTS Editors,
          AtOnce,       \* saveInterval is 0: no timer
          MaxChanges    \* bound: changes and commands

Empty == 0      \* a document without contents, and no draft; the others are numbered

VARIABLES
    ready, alive,     \* 'ready' was fired; not destroyed
    content,          \* what the body holds
    stored, drafts,   \* the storage holds ueditor_preference; what it holds for each key
    timer,            \* _saveFlag: the save that is due
    recent,           \* less than MIN_TIME since lastSaveTime
    noteTimer, uid,   \* of the notice: its timer, the last message
    shown,            \* the messages on display: <<editor, number>>
    calm,             \* history: since the last change nothing kept a draft from being stored
    actor,            \* history: whose code ran last
    count             \* changes and commands

saveVars == <<stored, drafts, recent, noteTimer, calm>>
noteVars == <<noteTimer, uid, shown>>
vars == <<ready, alive, content, timer, saveVars, noteVars, actor, count>>

Init ==
    /\ ready = [e \in Editors |-> FALSE] /\ alive = [e \in Editors |-> TRUE]
    /\ content \in [Editors -> {Empty, 1}]
    /\ stored = FALSE /\ drafts = [e \in Editors |-> Empty]
    /\ timer = [e \in Editors |-> FALSE] /\ recent = [e \in Editors |-> TRUE]
    /\ noteTimer = [e \in Editors |-> FALSE] /\ uid = [e \in Editors |-> 0]
    /\ shown = {} /\ calm = [e \in Editors |-> FALSE] /\ count = 0
    /\ actor \in Editors

-----------------------------------------------------------------------------
(* localstorage: preferences                                               *)

\* Mutant: the stored object is written anew.
SetPreferencesAlone(e, v) ==
    /\ drafts' = [k \in Editors |-> IF k = e THEN v ELSE Empty] /\ stored' = TRUE
SetPreferences(e, v) == drafts' = [drafts EXCEPT ![e] = v] /\ stored' = TRUE
RemovePreferences(e) == drafts' = [drafts EXCEPT ![e] = Empty] /\ UNCHANGED stored

-----------------------------------------------------------------------------
(* save                                                                    *)

\* outcome: "saved", "vetoed" by a listener of beforeautosave, "full" when the
\* storage throws
Outcomes == {"saved", "vetoed", "full"}
Store(e, doc, outcome) ==
    /\ recent' = [recent EXCEPT ![e] = TRUE]
    /\ IF outcome = "saved" THEN SetPreferences(e, doc) ELSE UNCHANGED <<stored, drafts>>
    /\ noteTimer' = [noteTimer EXCEPT ![e] = @ \/ outcome = "saved"]
    /\ calm' = [calm EXCEPT ![e] = outcome = "saved"]

Save(e, doc, outcome) ==
    IF recent[e]
    THEN calm' = [calm EXCEPT ![e] = FALSE] /\ UNCHANGED <<stored, drafts, recent, noteTimer>>
    ELSE IF doc = Empty
    THEN /\ RemovePreferences(e) /\ calm' = [calm EXCEPT ![e] = TRUE]
         /\ UNCHANGED <<recent, noteTimer>>
    ELSE Store(e, doc, outcome)

BecomeReady(e) ==
    /\ alive[e] /\ ~ready[e] /\ ready' = [ready EXCEPT ![e] = TRUE] /\ actor' = e
    /\ UNCHANGED <<alive, content, timer, saveVars, uid, shown, count>>

Edit(e, v) ==
    /\ alive[e] /\ count < MaxChanges /\ count' = count + 1 /\ actor' = e
    /\ v # content[e] /\ content' = [content EXCEPT ![e] = v]
    /\ UNCHANGED <<ready, alive, uid, shown>>
SaveLater(e) ==
    /\ timer' = [timer EXCEPT ![e] = TRUE] /\ calm' = [calm EXCEPT ![e] = TRUE]
    /\ UNCHANGED <<stored, drafts, recent, noteTimer>>

\* contentchange
Change(e, v) ==
    /\ Edit(e, v)
    /\ \/ ~ready[e] /\ calm' = [calm EXCEPT ![e] = FALSE]
                     /\ UNCHANGED <<timer, stored, drafts, recent, noteTimer>>
       \/ ready[e] /\ ~AtOnce /\ SaveLater(e)
       \/ ready[e] /\ AtOnce /\ UNCHANGED timer /\ \E o \in Outcomes : Save(e, v, o)

\* saveInterval is longer than MIN_TIME.  After destroy save throws: nothing happens.
SaveTimer(e) ==
    /\ timer[e] /\ ~recent[e] /\ timer' = [timer EXCEPT ![e] = FALSE] /\ actor' = e
    /\ IF alive[e] THEN \E o \in Outcomes : Save(e, content[e], o) ELSE UNCHANGED saveVars
    /\ UNCHANGED <<ready, alive, content, uid, shown, count>>

MinTimePasses(e) ==
    /\ recent[e] /\ recent' = [recent EXCEPT ![e] = FALSE] /\ actor' = e
    /\ UNCHANGED <<ready, alive, content, stored, drafts, timer, noteVars, calm, count>>

-----------------------------------------------------------------------------
(* Commands                                                                *)

Command(e) ==
    /\ alive[e] /\ ready[e] /\ count < MaxChanges /\ count' = count + 1 /\ actor' = e
    /\ calm' = [calm EXCEPT ![e] = @ /\ timer[e]]
    /\ UNCHANGED <<ready, alive, timer, recent, noteVars>>

ClearLocalData(e) ==
    /\ Command(e) /\ UNCHANGED content
    /\ IF drafts[e] # Empty THEN RemovePreferences(e) ELSE UNCHANGED <<stored, drafts>>

\* queryCommandState of drafts: no draft is undefined, which is not null, once
\* anything is stored.
DraftsEnabled(e) == ready[e] /\ stored
Drafts(e) ==
    /\ DraftsEnabled(e) /\ Command(e) /\ UNCHANGED <<stored, drafts>>
    /\ content' = [content EXCEPT ![e] = drafts[e]]

Destroy(e) ==
    /\ alive[e] /\ ready[e] /\ alive' = [alive EXCEPT ![e] = FALSE] /\ actor' = e
    /\ UNCHANGED <<ready, content, timer, saveVars, uid, shown, count>>

-----------------------------------------------------------------------------
(* The notice                                                              *)

\* showmessage, after the messages that are left
ShowMessage(e, left) ==
    /\ uid' = [uid EXCEPT ![e] = @ + 1] /\ shown' = left \cup {<<e, uid[e] + 1>>}

\* Two seconds after the last save; a destroyed editor has no listeners any more.
Notice(e) ==
    /\ noteTimer[e] /\ noteTimer' = [noteTimer EXCEPT ![e] = FALSE]
    /\ IF alive[e] THEN ShowMessage(e, shown \ {<<e, uid[e]>>}) ELSE UNCHANGED <<uid, shown>>
    /\ UNCHANGED <<ready, alive, content, stored, drafts, timer, recent, calm, actor, count>>

\* The timer of the message, or a click on its closer
HideMessage(n) ==
    /\ n \in shown /\ shown' = shown \ {n}
    /\ UNCHANGED <<ready, alive, content, timer, saveVars, uid, actor, count>>

Next ==
    \E e \in Editors :
      \/ BecomeReady(e) \/ SaveTimer(e) \/ MinTimePasses(e)
      \/ \E v \in 0 .. 2 : Change(e, v)
      \/ ClearLocalData(e) \/ Drafts(e) \/ Destroy(e)
      \/ Notice(e) \/ \E n \in shown : HideMessage(n)

\* Timers run, and the page becomes ready.
Fairness ==
    /\ \A e \in Editors : /\ WF_vars(SaveTimer(e)) /\ WF_vars(MinTimePasses(e))
                           /\ WF_vars(Notice(e))
    /\ WF_vars(\E n \in shown : HideMessage(n))
Spec == Init /\ [][Next]_vars /\ Fairness

-----------------------------------------------------------------------------
(* Properties                                                              *)

TypeOK ==
    /\ \A e \in Editors : /\ content[e] \in 0 .. 2 /\ drafts[e] \in 0 .. 2
                          /\ (timer[e] => ready[e]) /\ (drafts[e] # Empty => stored)
    /\ \A n \in shown : n[1] \in Editors

\* When no save is due the draft is the document, and there is none of an empty
\* document, unless a save was vetoed, failed or skipped or the draft was
\* cleared or loaded since.
DraftIsCurrent == \A e \in Editors : alive[e] /\ calm[e] /\ ~timer[e] => drafts[e] = content[e]

\* Although all drafts are in one stored object, an editor changes only its own.
OwnDraftOnly == [][\A e \in Editors : drafts'[e] # drafts[e] => actor' = e]_vars

\* After the last change the draft catches up, and every notice goes away.
DraftCatchesUp == \A e \in Editors : <>[](alive[e] /\ calm[e] => drafts[e] = content[e])
NoticesGo == []<>(shown = {})
=============================================================================
