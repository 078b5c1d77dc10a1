----------------------- MODULE EditorProgress_proofs -----------------------
(***************************************************************************)
(* Proofs about the parts of the editor that MCEditorProgress looks at.    *)
(* Where a part is instantiated more than once, its lemmas are about an    *)
(* instance that takes the constants as parameters; what holds of the      *)
(* suite follows, since its instances are these for fixed constants.       *)
(***************************************************************************)
EXTENDS MCEditorProgress, TLAPS

-----------------------------------------------------------------------------
(* Drafts                                                                  *)

\* The plugin autosave for any editors, saving at once or later.
D(Editors, AtOnce, MaxChanges) == INSTANCE AutoSave

\* The inductive invariant: DraftIsCurrent is one, once every variable has its type.
DraftInv(Editors) ==
    /\ {ready, alive, timer, recent, noteTimer, calm} \subseteq [Editors -> BOOLEAN]
    /\ content \in [Editors -> 0 .. 2] /\ drafts \in [Editors -> 0 .. 2] /\ uid \in [Editors -> Nat]
    /\ \A e \in Editors : (timer[e] => ready[e]) /\ (drafts[e] # 0 => stored)
    /\ \A n \in shown : n[1] \in Editors
    /\ \A e \in Editors : alive[e] /\ calm[e] /\ ~timer[e] => drafts[e] = content[e]

LEMMA DraftInit ==
    ASSUME NEW Editors, NEW AtOnce, NEW MaxChanges, D(Editors, AtOnce, MaxChanges)!Init
    PROVE  DraftInv(Editors)
  BY DEF DraftInv, D!Init, D!Empty

\* A save keeps the invariant where the content that it is given is that of the body and
\* no save is due any more.
LEMMA SaveKeeps ==
    ASSUME NEW Editors, NEW AtOnce, NEW MaxChanges, NEW e \in Editors, NEW v \in 0 .. 2,
           NEW o \in D(Editors, AtOnce, MaxChanges)!Outcomes,
           DraftInv(Editors), D(Editors, AtOnce, MaxChanges)!Save(e, v, o)
    PROVE  /\ {recent', noteTimer', calm'} \subseteq [Editors -> BOOLEAN]
           /\ drafts' \in [Editors -> 0 .. 2]
           /\ \A k \in Editors : drafts'[k] # 0 => stored'
           /\ \A k \in Editors \ {e} : drafts'[k] = drafts[k] /\ calm'[k] = calm[k]
           /\ calm'[e] => drafts'[e] = v
<1> USE DEF D!RemovePreferences, D!SetPreferences, D!Empty
<1>1. CASE recent[e]
  BY <1>1 DEF DraftInv, D!Save
<1>2. CASE ~recent[e] /\ v = 0
  <2>1. /\ drafts' = [drafts EXCEPT ![e] = 0] /\ calm' = [calm EXCEPT ![e] = TRUE]
        /\ UNCHANGED <<stored, recent, noteTimer>>
    BY <1>2 DEF D!Save
  <2> QED BY <1>2, <2>1 DEF DraftInv
<1>3. CASE ~recent[e] /\ v # 0
  <2>1. D(Editors, AtOnce, MaxChanges)!Store(e, v, o)
    BY <1>3 DEF D!Save
  <2>2. CASE o = "saved"
    BY <2>1, <2>2 DEF DraftInv, D!Store
  <2>3. CASE o # "saved"
    BY <2>1, <2>3 DEF DraftInv, D!Store
  <2> QED BY <2>2, <2>3
<1> QED BY <1>1, <1>2, <1>3

LEMMA DraftStep ==
    ASSUME NEW Editors, NEW AtOnce, NEW MaxChanges, DraftInv(Editors),
           [D(Editors, AtOnce, MaxChanges)!Next]_(D(Editors, AtOnce, MaxChanges)!vars)
    PROVE  /\ DraftInv(Editors)'
           /\ [\A e \in Editors : drafts'[e] # drafts[e] => actor' = e]_(D(Editors, AtOnce, MaxChanges)!vars)
<1>1. CASE UNCHANGED D(Editors, AtOnce, MaxChanges)!vars
  BY <1>1 DEF DraftInv, D!vars, D!saveVars, D!noteVars
<1>2. ASSUME NEW e \in Editors, D(Editors, AtOnce, MaxChanges)!BecomeReady(e)
      PROVE  DraftInv(Editors)' /\ UNCHANGED drafts
  BY <1>2 DEF DraftInv, D!BecomeReady, D!saveVars
<1>3. ASSUME NEW e \in Editors, D(Editors, AtOnce, MaxChanges)!SaveTimer(e)
      PROVE  DraftInv(Editors)' /\ actor' = e /\ \A k \in Editors \ {e} : drafts'[k] = drafts[k]
  <2>1. CASE ~alive[e]
    BY <1>3, <2>1 DEF DraftInv, D!SaveTimer, D!saveVars
  <2>2. CASE alive[e]
    <3>1. PICK o \in D(Editors, AtOnce, MaxChanges)!Outcomes : D(Editors, AtOnce, MaxChanges)!Save(e, content[e], o)
      BY <1>3, <2>2 DEF D!SaveTimer
    <3>2. content[e] \in 0 .. 2
      BY DEF DraftInv
    <3> QED BY <1>3, <3>1, <3>2, SaveKeeps DEF DraftInv, D!SaveTimer
  <2> QED BY <2>1, <2>2
<1>4. ASSUME NEW e \in Editors, D(Editors, AtOnce, MaxChanges)!MinTimePasses(e)
      PROVE  DraftInv(Editors)' /\ UNCHANGED drafts
  BY <1>4 DEF DraftInv, D!MinTimePasses, D!noteVars
<1>5. ASSUME NEW e \in Editors, NEW v \in 0 .. 2, D(Editors, AtOnce, MaxChanges)!Change(e, v)
      PROVE  DraftInv(Editors)' /\ actor' = e /\ \A k \in Editors \ {e} : drafts'[k] = drafts[k]
  <2>1. CASE UNCHANGED <<timer, stored, drafts, recent, noteTimer>> /\ calm' = [calm EXCEPT ![e] = FALSE]
    BY <1>5, <2>1 DEF DraftInv, D!Change, D!Edit
  <2>2. CASE ready[e] /\ D(Editors, AtOnce, MaxChanges)!SaveLater(e)
    BY <1>5, <2>2 DEF DraftInv, D!Change, D!Edit, D!SaveLater
  <2>3. ASSUME NEW o \in D(Editors, AtOnce, MaxChanges)!Outcomes, UNCHANGED timer,
               D(Editors, AtOnce, MaxChanges)!Save(e, v, o)
        PROVE  DraftInv(Editors)' /\ actor' = e /\ \A k \in Editors \ {e} : drafts'[k] = drafts[k]
    BY <1>5, <2>3, SaveKeeps DEF DraftInv, D!Change, D!Edit
  <2> QED BY <1>5, <2>1, <2>2, <2>3 DEF D!Change
<1>6. ASSUME NEW e \in Editors, D(Editors, AtOnce, MaxChanges)!ClearLocalData(e)
      PROVE  DraftInv(Editors)' /\ actor' = e /\ \A k \in Editors \ {e} : drafts'[k] = drafts[k]
  BY <1>6 DEF DraftInv, D!ClearLocalData, D!Command, D!RemovePreferences, D!Empty, D!noteVars
<1>7. ASSUME NEW e \in Editors, D(Editors, AtOnce, MaxChanges)!Drafts(e)
      PROVE  DraftInv(Editors)' /\ UNCHANGED drafts
  BY <1>7 DEF DraftInv, D!Drafts, D!Command, D!noteVars
<1>8. ASSUME NEW e \in Editors, D(Editors, AtOnce, MaxChanges)!Destroy(e)
      PROVE  DraftInv(Editors)' /\ UNCHANGED drafts
  BY <1>8 DEF DraftInv, D!Destroy, D!saveVars
<1>9. ASSUME NEW e \in Editors, D(Editors, AtOnce, MaxChanges)!Notice(e)
      PROVE  DraftInv(Editors)' /\ UNCHANGED drafts
  BY <1>9 DEF DraftInv, D!Notice, D!ShowMessage
<1>10. ASSUME NEW n \in shown, D(Editors, AtOnce, MaxChanges)!HideMessage(n)
       PROVE  DraftInv(Editors)' /\ UNCHANGED drafts
  BY <1>10 DEF DraftInv, D!HideMessage, D!saveVars
<1> QED
  BY <1>1, <1>2, <1>3, <1>4, <1>5, <1>6, <1>7, <1>8, <1>9, <1>10, Zenon DEF D!Next

\* The drafts of any editors, saved at once or later: when no save is due the stored draft
\* is the document, and an editor changes only its own draft.
THEOREM DraftsInvariant ==
    ASSUME NEW Editors, NEW AtOnce, NEW MaxChanges
    PROVE  D(Editors, AtOnce, MaxChanges)!Spec
             => [](D(Editors, AtOnce, MaxChanges)!TypeOK /\ D(Editors, AtOnce, MaxChanges)!DraftIsCurrent)
                /\ D(Editors, AtOnce, MaxChanges)!OwnDraftOnly
<1>1. DraftInv(Editors) => D(Editors, AtOnce, MaxChanges)!TypeOK /\ D(Editors, AtOnce, MaxChanges)!DraftIsCurrent
  BY DEF DraftInv, D!TypeOK, D!DraftIsCurrent, D!Empty
<1>2. DraftInv(Editors) /\ [D(Editors, AtOnce, MaxChanges)!Next]_(D(Editors, AtOnce, MaxChanges)!vars)
        => DraftInv(Editors)'
           /\ [\A e \in Editors : drafts'[e] # drafts[e] => actor' = e]_(D(Editors, AtOnce, MaxChanges)!vars)
  BY DraftStep
<1> QED BY <1>1, <1>2, DraftInit, PTL DEF D!Spec, D!OwnDraftOnly


\* The instances that the run checks are among these.
LEMMA DraftsOfRun ==
    /\ Drafts!Init => D({"a", "b"}, FALSE, 2)!Init
    /\ Drafts!Next => D({"a", "b"}, FALSE, 2)!Next
    /\ DraftsAtOnce!Next => D({"a", "b"}, TRUE, 2)!Next
<1> USE DEF Drafts!Empty, Drafts!saveVars, Drafts!noteVars, DraftsAtOnce!Empty, DraftsAtOnce!saveVars,
            DraftsAtOnce!noteVars, D!Empty, D!saveVars, D!noteVars
<1>1. Drafts!Init => D({"a", "b"}, FALSE, 2)!Init
  BY DEF Drafts!Init, D!Init
<1>2. Drafts!Next => D({"a", "b"}, FALSE, 2)!Next
  BY DEF Drafts!Next, Drafts!BecomeReady, Drafts!SaveTimer, Drafts!MinTimePasses, Drafts!Change, Drafts!ClearLocalData,
         Drafts!Drafts, Drafts!Destroy, Drafts!Notice, Drafts!HideMessage, Drafts!Save, Drafts!Store, Drafts!Outcomes,
         Drafts!SetPreferences, Drafts!RemovePreferences, Drafts!Edit, Drafts!SaveLater, Drafts!Command,
         Drafts!DraftsEnabled, Drafts!ShowMessage,
         D!Next, D!BecomeReady, D!SaveTimer, D!MinTimePasses, D!Change, D!ClearLocalData,
         D!Drafts, D!Destroy, D!Notice, D!HideMessage, D!Save, D!Store, D!Outcomes,
         D!SetPreferences, D!RemovePreferences, D!Edit, D!SaveLater, D!Command,
         D!DraftsEnabled, D!ShowMessage
<1>3. DraftsAtOnce!Next => D({"a", "b"}, TRUE, 2)!Next
  BY DEF DraftsAtOnce!Next, DraftsAtOnce!BecomeReady, DraftsAtOnce!SaveTimer, DraftsAtOnce!MinTimePasses, DraftsAtOnce!Change, DraftsAtOnce!ClearLocalData,
         DraftsAtOnce!Drafts, DraftsAtOnce!Destroy, DraftsAtOnce!Notice, DraftsAtOnce!HideMessage, DraftsAtOnce!Save, DraftsAtOnce!Store, DraftsAtOnce!Outcomes,
         DraftsAtOnce!SetPreferences, DraftsAtOnce!RemovePreferences, DraftsAtOnce!Edit, DraftsAtOnce!SaveLater, DraftsAtOnce!Command,
         DraftsAtOnce!DraftsEnabled, DraftsAtOnce!ShowMessage,
         D!Next, D!BecomeReady, D!SaveTimer, D!MinTimePasses, D!Change, D!ClearLocalData,
         D!Drafts, D!Destroy, D!Notice, D!HideMessage, D!Save, D!Store, D!Outcomes,
         D!SetPreferences, D!RemovePreferences, D!Edit, D!SaveLater, D!Command,
         D!DraftsEnabled, D!ShowMessage
<1> QED BY <1>1, <1>2, <1>3

\* A step of the whole is one of the drafts of its subject, or leaves them alone.
LEMMA StepOfDrafts ==
    ASSUME [Next]_vars
    PROVE  \E b \in BOOLEAN : [D({"a", "b"}, b, 2)!Next]_(D({"a", "b"}, b, 2)!vars)
<1>1. CASE DraftSteps
  BY <1>1, DraftsOfRun DEF DraftSteps
<1>2. CASE UNCHANGED saving
  BY <1>2 DEF saving, D!vars, D!saveVars, D!noteVars
<1> QED
  BY <1>1, <1>2, Zenon DEF Next, vars, ShellSteps, MenuSteps, LifeSteps, AjaxSteps, LateSteps

\* DraftsAreSound holds throughout: the drafts of the subject keep their invariant, and the
\* other parts do not touch them.
THEOREM DraftsSound == Spec => DraftsAreSound
<1>1. Init => DraftInv({"a", "b"})
  BY DraftsOfRun, DraftInit DEF Init
<1>2. DraftInv({"a", "b"}) /\ [Next]_vars
        => DraftInv({"a", "b"})' /\ [\A e \in {"a", "b"} : drafts'[e] # drafts[e] => actor' = e]_(Drafts!vars)
  <2> SUFFICES ASSUME DraftInv({"a", "b"}), [Next]_vars
               PROVE  DraftInv({"a", "b"})' /\ [\A e \in {"a", "b"} : drafts'[e] # drafts[e] => actor' = e]_(Drafts!vars)
    OBVIOUS
  <2>1. PICK b \in BOOLEAN : [D({"a", "b"}, b, 2)!Next]_(D({"a", "b"}, b, 2)!vars)
    BY StepOfDrafts
  <2> QED
    BY <2>1, DraftStep DEF D!vars, Drafts!vars, D!saveVars, Drafts!saveVars, D!noteVars, Drafts!noteVars
<1>3. DraftInv({"a", "b"}) => Drafts!TypeOK /\ Drafts!DraftIsCurrent
  BY DEF DraftInv, Drafts!TypeOK, Drafts!DraftIsCurrent, Drafts!Empty
<1> QED BY <1>1, <1>2, <1>3, PTL DEF Spec, DraftsAreSound, Drafts!OwnDraftOnly

-----------------------------------------------------------------------------
(* The frame around the text                                               *)

\* The frame for any heights of text and window, with autoheight or the handle.
S(Heights, Viewports, MinHeight, ScaleEnabled, Positions) == INSTANCE EditorShell WITH content <- textHeight

\* What the types need of the constants, and that a frame that has its height has more
\* than none: adjustHeight adds 25 to the place of the last node.
ShellConstants(Heights, Viewports, MinHeight, ScaleEnabled, Positions) ==
    /\ Heights \subseteq Nat \ {0} /\ Viewports \subseteq Nat /\ MinHeight \in Nat
    /\ ScaleEnabled \in BOOLEAN /\ Positions \in Seq({"static", "relative", "absolute", "fixed"})

ShellTypes(Heights, Viewports) ==
    /\ {fullscreen, isFullscreen, autoHeight, listening, above, floating, scaleOn,
        editable, source, undisturbed} \subseteq BOOLEAN
    /\ bak \in [overflow : {"auto", "hidden"}, autoHeight : BOOLEAN, frame : Nat]
    /\ {htmlOverflow, bodyOverflow, bakOverflow} \subseteq {"auto", "hidden"}
    /\ timers \subseteq {"enable", "adjust", "resize", "float"}
    /\ textHeight \in Heights /\ viewport \in Viewports
    /\ {frame, minimum, lastHeight} \subseteq Nat

\* What setFullScreen keeps of the page is what it has to give back.
PageInv(Positions) ==
    /\ ~fullscreen => htmlOverflow = "auto" /\ position = Positions /\ nodeStack = <<>>
    /\ fullscreen => /\ bak.overflow = "auto" /\ nodeStack = Positions
                     /\ position = [i \in DOMAIN Positions |-> "static"]

\* autoheight is off in full screen and with the handle, and the overflow it keeps is that
\* of a text with a scroll bar.
OverflowInv(ScaleEnabled) ==
    /\ (bodyOverflow = "hidden") <=> autoHeight
    /\ listening = autoHeight /\ bakOverflow = "auto"
    /\ fullscreen => ~autoHeight
    /\ ScaleEnabled => ~autoHeight /\ ~bak.autoHeight
    /\ ~ScaleEnabled => ~scaleOn

\* The height h is the one that autoheight gave the frame, or the first.
Remembered(h, MinHeight) == h = lastHeight \/ (lastHeight = 0 /\ h = MinHeight)

\* Where every change of full screen was announced and met no timer: autoheight knows
\* whether the editor is in full screen, no timer of it is pending there, and the frame that
\* is there or comes back has the height it remembers.
HeightInv(MinHeight) ==
    /\ undisturbed => isFullscreen = fullscreen
    /\ undisturbed /\ fullscreen => timers \cap {"enable", "adjust"} = {}
    /\ undisturbed /\ autoHeight => Remembered(frame, MinHeight)
    /\ undisturbed /\ fullscreen /\ bak.autoHeight => Remembered(bak.frame, MinHeight)
    /\ (undisturbed /\ autoHeight /\ ~source /\ timers \cap {"enable", "adjust"} = {})
         => frame = (IF textHeight > minimum THEN textHeight ELSE minimum)

ToolbarInv == (undisturbed /\ "float" \notin timers) => (floating <=> (above /\ ~fullscreen))

ShellInv(Heights, Viewports, MinHeight, ScaleEnabled, Positions) ==
    /\ ShellTypes(Heights, Viewports) /\ PageInv(Positions) /\ OverflowInv(ScaleEnabled)
    /\ HeightInv(MinHeight) /\ ToolbarInv

LEMMA ShellInit ==
    ASSUME NEW H, NEW V, NEW m, NEW s, NEW P, ShellConstants(H, V, m, s, P), S(H, V, m, s, P)!Init
    PROVE  ShellInv(H, V, m, s, P)
<1> USE DEF ShellConstants, S!Init
<1>1. ShellTypes(H, V)
  <2>1. {fullscreen, isFullscreen, autoHeight, listening, above, floating, scaleOn,
         editable, source, undisturbed} \subseteq BOOLEAN
    BY Zenon
  <2>2. bak \in [overflow : {"auto", "hidden"}, autoHeight : BOOLEAN, frame : Nat]
    OBVIOUS
  <2>3. /\ {htmlOverflow, bodyOverflow, bakOverflow} \subseteq {"auto", "hidden"}
        /\ timers \subseteq {"enable", "adjust", "resize", "float"}
    OBVIOUS
  <2>4. textHeight \in H /\ viewport \in V /\ {frame, minimum, lastHeight} \subseteq Nat
    OBVIOUS
  <2> QED BY <2>1, <2>2, <2>3, <2>4 DEF ShellTypes
<1>2. PageInv(P) /\ OverflowInv(s)
  BY DEF PageInv, OverflowInv
<1>3. HeightInv(m) /\ ToolbarInv
  BY DEF HeightInv, Remembered, ToolbarInv
<1> QED BY <1>1, <1>2, <1>3 DEF ShellInv

LEMMA ShellStep ==
    ASSUME NEW H, NEW V, NEW m, NEW s, NEW P, ShellConstants(H, V, m, s, P), ShellInv(H, V, m, s, P),
           [S(H, V, m, s, P)!Next]_(S(H, V, m, s, P)!vars)
    PROVE  ShellInv(H, V, m, s, P)'
<1> USE DEF S!layout, S!autoheight
<1>1. CASE UNCHANGED S(H, V, m, s, P)!vars
  BY <1>1 DEF ShellInv, ShellTypes, PageInv, OverflowInv, HeightInv, Remembered, ToolbarInv, S!vars
<1>2. CASE S(H, V, m, s, P)!EnterFullScreen
  <2>0. ShellTypes(H, V) /\ PageInv(P) /\ OverflowInv(s) /\ HeightInv(m) /\ ToolbarInv
    BY DEF ShellInv
  <2> USE <1>2 DEF S!EnterFullScreen, S!DisableAutoHeight, S!Announce, S!AutoHeightTold, S!ScaleTold, S!ToolbarTold
  <2>1. ShellTypes(H, V)'
    BY <2>0 DEF ShellTypes, ShellConstants
  <2>2. PageInv(P)'
    BY <2>0 DEF PageInv, ShellConstants
  <2>3. OverflowInv(s)'
    BY <2>0 DEF OverflowInv, ShellTypes
  <2>4. HeightInv(m)'
    BY <2>0 DEF HeightInv, OverflowInv, Remembered, ShellTypes
  <2>5. ToolbarInv'
    BY <2>0 DEF ToolbarInv, ShellTypes
  <2> QED BY <2>1, <2>2, <2>3, <2>4, <2>5 DEF ShellInv
<1>3. CASE S(H, V, m, s, P)!LeaveFullScreen
  <2>0. ShellTypes(H, V) /\ PageInv(P) /\ OverflowInv(s) /\ HeightInv(m) /\ ToolbarInv
    BY DEF ShellInv
  <2> USE <1>3 DEF S!LeaveFullScreen, S!EnableAutoHeight, S!Announce, S!AutoHeightTold, S!ScaleTold, S!ToolbarTold
  <2>1. ShellTypes(H, V)'
    BY <2>0 DEF ShellTypes, ShellConstants
  <2>2. PageInv(P)'
    BY <2>0 DEF PageInv, ShellConstants
  <2>3. OverflowInv(s)'
    BY <2>0 DEF OverflowInv, ShellTypes
  <2>4. HeightInv(m)'
    BY <2>0 DEF HeightInv, OverflowInv, Remembered, ShellTypes
  <2>5. ToolbarInv'
    BY <2>0 DEF ToolbarInv, ShellTypes
  <2> QED BY <2>1, <2>2, <2>3, <2>4, <2>5 DEF ShellInv
<1>0. ShellTypes(H, V) /\ PageInv(P) /\ OverflowInv(s) /\ HeightInv(m) /\ ToolbarInv
  BY DEF ShellInv
\* The other steps leave the page alone.
<1>4. ASSUME UNCHANGED S(H, V, m, s, P)!layout, ShellTypes(H, V)', OverflowInv(s)', HeightInv(m)', ToolbarInv'
      PROVE  ShellInv(H, V, m, s, P)'
  BY <1>0, <1>4 DEF ShellInv, PageInv
<1>5. CASE S(H, V, m, s, P)!EnableTimer
  <2> USE <1>5, <1>0 DEF S!EnableTimer, S!Adjusted
  <2>1. ShellTypes(H, V)'
    BY DEF ShellTypes, ShellConstants
  <2>2. OverflowInv(s)'
    BY DEF OverflowInv, ShellTypes
  <2>3. HeightInv(m)'
    BY DEF HeightInv, OverflowInv, Remembered, ShellTypes, ShellConstants
  <2>4. ToolbarInv'
    BY DEF ToolbarInv, ShellTypes
  <2> QED BY <1>4, <2>1, <2>2, <2>3, <2>4
<1>6. CASE S(H, V, m, s, P)!AdjustTimer
  <2> USE <1>6, <1>0 DEF S!AdjustTimer, S!Taller
  <2>1. ShellTypes(H, V)'
    BY DEF ShellTypes, ShellConstants
  <2>2. OverflowInv(s)'
    BY DEF OverflowInv, ShellTypes
  <2>3. HeightInv(m)'
    BY DEF HeightInv, OverflowInv, Remembered, ShellTypes, ShellConstants
  <2>4. ToolbarInv'
    BY DEF ToolbarInv, ShellTypes
  <2> QED BY <1>4, <2>1, <2>2, <2>3, <2>4
<1>7. CASE S(H, V, m, s, P)!ResizeTimer
  <2> USE <1>7, <1>0 DEF S!ResizeTimer
  <2>1. ShellTypes(H, V)'
    BY DEF ShellTypes, ShellConstants
  <2>2. OverflowInv(s)'
    BY DEF OverflowInv, ShellTypes
  <2>3. HeightInv(m)'
    BY DEF HeightInv, OverflowInv, Remembered, ShellTypes, ShellConstants
  <2>4. ToolbarInv'
    BY DEF ToolbarInv, ShellTypes
  <2> QED BY <1>4, <2>1, <2>2, <2>3, <2>4
<1>8. CASE S(H, V, m, s, P)!FloatTimer
  <2> USE <1>8, <1>0 DEF S!FloatTimer
  <2>1. ShellTypes(H, V)'
    BY DEF ShellTypes, ShellConstants
  <2>2. OverflowInv(s)'
    BY DEF OverflowInv, ShellTypes
  <2>3. HeightInv(m)'
    BY DEF HeightInv, OverflowInv, Remembered, ShellTypes, ShellConstants
  <2>4. ToolbarInv'
    BY DEF ToolbarInv, ShellTypes
  <2> QED BY <1>4, <2>1, <2>2, <2>3, <2>4
<1>9. ASSUME NEW h \in H, S(H, V, m, s, P)!ContentChange(h)
      PROVE  ShellInv(H, V, m, s, P)'
  <2> USE <1>9, <1>0 DEF S!ContentChange, S!Adjusted
  <2>1. ShellTypes(H, V)'
    BY DEF ShellTypes, ShellConstants
  <2>2. OverflowInv(s)'
    BY DEF OverflowInv, ShellTypes
  <2>3. HeightInv(m)'
    BY DEF HeightInv, OverflowInv, Remembered, ShellTypes, ShellConstants
  <2>4. ToolbarInv'
    BY DEF ToolbarInv, ShellTypes
  <2> QED BY <1>4, <2>1, <2>2, <2>3, <2>4
<1>10. ASSUME NEW h \in H, S(H, V, m, s, P)!InsertHtml(h)
      PROVE  ShellInv(H, V, m, s, P)'
  <2> USE <1>10, <1>0 DEF S!InsertHtml, S!Adjusted
  <2>1. ShellTypes(H, V)'
    BY DEF ShellTypes, ShellConstants
  <2>2. OverflowInv(s)'
    BY DEF OverflowInv, ShellTypes
  <2>3. HeightInv(m)'
    BY DEF HeightInv, OverflowInv, Remembered, ShellTypes, ShellConstants
  <2>4. ToolbarInv'
    BY DEF ToolbarInv, ShellTypes
  <2> QED BY <1>4, <2>1, <2>2, <2>3, <2>4
<1>11. ASSUME NEW h \in H, S(H, V, m, s, P)!SetHeight(h)
      PROVE  ShellInv(H, V, m, s, P)'
  <2> USE <1>11, <1>0 DEF S!SetHeight, S!DisableAutoHeight
  <2>1. ShellTypes(H, V)'
    BY DEF ShellTypes, ShellConstants
  <2>2. OverflowInv(s)'
    BY DEF OverflowInv, ShellTypes
  <2>3. HeightInv(m)'
    BY DEF HeightInv, OverflowInv, Remembered, ShellTypes, ShellConstants
  <2>4. ToolbarInv'
    BY DEF ToolbarInv, ShellTypes
  <2> QED BY <1>4, <2>1, <2>2, <2>3, <2>4
<1>12. ASSUME NEW h \in H, S(H, V, m, s, P)!ScaleDrag(h)
      PROVE  ShellInv(H, V, m, s, P)'
  <2> USE <1>12, <1>0 DEF S!ScaleDrag
  <2>1. ShellTypes(H, V)'
    BY DEF ShellTypes, ShellConstants
  <2>2. OverflowInv(s)'
    BY DEF OverflowInv, ShellTypes
  <2>3. HeightInv(m)'
    BY DEF HeightInv, OverflowInv, Remembered, ShellTypes, ShellConstants
  <2>4. ToolbarInv'
    BY DEF ToolbarInv, ShellTypes
  <2> QED BY <1>4, <2>1, <2>2, <2>3, <2>4
<1>13. CASE S(H, V, m, s, P)!Source
  <2> USE <1>13, <1>0 DEF S!Source, S!Adjusted
  <2>1. ShellTypes(H, V)'
    BY DEF ShellTypes, ShellConstants
  <2>2. OverflowInv(s)'
    BY DEF OverflowInv, ShellTypes
  <2>3. HeightInv(m)'
    BY DEF HeightInv, OverflowInv, Remembered, ShellTypes, ShellConstants
  <2>4. ToolbarInv'
    BY DEF ToolbarInv, ShellTypes
  <2> QED BY <1>4, <2>1, <2>2, <2>3, <2>4
<1>14. CASE S(H, V, m, s, P)!SelectionChange
  <2> USE <1>14, <1>0 DEF S!SelectionChange, S!ScaleQueried
  <2>1. ShellTypes(H, V)'
    BY DEF ShellTypes, ShellConstants
  <2>2. OverflowInv(s)'
    BY DEF OverflowInv, ShellTypes
  <2>3. HeightInv(m)'
    BY DEF HeightInv, OverflowInv, Remembered, ShellTypes, ShellConstants
  <2>4. ToolbarInv'
    BY DEF ToolbarInv, ShellTypes
  <2> QED BY <1>4, <2>1, <2>2, <2>3, <2>4
<1>15. CASE S(H, V, m, s, P)!SetEditable
  <2> USE <1>15, <1>0 DEF S!SetEditable, S!ScaleQueried
  <2>1. ShellTypes(H, V)'
    BY DEF ShellTypes, ShellConstants
  <2>2. OverflowInv(s)'
    BY DEF OverflowInv, ShellTypes
  <2>3. HeightInv(m)'
    BY DEF HeightInv, OverflowInv, Remembered, ShellTypes, ShellConstants
  <2>4. ToolbarInv'
    BY DEF ToolbarInv, ShellTypes
  <2> QED BY <1>4, <2>1, <2>2, <2>3, <2>4
<1>16. ASSUME NEW v \in V, S(H, V, m, s, P)!WindowResize(v)
      PROVE  ShellInv(H, V, m, s, P)'
  <2> USE <1>16, <1>0 DEF S!WindowResize
  <2>1. ShellTypes(H, V)'
    BY DEF ShellTypes, ShellConstants
  <2>2. OverflowInv(s)'
    BY DEF OverflowInv, ShellTypes
  <2>3. HeightInv(m)'
    BY DEF HeightInv, OverflowInv, Remembered, ShellTypes, ShellConstants
  <2>4. ToolbarInv'
    BY DEF ToolbarInv, ShellTypes
  <2> QED BY <1>4, <2>1, <2>2, <2>3, <2>4
<1>17. CASE S(H, V, m, s, P)!Scroll
  <2> USE <1>17, <1>0 DEF S!Scroll
  <2>1. ShellTypes(H, V)'
    BY DEF ShellTypes, ShellConstants
  <2>2. OverflowInv(s)'
    BY DEF OverflowInv, ShellTypes
  <2>3. HeightInv(m)'
    BY DEF HeightInv, OverflowInv, Remembered, ShellTypes, ShellConstants
  <2>4. ToolbarInv'
    BY DEF ToolbarInv, ShellTypes
  <2> QED BY <1>4, <2>1, <2>2, <2>3, <2>4
<1> QED
  BY <1>1, <1>2, <1>3, <1>5, <1>6, <1>7, <1>8, <1>9, <1>10, <1>11, <1>12, <1>13, <1>14, <1>15, <1>16, <1>17, Zenon DEF S!Next

LEMMA ShellGives ==
    ASSUME NEW H, NEW V, NEW m, NEW s, NEW P, ShellConstants(H, V, m, s, P), ShellInv(H, V, m, s, P)
    PROVE  /\ S(H, V, m, s, P)!TypeOK /\ S(H, V, m, s, P)!PageIsRestored
           /\ S(H, V, m, s, P)!ScrollBarOfText /\ S(H, V, m, s, P)!ToolbarInSight
           /\ S(H, V, m, s, P)!HeightFollowsText
<1>1. /\ ShellTypes(H, V) /\ PageInv(P) /\ OverflowInv(s) /\ HeightInv(m) /\ ToolbarInv
      /\ fullscreen \in BOOLEAN /\ P \in Seq({"static", "relative", "absolute", "fixed"})
  BY DEF ShellInv, ShellConstants, ShellTypes
<1>2. S(H, V, m, s, P)!TypeOK
  <2>1. nodeStack \in {<<>>, P} /\ Len(position) = Len(P)
    BY <1>1 DEF PageInv
  <2> QED BY <1>1, <2>1 DEF ShellTypes, S!TypeOK
<1>3. S(H, V, m, s, P)!PageIsRestored /\ S(H, V, m, s, P)!ScrollBarOfText
  BY <1>1 DEF PageInv, OverflowInv, S!PageIsRestored, S!ScrollBarOfText
<1>4. S(H, V, m, s, P)!ToolbarInSight /\ S(H, V, m, s, P)!HeightFollowsText
  BY <1>1 DEF HeightInv, ToolbarInv, S!ToolbarInSight, S!HeightFollowsText, S!Taller
<1> QED BY <1>2, <1>3, <1>4

\* The frame for any heights of text and window, with autoheight or with the handle.
THEOREM ShellInvariant ==
    ASSUME NEW H, NEW V, NEW m, NEW s, NEW P, ShellConstants(H, V, m, s, P)
    PROVE  S(H, V, m, s, P)!Spec
             => [](/\ S(H, V, m, s, P)!TypeOK /\ S(H, V, m, s, P)!PageIsRestored
                   /\ S(H, V, m, s, P)!ScrollBarOfText /\ S(H, V, m, s, P)!ToolbarInSight
                   /\ S(H, V, m, s, P)!HeightFollowsText)
<1>1. ShellInv(H, V, m, s, P)
        => /\ S(H, V, m, s, P)!TypeOK /\ S(H, V, m, s, P)!PageIsRestored
           /\ S(H, V, m, s, P)!ScrollBarOfText /\ S(H, V, m, s, P)!ToolbarInSight
           /\ S(H, V, m, s, P)!HeightFollowsText
  BY ShellGives
<1>2. S(H, V, m, s, P)!Init => ShellInv(H, V, m, s, P)
  BY ShellInit
<1>3. ShellInv(H, V, m, s, P) /\ [S(H, V, m, s, P)!Next]_(S(H, V, m, s, P)!vars) => ShellInv(H, V, m, s, P)'
  BY ShellStep
<1> QED BY <1>1, <1>2, <1>3, PTL DEF S!Spec

RunPositions == <<"relative", "absolute">>

LEMMA RunShells ==
    /\ ShellConstants({1, 3}, {2, 6}, 2, TRUE, RunPositions)
    /\ ShellConstants({1, 3}, {6}, 1, FALSE, RunPositions)
  BY DEF ShellConstants, RunPositions

\* The instances that the run checks are among these.
LEMMA ShellsOfRun ==
    /\ Grows!Init => S({1, 3}, {6}, 1, FALSE, RunPositions)!Init
    /\ Grows!Next => S({1, 3}, {6}, 1, FALSE, RunPositions)!Next
    /\ Handle!Init => S({1, 3}, {2, 6}, 2, TRUE, RunPositions)!Init
    /\ Handle!Next => S({1, 3}, {2, 6}, 2, TRUE, RunPositions)!Next
<1>1. Grows!Init => S({1, 3}, {6}, 1, FALSE, RunPositions)!Init
  BY Zenon DEF Grows!Init, S!Init, RunPositions
<1>2. Handle!Init => S({1, 3}, {2, 6}, 2, TRUE, RunPositions)!Init
  BY Zenon DEF Handle!Init, S!Init, RunPositions
<1>3. Grows!Next => S({1, 3}, {6}, 1, FALSE, RunPositions)!Next
  BY DEF
         Grows!Next, Grows!EnterFullScreen, Grows!LeaveFullScreen, Grows!EnableTimer, Grows!AdjustTimer,
         Grows!ResizeTimer, Grows!FloatTimer, Grows!ContentChange, Grows!InsertHtml, Grows!SetHeight,
         Grows!ScaleDrag, Grows!Source, Grows!SelectionChange, Grows!SetEditable, Grows!WindowResize,
         Grows!Scroll, Grows!Taller, Grows!Adjusted, Grows!EnableAutoHeight, Grows!DisableAutoHeight,
         Grows!Announce, Grows!AutoHeightTold, Grows!ScaleTold, Grows!ToolbarTold, Grows!ScaleQueried,
         Grows!layout, Grows!autoheight, S!Next, S!EnterFullScreen, S!LeaveFullScreen, S!EnableTimer,
         S!AdjustTimer, S!ResizeTimer, S!FloatTimer, S!ContentChange, S!InsertHtml, S!SetHeight, S!ScaleDrag,
         S!Source, S!SelectionChange, S!SetEditable, S!WindowResize, S!Scroll, S!Taller, S!Adjusted,
         S!EnableAutoHeight, S!DisableAutoHeight, S!Announce, S!AutoHeightTold, S!ScaleTold, S!ToolbarTold,
         S!ScaleQueried, S!layout, S!autoheight
<1>4. Handle!Next => S({1, 3}, {2, 6}, 2, TRUE, RunPositions)!Next
  BY DEF
         Handle!Next, Handle!EnterFullScreen, Handle!LeaveFullScreen, Handle!EnableTimer, Handle!AdjustTimer,
         Handle!ResizeTimer, Handle!FloatTimer, Handle!ContentChange, Handle!InsertHtml, Handle!SetHeight,
         Handle!ScaleDrag, Handle!Source, Handle!SelectionChange, Handle!SetEditable, Handle!WindowResize,
         Handle!Scroll, Handle!Taller, Handle!Adjusted, Handle!EnableAutoHeight, Handle!DisableAutoHeight,
         Handle!Announce, Handle!AutoHeightTold, Handle!ScaleTold, Handle!ToolbarTold, Handle!ScaleQueried,
         Handle!layout, Handle!autoheight, S!Next, S!EnterFullScreen, S!LeaveFullScreen, S!EnableTimer,
         S!AdjustTimer, S!ResizeTimer, S!FloatTimer, S!ContentChange, S!InsertHtml, S!SetHeight, S!ScaleDrag,
         S!Source, S!SelectionChange, S!SetEditable, S!WindowResize, S!Scroll, S!Taller, S!Adjusted,
         S!EnableAutoHeight, S!DisableAutoHeight, S!Announce, S!AutoHeightTold, S!ScaleTold, S!ToolbarTold,
         S!ScaleQueried, S!layout, S!autoheight
<1> QED BY <1>1, <1>2, <1>3, <1>4

RunShellInv ==
    IF subject = "handle" THEN ShellInv({1, 3}, {2, 6}, 2, TRUE, RunPositions)
                          ELSE ShellInv({1, 3}, {6}, 1, FALSE, RunPositions)

LEMMA RunShellStep == RunShellInv /\ [Next]_vars => RunShellInv'
<1> SUFFICES ASSUME RunShellInv, [Next]_vars PROVE RunShellInv'
  OBVIOUS
<1>1. CASE ShellSteps
  <2>1. subject' = subject /\ subject \in {"frame", "handle"}
    BY <1>1 DEF ShellSteps
  <2>2. CASE subject = "handle"
    <3>1. [S({1, 3}, {2, 6}, 2, TRUE, RunPositions)!Next]_(S({1, 3}, {2, 6}, 2, TRUE, RunPositions)!vars)
      BY <1>1, <2>2, ShellsOfRun DEF ShellSteps
    <3> QED BY <2>1, <2>2, <3>1, RunShells, ShellStep DEF RunShellInv
  <2>3. CASE subject = "frame"
    <3>1. [S({1, 3}, {6}, 1, FALSE, RunPositions)!Next]_(S({1, 3}, {6}, 1, FALSE, RunPositions)!vars)
      BY <1>1, <2>3, ShellsOfRun DEF ShellSteps
    <3> QED BY <2>1, <2>3, <3>1, RunShells, ShellStep DEF RunShellInv
  <2> QED BY <2>1, <2>2, <2>3
<1>2. CASE UNCHANGED <<subject, shell>>
  <2>1. /\ [S({1, 3}, {2, 6}, 2, TRUE, RunPositions)!Next]_(S({1, 3}, {2, 6}, 2, TRUE, RunPositions)!vars)
        /\ [S({1, 3}, {6}, 1, FALSE, RunPositions)!Next]_(S({1, 3}, {6}, 1, FALSE, RunPositions)!vars)
    BY <1>2 DEF shell, S!vars, S!layout, S!autoheight
  <2> QED BY <1>2, <2>1, RunShells, ShellStep DEF RunShellInv
<1> QED
  BY <1>1, <1>2, Zenon DEF Next, vars, DraftSteps, MenuSteps, LifeSteps, AjaxSteps, LateSteps

\* FrameFollows holds throughout.
THEOREM FrameIsRight == Spec => []FrameFollows
<1>1. Init => RunShellInv
  BY RunShells, ShellsOfRun, ShellInit DEF Init, RunShellInv
<1>2. RunShellInv => FrameFollows
  <2>1. CASE subject = "handle" /\ RunShellInv
    BY <2>1 DEF RunShellInv, ShellInv, FrameFollows, ShellTypes, PageInv, OverflowInv, ToolbarInv,
         RunPositions, Handle!TypeOK, Grows!PageIsRestored, Grows!ScrollBarOfText, Grows!ToolbarInSight
  <2>2. CASE subject # "handle" /\ RunShellInv
    BY <2>2 DEF RunShellInv, ShellInv, FrameFollows, ShellTypes, PageInv, OverflowInv, ToolbarInv, HeightInv,
         RunPositions, Handle!TypeOK, Grows!PageIsRestored, Grows!ScrollBarOfText, Grows!ToolbarInSight,
         Grows!HeightFollowsText, Grows!Taller
  <2> QED BY <2>1, <2>2
<1> QED BY <1>1, <1>2, RunShellStep, PTL DEF Spec

-----------------------------------------------------------------------------
(* Popups and menus.  The invariant is about the record of the popups and  *)
(* about where the mouse is: it is on something that is shown; the item    *)
(* whose submenu it is in is opened; and of the items with a submenu only  *)
(* the one it rests on is opened, which has its submenu or waits for it.   *)

MenuRecords == [rendered : SUBSET Popups, shown : SUBSET Popups, opened : SUBSET (Buttons \cup Elements),
                showing : SUBSET Menu!Owners, closing : SUBSET Elements]

RecordOK(u) ==
    /\ u \in MenuRecords /\ u.shown \subseteq u.rendered
    /\ u.showing \subseteq u.opened
    /\ \A e \in Menu!Owners : SubMenu[e] \in u.shown => e \in u.opened \cup u.closing

MouseOK(u, m) ==
    /\ m \in Menu!Places
    /\ m \in Elements => Within[m] \in u.shown
    /\ \A e \in Menu!Owners : m \in Elements /\ Within[m] = SubMenu[e] => e \in u.opened
    /\ m \in Elements /\ Within[m] = ContextMenu => u.opened \cap Menu!Owners \subseteq {m}
    /\ m \in Menu!Owners => m \in u.opened /\ (m \in u.showing \/ SubMenu[m] \in u.shown)

MenuInv ==
    /\ RecordOK(menu) /\ MouseOK(menu, mouse)
    /\ hover \subseteq Buttons /\ active \subseteq Buttons /\ disabled \subseteq Buttons
    /\ pressed \in Menu!Places \cup {Nothing}
    /\ combo.selected \in DOMAIN ValueOf \cup {Nothing}

\* The submenus: the item of each, and what they are not.
LEMMA OwnerFacts ==
    /\ Menu!Owners \subseteq Elements /\ Nothing \notin Elements
    /\ \A e \in Menu!Owners : /\ SubMenu[e] \in Menu!SubMenus /\ SubMenu[e] \in Popups
                              /\ Menu!OwnerOf(SubMenu[e]) = e /\ Within[e] = ContextMenu
                              /\ SubMenu[e] # ContextMenu
    /\ \A p \in Menu!SubMenus : Menu!OwnerOf(p) \in Menu!Owners /\ SubMenu[Menu!OwnerOf(p)] = p
    /\ \A p : p \notin Menu!SubMenus => Menu!OwnerOf(p) = Nothing
    /\ \A e \in Elements \ Menu!Owners : SubMenu[e] = Nothing
<1>1. Menu!Owners \subseteq Elements /\ Nothing \notin Elements
  BY MenuAssumption DEF Menu!Owners
<1>2. ASSUME NEW p \in Menu!SubMenus
      PROVE  /\ Menu!OwnerOf(p) \in Menu!Owners /\ SubMenu[Menu!OwnerOf(p)] = p
  <2>1. \E e \in Elements : SubMenu[e] = p
    BY DEF Menu!SubMenus
  <2>2. Menu!OwnerOf(p) = CHOOSE e \in Elements : SubMenu[e] = p
    BY DEF Menu!OwnerOf
  <2>3. Menu!OwnerOf(p) \in Elements /\ SubMenu[Menu!OwnerOf(p)] = p
    BY <2>1, <2>2
  <2> QED BY <2>3 DEF Menu!Owners, Menu!HasSubMenu, Menu!SubMenus
<1>3. ASSUME NEW e \in Menu!Owners
      PROVE  /\ SubMenu[e] \in Menu!SubMenus /\ SubMenu[e] \in Popups
             /\ Menu!OwnerOf(SubMenu[e]) = e /\ Within[e] = ContextMenu
             /\ SubMenu[e] # ContextMenu
  <2>1. SubMenu[e] \in Menu!SubMenus
    BY DEF Menu!Owners, Menu!HasSubMenu, Menu!SubMenus
  <2>2. SubMenu[e] \in Popups
    BY MenuAssumption DEF Menu!Owners, Menu!HasSubMenu
  <2>3. Menu!OwnerOf(SubMenu[e]) = e
    BY <2>1, <1>2, MenuAssumption
  <2> QED BY <2>1, <2>2, <2>3, MenuAssumption
<1>4. ASSUME NEW p, p \notin Menu!SubMenus PROVE Menu!OwnerOf(p) = Nothing
  BY <1>4 DEF Menu!OwnerOf
<1>5. ASSUME NEW e \in Elements \ Menu!Owners PROVE SubMenu[e] = Nothing
  BY DEF Menu!Owners, Menu!HasSubMenu
<1> QED BY <1>1, <1>2, <1>3, <1>4, <1>5

\* A popup that is shown: only buttons hear of it.
LEMMA Shows ==
    ASSUME NEW u \in MenuRecords, NEW p \in Popups
    PROVE  LET v == Menu!ShowPopup(u, p)
           IN  /\ v \in MenuRecords
               /\ v.rendered = u.rendered \cup {p} /\ v.shown = u.shown \cup {p}
               /\ v.showing = u.showing /\ v.closing = u.closing
               /\ u.opened \subseteq v.opened /\ v.opened \cap Elements = u.opened \cap Elements
<1>1. Menu!ButtonsOf({p}) \subseteq Buttons /\ Buttons \cap Elements = {}
  BY MenuAssumption DEF Menu!ButtonsOf
<1> QED BY <1>1 DEF Menu!ShowPopup, MenuRecords

\* Popups that are hidden take the submenus of their items with them, and nothing else.
LEMMA Hides ==
    ASSUME NEW u \in MenuRecords, NEW ps
    PROVE  LET v == Menu!HidePopups(u, ps)
           IN  /\ v \in MenuRecords
               /\ v.rendered = u.rendered /\ v.shown \subseteq u.shown
               /\ v.shown \cap ps = {}
               /\ \A p \in u.shown : p \in v.shown \/ p \in ps
                       \/ \E e \in Menu!Owners : SubMenu[e] = p /\ ContextMenu \in ps \cap u.shown
               /\ v.showing = u.showing /\ v.closing = u.closing
               /\ v.opened \cap Elements = u.opened \cap Elements
<1> DEFINE hidden == ps \cap u.shown
           gone == hidden \cup {SubMenu[e] : e \in {i \in Elements : Within[i] \in hidden}}
           v == Menu!HidePopups(u, ps)
<1>1. Menu!ButtonsOf(gone) \subseteq Buttons /\ Buttons \cap Elements = {}
  BY MenuAssumption DEF Menu!ButtonsOf
<1>2. v = [u EXCEPT !.shown = @ \ gone, !.opened = @ \ Menu!ButtonsOf(gone)]
  BY Zenon DEF Menu!HidePopups
<1>3. ASSUME NEW p \in u.shown, p \in gone, p \notin ps
      PROVE  \E e \in Menu!Owners : SubMenu[e] = p /\ ContextMenu \in hidden
  <2>1. PICK e \in Elements : SubMenu[e] = p /\ Within[e] \in hidden
    BY <1>3
  <2>2. p # Nothing
    BY MenuAssumption DEF MenuRecords
  <2> QED BY <2>1, <2>2, OwnerFacts
<1>4. ps \cap u.shown \subseteq gone
  OBVIOUS
<1> HIDE DEF gone
<1>5. /\ v \in MenuRecords /\ v.rendered = u.rendered /\ v.shown = u.shown \ gone
      /\ v.showing = u.showing /\ v.closing = u.closing
      /\ v.opened \cap Elements = u.opened \cap Elements
  BY <1>1, <1>2 DEF MenuRecords
<1> QED BY <1>3, <1>4, <1>5

\* Hiding keeps the invariant of the record, and that of the mouse, unless it takes away
\* just the submenu of the item the mouse is on.
LEMMA HidingKeeps ==
    ASSUME NEW u, NEW m, NEW ps, RecordOK(u), MouseOK(u, m),
           m \in Menu!Owners => SubMenu[m] \notin ps \/ ContextMenu \in ps
    PROVE  LET v == Menu!HidePopups(u, ps)
           IN  /\ RecordOK(v)
               /\ MouseOK(v, IF m \in Elements /\ Within[m] \notin v.shown THEN Page ELSE m)
<1> DEFINE v == Menu!HidePopups(u, ps)
           n == IF m \in Elements /\ Within[m] \notin v.shown THEN Page ELSE m
<1>1. /\ v \in MenuRecords
      /\ v.rendered = u.rendered /\ v.shown \subseteq u.shown
      /\ v.shown \cap ps = {}
      /\ \A p \in u.shown : p \in v.shown \/ p \in ps
              \/ \E e \in Menu!Owners : SubMenu[e] = p /\ ContextMenu \in ps \cap u.shown
      /\ v.showing = u.showing /\ v.closing = u.closing
      /\ v.opened \cap Elements = u.opened \cap Elements
  BY Hides DEF RecordOK
<1> HIDE DEF v
<1>0. \A e \in Elements : e \in v.opened <=> e \in u.opened
  BY <1>1
<1>2. RecordOK(v)
  <2>1. ASSUME NEW e \in Menu!Owners, SubMenu[e] \in v.shown PROVE e \in v.opened \cup v.closing
    BY <1>0, <1>1, <2>1, OwnerFacts DEF RecordOK
  <2>2. v.showing \subseteq v.opened
    BY <1>0, <1>1, OwnerFacts DEF RecordOK, MenuRecords
  <2>3. v.shown \subseteq v.rendered
    BY <1>1 DEF RecordOK
  <2> QED BY <1>1, <2>1, <2>2, <2>3 DEF RecordOK
<1>3. ASSUME n = Page PROVE MouseOK(v, n)
  <2>1. MouseOK(v, Page)
    BY MenuAssumption, OwnerFacts DEF MouseOK, Menu!Places
  <2> QED BY <1>3, <2>1
<1>4. ASSUME n = m, m \in Elements => Within[m] \in v.shown PROVE MouseOK(v, n)
  <2>1. m \in Menu!Owners => SubMenu[m] \notin ps /\ ContextMenu \notin ps
    BY <1>1, <1>4, OwnerFacts
  <2>2. m \in Menu!Owners => m \in v.opened /\ (m \in v.showing \/ SubMenu[m] \in v.shown)
    BY <1>1, <2>1, OwnerFacts DEF MouseOK
  <2>3. \A e \in Menu!Owners : m \in Elements /\ Within[m] = SubMenu[e] => e \in v.opened
    BY <1>0, OwnerFacts DEF MouseOK
  <2>4. m \in Elements /\ Within[m] = ContextMenu => v.opened \cap Menu!Owners \subseteq {m}
    BY <1>0, OwnerFacts DEF MouseOK
  <2>5. MouseOK(v, m)
    BY <1>4, <2>2, <2>3, <2>4 DEF MouseOK
  <2> QED BY <1>4, <2>5
<1>5. n = Page \/ (n = m /\ (m \in Elements => Within[m] \in v.shown))
  OBVIOUS
<1>6. MouseOK(v, n)
  BY <1>3, <1>4, <1>5, Zenon
<1> QED BY <1>2, <1>6, Zenon DEF v

\* Showing a popup keeps it, when the popup is no submenu or its item is opened.
LEMMA ShowingKeeps ==
    ASSUME NEW u, NEW m, NEW p \in Popups, RecordOK(u), MouseOK(u, m),
           \A e \in Menu!Owners : SubMenu[e] = p => e \in u.opened
    PROVE  RecordOK(Menu!ShowPopup(u, p)) /\ MouseOK(Menu!ShowPopup(u, p), m)
<1> DEFINE v == Menu!ShowPopup(u, p)
<1>1. /\ v \in MenuRecords
      /\ v.rendered = u.rendered \cup {p} /\ v.shown = u.shown \cup {p}
      /\ v.showing = u.showing /\ v.closing = u.closing
      /\ u.opened \subseteq v.opened /\ v.opened \cap Elements = u.opened \cap Elements
  BY Shows DEF RecordOK
<1> HIDE DEF v
<1>2. RecordOK(v)
  BY <1>1, OwnerFacts DEF RecordOK
<1>3. MouseOK(v, m)
  BY <1>1, OwnerFacts DEF MouseOK
<1> QED BY <1>2, <1>3 DEF v

\* The timers of items start and stop: no popup is shown or hidden, and an item that is
\* no longer opened is about to lose its submenu.
LEMMA DelayHides ==
    ASSUME NEW u, NEW es \in SUBSET Menu!Owners, RecordOK(u)
    PROVE  LET v == Menu!DelayHideSubMenu(u, es)
           IN  /\ RecordOK(v) /\ v.shown = u.shown
               /\ v.opened = u.opened \ es
<1> DEFINE v == Menu!DelayHideSubMenu(u, es)
<1>1. /\ v.rendered = u.rendered /\ v.shown = u.shown /\ v.opened = u.opened \ es
      /\ v.showing = u.showing \ es /\ v.closing = u.closing \cup es
      /\ v \in MenuRecords
  BY OwnerFacts DEF RecordOK, MenuRecords, Menu!DelayHideSubMenu
<1> HIDE DEF v
<1>2. RecordOK(v)
  BY <1>1, OwnerFacts DEF RecordOK
<1> QED BY <1>1, <1>2 DEF v

LEMMA DelayShows ==
    ASSUME NEW u, NEW e \in Menu!Owners, RecordOK(u)
    PROVE  LET v == Menu!DelayShowSubMenu(u, e)
           IN  /\ RecordOK(v) /\ v.shown = u.shown
               /\ v.opened = u.opened \cup {e} /\ e \in v.showing
<1> DEFINE v == Menu!DelayShowSubMenu(u, e)
<1>1. /\ v.rendered = u.rendered /\ v.shown = u.shown /\ v.opened = u.opened \cup {e}
      /\ v.showing = u.showing \cup {e} /\ v.closing = u.closing \ {e}
      /\ v \in MenuRecords
  <2>1. u \in MenuRecords /\ e \in Elements
    BY OwnerFacts DEF RecordOK
  <2> QED BY <2>1 DEF MenuRecords, Menu!DelayShowSubMenu
<1> HIDE DEF v
<1>2. RecordOK(v)
  BY <1>1, OwnerFacts DEF RecordOK
<1> QED BY <1>1, <1>2 DEF v

LEMMA Enters ==
    ASSUME NEW u, NEW p, RecordOK(u)
    PROVE  LET v == Menu!EnterSubMenu(u, p)
           IN  /\ RecordOK(v) /\ v.shown = u.shown
               /\ p \in Menu!SubMenus => Menu!OwnerOf(p) \in v.opened
               /\ p \notin Menu!SubMenus => v = u
<1> DEFINE v == Menu!EnterSubMenu(u, p)
           i == Menu!OwnerOf(p)
<1>1. CASE p \notin Menu!SubMenus
  BY <1>1, OwnerFacts DEF Menu!EnterSubMenu
<1>2. CASE p \in Menu!SubMenus
  <2>1. i \in Menu!Owners /\ i # Nothing
    BY <1>2, OwnerFacts
  <2> DEFINE closing == IF p \in Menus THEN u.closing \ {i} ELSE u.closing
  <2>2. v = [u EXCEPT !.opened = @ \cup {i}, !.closing = closing]
    BY <2>1 DEF Menu!EnterSubMenu
  <2>3. closing \subseteq u.closing /\ u.closing \subseteq closing \cup {i}
    OBVIOUS
  <2> HIDE DEF closing, v, i
  <2>4. /\ v.rendered = u.rendered /\ v.shown = u.shown /\ v.opened = u.opened \cup {i}
        /\ v.showing = u.showing /\ v.closing = closing
        /\ v \in MenuRecords
    <3>1. u \in MenuRecords /\ i \in Elements
      BY <2>1, OwnerFacts DEF RecordOK
    <3> QED BY <2>2, <2>3, <3>1 DEF MenuRecords
  <2>5. RecordOK(v)
    BY <2>1, <2>3, <2>4, OwnerFacts DEF RecordOK
  <2> QED BY <1>2, <2>4, <2>5 DEF v, i
<1> QED BY <1>1, <1>2

\* The mouse moves on.
LEMMA MoveKeeps ==
    ASSUME MenuInv, NEW x \in Menu!Places, Menu!Move(x)
    PROVE  MenuInv'
<1> DEFINE out == Menu!MouseOut(menu, mouse)
           over == Menu!MouseOver(out, x)
           others == {i \in Menu!ItemsOf(Within[x]) : Menu!HasSubMenu(i) /\ i # x}
           entered == x \in Elements /\ (mouse \in Elements => Within[mouse] # Within[x])
<1>1. /\ x \in Elements => Within[x] \in menu.shown
      /\ mouse' = x
      /\ menu' = IF x \notin Elements THEN out
                 ELSE IF entered \/ Within[x] \notin Menus THEN Menu!EnterSubMenu(over, Within[x]) ELSE over
  BY DEF Menu!Move
<1>2. /\ RecordOK(out) /\ out.shown = menu.shown
      /\ mouse \notin Menu!Owners => out = menu
  <2>1. CASE mouse \in Menu!Owners
    <3>1. out = Menu!DelayHideSubMenu(menu, {mouse})
      BY <2>1 DEF Menu!MouseOut, Menu!Owners
    <3> QED BY <2>1, <3>1, DelayHides DEF MenuInv
  <2>2. CASE mouse \notin Menu!Owners
    <3>1. out = menu
      BY <2>2 DEF Menu!MouseOut, Menu!Owners
    <3> QED BY <2>2, <3>1 DEF MenuInv
  <2> QED BY <2>1, <2>2
<1> HIDE DEF out
<1>3. ASSUME x \notin Elements PROVE RecordOK(menu') /\ MouseOK(menu', mouse')
  <2>1. menu' = out
    BY <1>1, <1>3
  <2>2. MouseOK(menu', mouse')
    BY <1>1, <1>3, OwnerFacts DEF MouseOK
  <2> QED BY <1>2, <2>1, <2>2
<1>4. ASSUME x \in Elements PROVE RecordOK(menu') /\ MouseOK(menu', mouse')
  <2>1. others \subseteq Menu!Owners
    BY DEF Menu!Owners, Menu!ItemsOf
  <2> DEFINE hid == Menu!DelayHideSubMenu(out, others)
  <2>2. /\ RecordOK(hid) /\ hid.shown = menu.shown /\ hid.opened = out.opened \ others
    BY <1>2, <2>1, DelayHides
  <2>3. over = IF x \in Menu!Owners THEN Menu!DelayShowSubMenu(hid, x) ELSE hid
    BY <1>4 DEF Menu!MouseOver, Menu!Owners
  <2> HIDE DEF hid, over
  <2>4. /\ RecordOK(over) /\ over.shown = menu.shown
        /\ x \in Menu!Owners => x \in over.showing /\ over.opened = (out.opened \ others) \cup {x}
        /\ x \notin Menu!Owners => over.opened = out.opened \ others
    BY <2>2, <2>3, DelayShows
  <2>5. /\ RecordOK(menu') /\ menu'.shown = menu.shown
        /\ Within[x] \notin Menu!SubMenus => menu' = over
        /\ Within[x] \in Menu!SubMenus => menu' = over \/ Menu!OwnerOf(Within[x]) \in menu'.opened
        /\ menu' = over \/ entered \/ Within[x] \notin Menus
    BY <1>1, <1>4, <2>4, Enters
  <2>6. ASSUME Within[x] = ContextMenu PROVE menu' = over /\ menu'.opened \cap Menu!Owners \subseteq {x}
    <3>1. menu' = over
      BY <2>5, <2>6, MenuAssumption
    <3>2. Menu!Owners \ {x} \subseteq others
      BY <2>6, OwnerFacts DEF Menu!ItemsOf, Menu!Owners
    <3> QED BY <2>4, <3>1, <3>2
  <2>7. ASSUME NEW e \in Menu!Owners, Within[x] = SubMenu[e] PROVE e \in menu'.opened
    <3>1. Within[x] \in Menu!SubMenus /\ Menu!OwnerOf(Within[x]) = e /\ Within[x] # ContextMenu
      BY <2>7, OwnerFacts
    <3>2. CASE entered \/ Within[x] \notin Menus
      BY <1>1, <1>4, <2>4, <3>1, <3>2, Enters
    <3>3. CASE ~entered /\ Within[x] \in Menus
      <4>1. mouse \in Elements /\ Within[mouse] = SubMenu[e]
        BY <1>4, <2>7, <3>3
      <4>2. e \in menu.opened
        BY <4>1 DEF MenuInv, MouseOK
      <4>3. out = menu /\ x \notin Menu!Owners
        BY <1>2, <3>1, <4>1, OwnerFacts, <2>7
      <4>4. e \notin others
        BY <3>1, OwnerFacts DEF Menu!ItemsOf
      <4>5. menu' = over
        BY <1>1, <1>4, <3>3
      <4> QED BY <2>4, <4>2, <4>3, <4>4, <4>5
    <3> QED BY <3>2, <3>3
  <2>8. ASSUME x \in Menu!Owners PROVE x \in menu'.opened /\ x \in menu'.showing
    BY <2>4, <2>6, <2>8, OwnerFacts
  <2>9. MouseOK(menu', mouse')
    BY <1>1, <2>5, <2>6, <2>7, <2>8 DEF MouseOK
  <2> QED BY <2>5, <2>9
<1>5. /\ hover' \subseteq Buttons /\ active' \subseteq Buttons /\ disabled' \subseteq Buttons
      /\ pressed' \in Menu!Places \cup {Nothing}
      /\ combo'.selected \in DOMAIN ValueOf \cup {Nothing}
  BY DEF Menu!Move, MenuInv
<1>6. RecordOK(menu') /\ MouseOK(menu', mouse')
  BY <1>3, <1>4
<1> QED BY <1>5, <1>6 DEF MenuInv

\* What the mouse is on, once the popups are those of u.
LEMMA BelowIsMouse ==
    ASSUME NEW u, MouseOK(u, mouse), Menu!Becomes(u)
    PROVE  menu' = u /\ mouse' = mouse
  BY DEF Menu!Becomes, Menu!Below, MouseOK

\* closeAllPopup for the element that is pressed, or for none.
LEMMA CloseAllKeeps ==
    ASSUME MenuInv, NEW el \in {mouse, Nothing}, Menu!Becomes(Menu!CloseAllPopup(menu, el))
    PROVE  RecordOK(menu') /\ MouseOK(menu', mouse')
<1> DEFINE ps == {p \in menu.shown : ~Menu!Stays(menu, p, el)}
<1>1. mouse \in Menu!Owners => SubMenu[mouse] \notin ps \/ ContextMenu \in ps
  <2> SUFFICES ASSUME mouse \in Menu!Owners PROVE SubMenu[mouse] \notin ps \/ ContextMenu \in ps
    OBVIOUS
  <2>1. CASE el = mouse
    <3>1. Menu!Contains(SubMenu[mouse], el)
      BY <2>1, OwnerFacts DEF Menu!Contains
    <3> QED BY <3>1 DEF Menu!Stays
  <2>2. CASE el = Nothing
    <3>1. ContextMenu \in menu.shown
      BY OwnerFacts DEF MenuInv, MouseOK
    <3>2. ~Menu!Stays(menu, ContextMenu, el)
      BY <2>2, OwnerFacts DEF Menu!Stays, Menu!Contains
    <3> QED BY <3>1, <3>2
  <2> QED BY <2>1, <2>2
<1>2. Menu!Becomes(Menu!HidePopups(menu, ps))
  BY Zenon DEF Menu!CloseAllPopup
<1> HIDE DEF ps
<1> QED BY <1>1, <1>2, HidingKeeps DEF Menu!Becomes, Menu!Below, MenuInv

\* The right mouse button: of the old context menu nothing is left.
LEMMA ContextMenuKeeps ==
    ASSUME MenuInv, Menu!NewContextMenu
    PROVE  RecordOK(menu') /\ MouseOK(menu', mouse')
<1> DEFINE u == Menu!DestroyMenu(menu)
           own == {ContextMenu} \cup Menu!SubMenus
           v == Menu!ShowPopup(u, ContextMenu)
<1>1. mouse = Page /\ mouse' = Page /\ menu' = [v EXCEPT !.rendered = @ \cup Menu!SubMenus]
  BY DEF Menu!NewContextMenu
<1>2. /\ u.rendered = menu.rendered \ own /\ u.shown = menu.shown \ own
      /\ u.opened = menu.opened \ Elements /\ u.showing = {} /\ u.closing = {}
      /\ u \in MenuRecords
  <2>1. menu \in MenuRecords
    BY DEF MenuInv, RecordOK
  <2> QED BY <2>1 DEF MenuRecords, Menu!DestroyMenu
<1> HIDE DEF u
<1>3. RecordOK(u)
  BY <1>2, OwnerFacts DEF RecordOK, MenuInv
<1>4. ASSUME NEW w PROVE MouseOK(w, Page)
  BY MenuAssumption, OwnerFacts DEF MouseOK, Menu!Places
<1>5. RecordOK(v)
  BY <1>3, <1>4, ShowingKeeps, OwnerFacts, MenuAssumption
<1> HIDE DEF v
<1>6. Menu!SubMenus \subseteq Popups
  BY OwnerFacts DEF Menu!SubMenus, Menu!Owners, Menu!HasSubMenu
<1>7. /\ menu'.rendered = v.rendered \cup Menu!SubMenus /\ menu'.shown = v.shown
      /\ menu'.opened = v.opened /\ menu'.showing = v.showing /\ menu'.closing = v.closing
      /\ menu' \in MenuRecords
  <2>1. v \in MenuRecords
    BY <1>5 DEF RecordOK
  <2> QED BY <1>1, <1>6, <2>1 DEF MenuRecords
<1>8. RecordOK(menu')
  BY <1>5, <1>7 DEF RecordOK
<1> QED BY <1>1, <1>4, <1>8

\* The timers of an item.
LEMMA ShowTimerKeeps ==
    ASSUME MenuInv, NEW e \in Menu!Owners, Menu!ShowTimer(e)
    PROVE  RecordOK(menu') /\ MouseOK(menu', mouse)
<1> DEFINE v == Menu!ShowPopup(menu, SubMenu[e])
           w == Menu!ShowPopup([menu EXCEPT !.showing = @ \ {e}], SubMenu[e])
<1>1. e \in menu.showing /\ menu' = w
  BY DEF Menu!ShowTimer
<1>2. menu \in MenuRecords /\ e \in menu.opened /\ SubMenu[e] \in Popups
  BY <1>1, OwnerFacts DEF MenuInv, RecordOK
<1>3. \A i \in Menu!Owners : SubMenu[i] = SubMenu[e] => i \in menu.opened
  BY <1>2, MenuAssumption
<1>4. RecordOK(v) /\ MouseOK(v, mouse)
  BY <1>2, <1>3, ShowingKeeps DEF MenuInv
<1>5. SubMenu[e] \in v.shown
  BY <1>2, Shows
<1>6. /\ w.rendered = v.rendered /\ w.shown = v.shown /\ w.opened = v.opened
      /\ w.showing = v.showing \ {e} /\ w.closing = v.closing
      /\ w \in MenuRecords
  <2> DEFINE ps == Menu!ButtonsOf({SubMenu[e]})
  <2>1. ps \subseteq Buttons
    BY DEF Menu!ButtonsOf
  <2> HIDE DEF ps
  <2>2. /\ v = [menu EXCEPT !.rendered = @ \cup {SubMenu[e]}, !.shown = @ \cup {SubMenu[e]},
                            !.opened = @ \cup (IF SubMenu[e] \in menu.shown THEN {} ELSE ps)]
        /\ w = [[menu EXCEPT !.showing = @ \ {e}] EXCEPT
                            !.rendered = @ \cup {SubMenu[e]}, !.shown = @ \cup {SubMenu[e]},
                            !.opened = @ \cup (IF SubMenu[e] \in menu.shown THEN {} ELSE ps)]
    BY <1>2 DEF Menu!ShowPopup, ps, MenuRecords
  <2> HIDE DEF v, w
  <2> QED BY <1>2, <2>1, <2>2 DEF MenuRecords
<1> HIDE DEF v, w
<1>7. RecordOK(w)
  BY <1>4, <1>6 DEF RecordOK
<1>8. MouseOK(w, mouse)
  <2>1. mouse \in Menu!Owners => mouse \in w.opened /\ (mouse \in w.showing \/ SubMenu[mouse] \in w.shown)
    BY <1>4, <1>5, <1>6 DEF MouseOK
  <2> QED BY <1>4, <1>6, <2>1 DEF MouseOK
<1> QED BY <1>1, <1>7, <1>8

LEMMA CloseTimerKeeps ==
    ASSUME MenuInv, NEW e \in Menu!Owners, Menu!CloseTimer(e)
    PROVE  RecordOK(menu') /\ MouseOK(menu', mouse')
<1> DEFINE u == [menu EXCEPT !.closing = @ \ {e}]
           v == Menu!HidePopups(menu, {SubMenu[e]})
           w == Menu!HidePopups(u, {SubMenu[e]})
<1>1. Menu!Becomes(IF e \in u.opened THEN u ELSE w)
  BY Zenon DEF Menu!CloseTimer
<1>2. menu \in MenuRecords
  BY DEF MenuInv, RecordOK
<1>3. /\ u.rendered = menu.rendered /\ u.shown = menu.shown /\ u.opened = menu.opened
      /\ u.showing = menu.showing /\ u.closing = menu.closing \ {e}
      /\ u \in MenuRecords
  BY <1>2 DEF MenuRecords
<1>4. CASE e \in menu.opened
  <2>1. RecordOK(u) /\ MouseOK(u, mouse)
    BY <1>3, <1>4 DEF MenuInv, RecordOK, MouseOK
  <2> QED BY <1>1, <1>3, <1>4, <2>1, BelowIsMouse
<1>5. CASE e \notin menu.opened
  <2> DEFINE n == IF mouse \in Elements /\ Within[mouse] \notin v.shown THEN Page ELSE mouse
  <2>1. RecordOK(v) /\ MouseOK(v, n)
    <3>1. mouse \in Menu!Owners => SubMenu[mouse] # SubMenu[e]
      BY <1>5, MenuAssumption DEF MenuInv, MouseOK
    <3> QED BY <3>1, HidingKeeps DEF MenuInv
  <2>2. SubMenu[e] \notin v.shown
    BY <1>2, Hides
  <2>3. /\ w.rendered = v.rendered /\ w.shown = v.shown /\ w.opened = v.opened
        /\ w.showing = v.showing /\ w.closing = v.closing \ {e}
        /\ w \in MenuRecords
    <3> DEFINE hidden == {SubMenu[e]} \cap menu.shown
               gone == hidden \cup {SubMenu[i] : i \in {j \in Elements : Within[j] \in hidden}}
               ps == Menu!ButtonsOf(gone)
    <3>1. /\ v = [menu EXCEPT !.shown = @ \ gone, !.opened = @ \ ps]
          /\ w = [u EXCEPT !.shown = @ \ gone, !.opened = @ \ ps]
      BY <1>3, Zenon DEF Menu!HidePopups
    <3> HIDE DEF gone, ps, v, w
    <3> QED BY <1>2, <3>1 DEF MenuRecords
  <2> HIDE DEF v, w
  <2>4. RecordOK(w)
    BY <2>1, <2>2, <2>3 DEF RecordOK
  <2>5. MouseOK(w, n)
    BY <2>1, <2>3 DEF MouseOK
  <2>6. menu' = w /\ mouse' = n
    BY <1>1, <1>3, <1>5, <2>3 DEF Menu!Becomes, Menu!Below
  <2> QED BY <2>4, <2>5, <2>6, Zenon
<1> QED BY <1>4, <1>5

LEMMA MenuStep == MenuInv /\ [Menu!Next]_(Menu!vars) => MenuInv'
<1> SUFFICES ASSUME MenuInv, [Menu!Next]_(Menu!vars) PROVE MenuInv'
  OBVIOUS
<1> DEFINE Kept == RecordOK(menu') /\ MouseOK(menu', mouse')
           Buttoned == /\ hover' \subseteq Buttons /\ active' \subseteq Buttons /\ disabled' \subseteq Buttons
                       /\ pressed' \in Menu!Places \cup {Nothing}
                       /\ combo'.selected \in DOMAIN ValueOf \cup {Nothing}
<1>1. UNCHANGED <<menu, mouse>> => Kept
  BY DEF MenuInv
<1>2. Kept /\ Buttoned => MenuInv'
  BY DEF MenuInv
<1>3. RecordOK(menu) /\ MouseOK(menu, mouse) /\ mouse \in Menu!Places
  BY DEF MenuInv, MouseOK
<1>4. CASE \E x \in Menu!Places : Menu!Move(x)
  BY <1>4, MoveKeeps
<1>5. CASE Menu!Press
  <2>1. Kept
    BY <1>5, CloseAllKeeps DEF Menu!Press
  <2>2. Buttoned
    BY <1>3, <1>5 DEF Menu!Press, MenuInv
  <2> QED BY <1>2, <2>1, <2>2
<1>6. CASE Menu!ClickButton
  <2>1. ASSUME mouse \notin disabled PROVE Kept
    <3>1. ButtonPopup[mouse] \in Popups /\ ButtonPopup[mouse] \notin Menu!SubMenus
      BY <1>6, MenuAssumption DEF Menu!ClickButton
    <3>2. MouseOK(Menu!ShowPopup(menu, ButtonPopup[mouse]), mouse)
          /\ RecordOK(Menu!ShowPopup(menu, ButtonPopup[mouse]))
      BY <1>3, <3>1, ShowingKeeps, OwnerFacts
    <3> QED BY <1>6, <2>1, <3>2, BelowIsMouse DEF Menu!ClickButton
  <2>2. Kept
    BY <1>1, <1>6, <2>1 DEF Menu!ClickButton
  <2>3. Buttoned
    BY <1>3, <1>6 DEF Menu!ClickButton, Menu!Release, MenuInv
  <2> QED BY <1>2, <2>2, <2>3
<1>7. CASE Menu!ClickOwner
  <2>1. mouse \in Menu!Owners
    BY <1>7 DEF Menu!ClickOwner, Menu!Owners
  <2>2. \A e \in Menu!Owners : SubMenu[e] = SubMenu[mouse] => e \in menu.opened
    BY <1>3, <2>1, MenuAssumption DEF MouseOK
  <2>3. RecordOK(Menu!ShowPopup(menu, SubMenu[mouse])) /\ MouseOK(Menu!ShowPopup(menu, SubMenu[mouse]), mouse)
    BY <1>3, <2>1, <2>2, ShowingKeeps, OwnerFacts
  <2>4. Kept
    BY <1>7, <2>3, BelowIsMouse DEF Menu!ClickOwner
  <2>5. Buttoned
    BY <1>7 DEF Menu!ClickOwner, Menu!Release, MenuInv
  <2> QED BY <1>2, <2>4, <2>5
<1>8. CASE Menu!ClickItem
  <2>1. Kept
    BY <1>8, CloseAllKeeps DEF Menu!ClickItem
  <2>2. combo'.selected \in DOMAIN ValueOf \cup {Nothing}
    BY <1>8 DEF Menu!ClickItem, Menu!SelectByIndex, MenuInv
  <2>3. Buttoned
    BY <1>8, <2>2 DEF Menu!ClickItem, Menu!Release, MenuInv
  <2> QED BY <1>2, <2>1, <2>3
<1>9. CASE Menu!PickCell
  <2>1. mouse \notin Menu!Owners
    BY <1>9, OwnerFacts, MenuAssumption DEF Menu!PickCell
  <2>2. ASSUME Menu!Becomes(Menu!HidePopups(menu, {Within[mouse]})) PROVE Kept
    BY <1>3, <2>1, <2>2, HidingKeeps DEF Menu!Becomes, Menu!Below
  <2>3. Kept
    BY <1>1, <1>9, <2>2 DEF Menu!PickCell
  <2>4. Buttoned
    BY <1>9 DEF Menu!PickCell, Menu!Release, MenuInv
  <2> QED BY <1>2, <2>3, <2>4
<1>10. CASE Menu!Scroll
  <2>1. Kept
    BY <1>10, CloseAllKeeps DEF Menu!Scroll
  <2>2. Buttoned
    BY <1>10 DEF Menu!Scroll, Menu!buttons, MenuInv
  <2> QED BY <1>2, <2>1, <2>2
<1>11. CASE Menu!NewContextMenu
  <2>1. Buttoned
    BY <1>11 DEF Menu!NewContextMenu, Menu!buttons, MenuInv
  <2> QED BY <1>2, <1>11, <2>1, ContextMenuKeeps
<1>12. ASSUME NEW e \in Menu!Owners, Menu!ShowTimer(e) \/ Menu!CloseTimer(e) PROVE MenuInv'
  <2>1. CASE Menu!ShowTimer(e)
    <3>1. Buttoned /\ mouse' = mouse
      BY <2>1 DEF Menu!ShowTimer, Menu!buttons, MenuInv
    <3> QED BY <1>2, <2>1, <3>1, ShowTimerKeeps
  <2>2. CASE Menu!CloseTimer(e)
    <3>1. Buttoned
      BY <2>2 DEF Menu!CloseTimer, Menu!buttons, MenuInv
    <3> QED BY <1>2, <2>2, <3>1, CloseTimerKeeps
  <2> QED BY <1>12, <2>1, <2>2
<1>13. ASSUME NEW b \in Buttons, Menu!SetDisabled(b) \/ Menu!SetEnabled(b) PROVE MenuInv'
  <2>1. Buttoned /\ UNCHANGED <<menu, mouse>>
    BY <1>13 DEF Menu!SetDisabled, Menu!SetEnabled, MenuInv
  <2> QED BY <1>1, <1>2, <2>1
<1>14. ASSUME NEW v, Menu!SetValue(v) PROVE MenuInv'
  <2>1. UNCHANGED <<menu, mouse, pressed, hover, active, disabled>>
    BY <1>14 DEF Menu!SetValue, Menu!buttons
  <2>2. combo'.selected \in DOMAIN ValueOf \cup {Nothing}
    <3> DEFINE found == {e \in DOMAIN ValueOf : ValueOf[e] = v}
    <3>1. combo'.selected = IF found = {} THEN Nothing ELSE CHOOSE e \in found : TRUE
      BY <1>14 DEF Menu!SetValue
    <3>2. found # {} => (CHOOSE e \in found : TRUE) \in found
      OBVIOUS
    <3> QED BY <3>1, <3>2
  <2>3. Buttoned
    BY <2>1, <2>2 DEF MenuInv
  <2> QED BY <1>1, <1>2, <2>1, <2>3
<1>15. CASE UNCHANGED Menu!vars
  BY <1>15 DEF Menu!vars, Menu!buttons, MenuInv
<1> HIDE DEF Kept, Buttoned
<1> QED
  BY <1>4, <1>5, <1>6, <1>7, <1>8, <1>9, <1>10, <1>11, <1>12, <1>13, <1>14, <1>15, Zenon DEF Menu!Next

\* What the invariant says of a menu whose timers have run.
LEMMA MenuGives ==
    MenuInv => Menu!TypeOK /\ Menu!RestShowsItsSubMenu /\ Menu!NoForgottenSubMenu
<1> SUFFICES ASSUME MenuInv PROVE Menu!TypeOK /\ Menu!RestShowsItsSubMenu /\ Menu!NoForgottenSubMenu
  OBVIOUS
<1>1. menu \in MenuRecords /\ RecordOK(menu) /\ MouseOK(menu, mouse)
  BY DEF MenuInv, RecordOK
<1>2. Menu!TypeOK
  BY <1>1, OwnerFacts DEF MenuRecords, Menu!TypeOK, MenuInv, RecordOK, MouseOK
<1>3. Menu!NoForgottenSubMenu
  BY <1>1 DEF Menu!NoForgottenSubMenu, RecordOK, Menu!Owners
<1>4. ASSUME mouse \in Elements, Within[mouse] = ContextMenu, menu.showing = {}, menu.closing = {}
      PROVE  (menu.shown \cap Menu!SubMenus) = {SubMenu[mouse]} \ {Nothing}
  <2>1. ASSUME NEW p \in menu.shown \cap Menu!SubMenus PROVE p = SubMenu[mouse] /\ p # Nothing
    <3>1. PICK e \in Menu!Owners : SubMenu[e] = p
      BY OwnerFacts
    <3>2. e \in menu.opened
      BY <1>1, <1>4, <3>1 DEF RecordOK
    <3>3. e = mouse
      BY <1>1, <1>4, <3>2 DEF MouseOK
    <3> QED BY <3>1, <3>3 DEF Menu!SubMenus
  <2>2. ASSUME SubMenu[mouse] # Nothing PROVE SubMenu[mouse] \in menu.shown \cap Menu!SubMenus
    <3>1. mouse \in Menu!Owners
      BY <1>4, <2>2 DEF Menu!Owners, Menu!HasSubMenu
    <3> QED BY <1>1, <1>4, <3>1, OwnerFacts DEF MouseOK
  <2> QED BY <2>1, <2>2
<1>5. Menu!RestShowsItsSubMenu
  BY <1>4 DEF Menu!RestShowsItsSubMenu, Menu!ItemsOf
<1> QED BY <1>2, <1>3, <1>5

\* A press: it is the only step that presses the mouse.
LEMMA OnlyPress ==
    [Menu!Next]_(Menu!vars) /\ Menu!PressStep => Menu!Press
<1> SUFFICES ASSUME [Menu!Next]_(Menu!vars), pressed = Nothing, pressed' # Nothing PROVE Menu!Press
  BY DEF Menu!PressStep
<1>1. ~ Menu!ClickButton /\ ~ Menu!ClickOwner /\ ~ Menu!ClickItem /\ ~ Menu!PickCell
  BY DEF Menu!ClickButton, Menu!ClickOwner, Menu!ClickItem, Menu!PickCell, Menu!Release
<1>2. ~ Menu!Scroll /\ ~ Menu!NewContextMenu /\ (\A x : ~ Menu!Move(x))
  BY DEF Menu!Scroll, Menu!NewContextMenu, Menu!Move
<1>3. \A e : ~ Menu!ShowTimer(e) /\ ~ Menu!CloseTimer(e)
  BY DEF Menu!ShowTimer, Menu!CloseTimer
<1>4. \A x : ~ Menu!SetDisabled(x) /\ ~ Menu!SetEnabled(x) /\ ~ Menu!SetValue(x)
  BY DEF Menu!SetDisabled, Menu!SetEnabled, Menu!SetValue
<1>5. ~ UNCHANGED Menu!vars
  BY DEF Menu!vars
<1> QED BY <1>1, <1>2, <1>3, <1>4, <1>5 DEF Menu!Next

\* A press closes every popup that it is outside of; the one it is in stays, and so does
\* the menu of the item this one is the submenu of, which is still opened.
LEMMA PressGives ==
    ASSUME MenuInv, Menu!Press
    PROVE  /\ mouse \notin Elements => menu'.shown = {}
           /\ mouse \in Elements =>
                LET p == Within[mouse]
                    parent == IF Menu!OwnerOf(p) = Nothing THEN {} ELSE {Within[Menu!OwnerOf(p)]}
                IN  (({p} \cup parent) \cap menu.shown) \subseteq menu'.shown
<1> DEFINE ps == {p \in menu.shown : ~Menu!Stays(menu, p, mouse)}
           v == Menu!HidePopups(menu, ps)
<1>1. menu' = v
  BY Zenon DEF Menu!Press, Menu!Becomes, Menu!CloseAllPopup
<1>2. menu \in MenuRecords /\ MouseOK(menu, mouse)
  BY DEF MenuInv, RecordOK
<1>3. /\ v.shown \subseteq menu.shown /\ v.shown \cap ps = {}
      /\ \A p \in menu.shown : p \in v.shown \/ p \in ps
              \/ \E e \in Menu!Owners : SubMenu[e] = p /\ ContextMenu \in ps \cap menu.shown
  BY <1>2, Hides
<1> HIDE DEF v
<1>4. ASSUME mouse \notin Elements PROVE menu'.shown = {}
  <2>1. ps = menu.shown
    BY <1>4 DEF Menu!Stays, Menu!Contains
  <2> QED BY <1>1, <1>3, <2>1
<1>5. ASSUME mouse \in Elements, NEW p \in Popups,
             p = Within[mouse] \/ (Menu!OwnerOf(Within[mouse]) # Nothing /\ p = Within[Menu!OwnerOf(Within[mouse])]),
             p \in menu.shown
      PROVE  p \in menu'.shown
  <2>1. ASSUME Menu!OwnerOf(Within[mouse]) # Nothing
        PROVE  ContextMenu \notin ps /\ Within[Menu!OwnerOf(Within[mouse])] = ContextMenu
    <3> DEFINE e == Menu!OwnerOf(Within[mouse])
    <3>1. e \in Menu!Owners /\ Within[mouse] = SubMenu[e]
      BY <2>1, OwnerFacts
    <3>2. e \in menu.opened /\ Within[e] = ContextMenu
      BY <1>2, <1>5, <3>1, OwnerFacts DEF MouseOK
    <3>3. e \in Menu!ItemsOf(ContextMenu) /\ Menu!HasSubMenu(e)
      BY <3>1, <3>2, OwnerFacts DEF Menu!ItemsOf, Menu!Owners
    <3>4. Menu!Contains(SubMenu[e], mouse)
      BY <1>5, <3>1 DEF Menu!Contains
    <3>5. Menu!Stays(menu, ContextMenu, mouse)
      BY <3>2, <3>3, <3>4 DEF Menu!Stays
    <3> QED BY <3>2, <3>5
  <2>2. Within[mouse] \notin ps
    BY <1>5 DEF Menu!Stays, Menu!Contains
  <2>3. ASSUME NEW e \in Menu!Owners, SubMenu[e] = p PROVE ContextMenu \notin ps
    BY <1>5, <2>1, <2>3, OwnerFacts
  <2>4. p \notin ps
    BY <1>5, <2>1, <2>2
  <2> HIDE DEF ps
  <2> QED BY <1>1, <1>3, <1>5, <2>3, <2>4
<1>6. menu.shown \subseteq Popups
  BY <1>2 DEF MenuRecords
<1> QED BY <1>4, <1>5, <1>6

\* A step of the whole is one of the menus, or leaves them alone.
LEMMA RunMenuStep ==
    ASSUME [Next]_vars
    PROVE  [Menu!Next]_(Menu!vars)
<1>1. CASE MenuSteps
  BY <1>1 DEF MenuSteps
<1>2. CASE UNCHANGED menus
  BY <1>2 DEF menus, Menu!vars, Menu!buttons
<1> QED
  BY <1>1, <1>2, Zenon DEF Next, vars, DraftSteps, ShellSteps, LifeSteps, AjaxSteps, LateSteps

\* MenusFollowMouse holds throughout, for any popups and items.
THEOREM MenusAreRight == Spec => MenusFollowMouse
<1> DEFINE Outside == (Menu!PressStep /\ mouse \notin Elements) => menu'.shown = {}
           Inside == (Menu!PressStep /\ mouse \in Elements) =>
                        LET p == Within[mouse]
                            parent == IF Menu!OwnerOf(p) = Nothing THEN {} ELSE {Within[Menu!OwnerOf(p)]}
                        IN  (({p} \cup parent) \cap menu.shown) \subseteq menu'.shown
<1>1. Init => MenuInv
  <2>1. Menu!Init => MenuInv
    BY MenuAssumption, OwnerFacts DEF Menu!Init, MenuInv, RecordOK, MouseOK, MenuRecords, Menu!Places
  <2> QED BY <2>1 DEF Init
<1>2. MenuInv /\ [Next]_vars => MenuInv' /\ [Outside]_(Menu!vars) /\ [Inside]_(Menu!vars)
  <2> SUFFICES ASSUME MenuInv, [Next]_vars PROVE MenuInv' /\ Outside /\ Inside
    OBVIOUS
  <2>1. [Menu!Next]_(Menu!vars)
    BY RunMenuStep
  <2>2. MenuInv'
    BY <2>1, MenuStep
  <2>3. ASSUME Menu!PressStep
        PROVE  /\ mouse \notin Elements => menu'.shown = {}
               /\ mouse \in Elements =>
                    LET p == Within[mouse]
                        parent == IF Menu!OwnerOf(p) = Nothing THEN {} ELSE {Within[Menu!OwnerOf(p)]}
                    IN  (({p} \cup parent) \cap menu.shown) \subseteq menu'.shown
    BY <2>1, <2>3, OnlyPress, PressGives
  <2> QED BY <2>2, <2>3, Zenon
<1>3. MenuInv => Menu!TypeOK /\ Menu!RestShowsItsSubMenu /\ Menu!NoForgottenSubMenu
  BY MenuGives
<1> QED BY <1>1, <1>2, <1>3, PTL DEF Spec, MenusFollowMouse, Menu!OutsideClosesAll, Menu!InsideStays

-----------------------------------------------------------------------------
(* The start of editors                                                    *)

RunLifeInv == IF subject = "config" THEN Config!LifeInv ELSE Life!LifeInv

LEMMA RunLifeStep == RunLifeInv /\ [Next]_vars => RunLifeInv'
<1> SUFFICES ASSUME RunLifeInv, [Next]_vars PROVE RunLifeInv'
  OBVIOUS
<1>1. CASE LifeSteps
  <2>1. subject' = subject /\ subject \in {"life", "config"}
    BY <1>1 DEF LifeSteps
  <2>2. CASE subject = "config"
    BY <1>1, <2>1, <2>2, Config!LifeStep DEF LifeSteps, RunLifeInv
  <2>3. CASE subject = "life"
    BY <1>1, <2>1, <2>3, Life!LifeStep DEF LifeSteps, RunLifeInv
  <2> QED BY <2>1, <2>2, <2>3
<1>2. CASE UNCHANGED <<subject, life>>
  <2>1. UNCHANGED Config!vars /\ UNCHANGED Life!vars
    BY <1>2 DEF life, Config!vars, Config!page, Life!vars, Life!page
  <2> QED BY <1>2, <2>1, Config!LifeStep, Life!LifeStep DEF RunLifeInv
<1> QED
  BY <1>1, <1>2, Zenon DEF Next, vars, DraftSteps, ShellSteps, MenuSteps, AjaxSteps, LateSteps

\* StartIsOrdered holds throughout: the editors of the subject keep the invariant of
\* EditorLifecycle, and the other parts do not touch them.
THEOREM StartIsRight == Spec => []StartIsOrdered
<1>1. Init => RunLifeInv
  BY Config!LifeInit, Life!LifeInit DEF Init, RunLifeInv
<1>2. RunLifeInv => StartIsOrdered
  <2>1. ASSUME subject = "config", RunLifeInv PROVE StartIsOrdered
    <3>1. Config!TypeOK /\ Config!BuiltInItsLanguage /\ Config!ReadyRunsAll /\ Config!ConfigHandlersRunOnce
      BY <2>1, Config!LifeGives DEF RunLifeInv
    <3>2. Life!BuiltInItsLanguage /\ Life!ReadyRunsAll /\ Life!ConfigHandlersRunOnce
      <4>1. Life!BuiltInItsLanguage
        BY <3>1 DEF Config!BuiltInItsLanguage, Life!BuiltInItsLanguage, Config!Live, Life!Live
      <4>2. Life!ReadyRunsAll
        BY <3>1 DEF Config!ReadyRunsAll, Life!ReadyRunsAll, Config!Live, Life!Live
      <4>3. ASSUME NEW e \in Life!Live
            PROVE  Life!Cardinality(Life!ToSet(ed[e].heard)) = Len(ed[e].heard)
        <5>1. e \in {1, 2} /\ Config!EdOK(ed[e])
          BY <2>1 DEF RunLifeInv, Config!LifeInv, Life!Live
        <5>2. ed[e].heard \in Seq({"h", "k"}) /\ Life!IsInjective(ed[e].heard)
          BY <5>1 DEF Config!EdOK, Config!EdType, Config!ConfigOK, Config!IsInjective, Life!IsInjective
        <5> QED BY <5>2, Life!DistinctCount
      <4>4. ASSUME NEW e \in Life!Live, ed[e].config = "loaded"
            PROVE  Life!ToSet(ed[e].handlers) \subseteq ed[e].late
        BY <3>1, <4>4 DEF Config!ConfigHandlersRunOnce, Config!Live, Life!Live, Config!ToSet, Life!ToSet
      <4> QED BY <4>1, <4>2, <4>3, <4>4 DEF Life!ConfigHandlersRunOnce
    <3> QED BY <2>1, <3>1, <3>2 DEF StartIsOrdered
  <2>2. ASSUME subject # "config", RunLifeInv PROVE StartIsOrdered
    BY <2>2, Life!LifeGives DEF RunLifeInv, StartIsOrdered
  <2> QED BY <2>1, <2>2
<1> QED BY <1>1, <1>2, RunLifeStep, PTL DEF Spec

-----------------------------------------------------------------------------
(* Requests.  What a caller was told follows from how far its request has  *)
(* come: an XMLHttpRequest that waits was told nothing, and one that is    *)
(* over is past the reach of its timer; a script that waits was told at    *)
(* most by its timer, which then took its function away.                   *)

RequestRecords == [readyState : 0..4, net : {"idle", "waits", "over"}, timer : BOOLEAN, timeIsOut : BOOLEAN,
            script : BOOLEAN, callback : BOOLEAN, success : Nat, error : Nat]

XhrOK(x) ==
    /\ x.net = "idle" => x.success = 0 /\ x.error = 0 /\ ~x.timer
    /\ x.net = "waits" => x.success = 0 /\ x.error = 0 /\ x.readyState < 4
    /\ x.net = "over" => /\ x.success + x.error = 1
                         /\ x.timer => x.readyState = 4

JsonpOK(r, x) ==
    /\ x.net = "idle" => x.success = 0 /\ x.error = 0 /\ ~x.timer /\ ~x.callback
    /\ x.net = "waits" => /\ x.success = 0 /\ x.error <= 1
                          /\ x.timer \/ r \notin TimeOut => x.error = 0
                          /\ x.callback <=> x.error = 0
    /\ x.net = "over" => /\ x.success > 0 => x.success = 1 /\ x.error = 0 /\ ~x.timer
                         /\ x.error <= IF r \in TimeOut /\ ~x.timer THEN 2 ELSE 1
    /\ x.timer => r \in TimeOut
    /\ x.script <=> x.callback
    /\ x.success + x.error > 0 => ~x.callback

AjaxInv ==
    /\ req \in [Requests -> RequestRecords]
    /\ \A r \in Requests : IF r \in Jsonp THEN JsonpOK(r, req[r]) ELSE XhrOK(req[r])

\* What the callbacks do to a request, field by field.
LEMMA Callbacks ==
    ASSUME NEW x \in RequestRecords
    PROVE  /\ Ajax!Success(x) \in RequestRecords /\ Ajax!Success(x).success = x.success + 1
           /\ Ajax!Success(x).error = x.error /\ Ajax!Success(x).timer = x.timer /\ Ajax!Success(x).net = x.net
           /\ Ajax!Fail(x) \in RequestRecords /\ Ajax!Fail(x).error = x.error + 1
           /\ Ajax!Fail(x).success = x.success /\ Ajax!Fail(x).timer = x.timer /\ Ajax!Fail(x).net = x.net
           /\ Ajax!Fail(x).readyState = x.readyState /\ Ajax!Success(x).readyState = x.readyState
  BY DEF Ajax!Success, Ajax!Fail, RequestRecords

LEMMA Removal ==
    ASSUME NEW x \in RequestRecords
    PROVE  /\ Ajax!Finally(x) \in RequestRecords /\ ~Ajax!Finally(x).script /\ ~Ajax!Finally(x).callback
           /\ Ajax!Finally(x).success = x.success /\ Ajax!Finally(x).error = x.error
           /\ Ajax!Finally(x).timer = x.timer /\ Ajax!Finally(x).net = x.net
<1> DEFINE y == [x EXCEPT !.script = FALSE]
<1>1. /\ y \in RequestRecords /\ ~y.script /\ y.callback = x.callback /\ y.success = x.success
      /\ y.error = x.error /\ y.timer = x.timer /\ y.net = x.net
  BY DEF RequestRecords
<1>2. Ajax!Finally(x) = [y EXCEPT !.callback = FALSE]
  BY DEF Ajax!Finally
<1> HIDE DEF y
<1> QED BY <1>1, <1>2 DEF RequestRecords

LEMMA AjaxInit == Ajax!Init => AjaxInv
<1> SUFFICES ASSUME Ajax!Init PROVE AjaxInv
  OBVIOUS
<1>1. Ajax!NoReq \in RequestRecords /\ XhrOK(Ajax!NoReq)
  BY DEF Ajax!NoReq, RequestRecords, XhrOK
<1>2. \A r : JsonpOK(r, Ajax!NoReq)
  BY DEF Ajax!NoReq, JsonpOK
<1> QED BY <1>1, <1>2 DEF Ajax!Init, AjaxInv

\* A step changes one request, and keeps what holds of it.
LEMMA OneRequest ==
    ASSUME AjaxInv, NEW r \in Requests, NEW x \in RequestRecords, Ajax!Becomes(r, x),
           IF r \in Jsonp THEN JsonpOK(r, x) ELSE XhrOK(x)
    PROVE  AjaxInv'
  BY DEF AjaxInv, Ajax!Becomes

LEMMA XhrStep ==
    ASSUME AjaxInv, NEW r \in Requests,
           Ajax!DoAjax(r) \/ Ajax!Headers(r) \/ (\E ok \in BOOLEAN : Ajax!Answer(r, ok)) \/ Ajax!Timer(r)
    PROVE  AjaxInv'
<1> DEFINE x == req[r]
<1>1. x \in RequestRecords /\ r \notin Jsonp /\ XhrOK(x)
  BY DEF AjaxInv, Ajax!DoAjax, Ajax!Headers, Ajax!Answer, Ajax!Timer
<1>2. CASE Ajax!DoAjax(r)
  <2> DEFINE y == [Ajax!NoReq EXCEPT !.readyState = 1, !.net = "waits", !.timer = TRUE]
             a == [Ajax!NoReq EXCEPT !.readyState = 1]
             b == [a EXCEPT !.net = "waits"]
  <2>0. Ajax!NoReq \in RequestRecords /\ Ajax!NoReq.success = 0 /\ Ajax!NoReq.error = 0
    BY DEF Ajax!NoReq, RequestRecords
  <2>1. a \in RequestRecords /\ a.readyState = 1 /\ a.success = 0 /\ a.error = 0
    BY <2>0 DEF RequestRecords
  <2>2. y = [b EXCEPT !.timer = TRUE]
    OBVIOUS
  <2> HIDE DEF a
  <2>3. b \in RequestRecords /\ b.readyState = 1 /\ b.success = 0 /\ b.error = 0 /\ b.net = "waits"
    BY <2>1 DEF RequestRecords
  <2> HIDE DEF b, y
  <2>4. y \in RequestRecords /\ y.readyState = 1 /\ y.success = 0 /\ y.error = 0 /\ y.net = "waits"
    BY <2>2, <2>3 DEF RequestRecords
  <2>5. XhrOK(y)
    BY <2>4 DEF XhrOK
  <2>6. Ajax!Becomes(r, y)
    BY <1>2 DEF Ajax!DoAjax, y, b, a
  <2> QED BY <1>1, <2>5, <2>4, <2>6, OneRequest
<1>3. CASE Ajax!Headers(r)
  <2> DEFINE y == [x EXCEPT !.readyState = @ + 1]
  <2>1. x.readyState < 3 /\ x.net = "waits" /\ Ajax!Becomes(r, y)
    BY <1>3 DEF Ajax!Headers, Ajax!Waits
  <2>2. /\ y \in RequestRecords /\ y.net = "waits" /\ y.readyState < 4
        /\ y.success = x.success /\ y.error = x.error
    BY <1>1, <2>1 DEF RequestRecords
  <2>3. XhrOK(y)
    <3> HIDE DEF x, y
    <3> QED BY <1>1, <2>1, <2>2 DEF XhrOK
  <2> QED BY <1>1, <2>1, <2>2, <2>3, OneRequest
<1>4. ASSUME NEW ok \in BOOLEAN, Ajax!Answer(r, ok) PROVE AjaxInv'
  <2> DEFINE y == [x EXCEPT !.readyState = 4, !.net = "over"]
  <2>1. x.net = "waits" /\ Ajax!Becomes(r, Ajax!OnReadyState(y, ok))
    BY <1>4 DEF Ajax!Answer, Ajax!Waits
  <2>2. y \in RequestRecords /\ y.success = 0 /\ y.error = 0 /\ y.net = "over" /\ y.readyState = 4
    <3> DEFINE a == [x EXCEPT !.readyState = 4]
    <3>0. x.success = 0 /\ x.error = 0
      BY <1>1, <2>1 DEF XhrOK
    <3>1. a \in RequestRecords /\ a.success = 0 /\ a.error = 0 /\ a.readyState = 4
      BY <1>1, <3>0 DEF RequestRecords
    <3>2. y = [a EXCEPT !.net = "over"]
      OBVIOUS
    <3> HIDE DEF a, y
    <3> QED BY <3>1, <3>2 DEF RequestRecords
  <2> HIDE DEF y
  <2>3. Ajax!OnReadyState(y, ok) \in RequestRecords /\ XhrOK(Ajax!OnReadyState(y, ok))
    BY <2>2, Callbacks DEF Ajax!OnReadyState, XhrOK
  <2> QED BY <1>1, <2>1, <2>3, OneRequest
<1>5. CASE Ajax!Timer(r)
  <2> DEFINE y == [x EXCEPT !.timer = FALSE]
             z == [y EXCEPT !.readyState = 0, !.net = "over", !.timeIsOut = TRUE]
  <2>1. x.timer /\ Ajax!Becomes(r, IF y.readyState # 4 THEN Ajax!Abort(y) ELSE y)
    BY <1>5 DEF Ajax!Timer
  <2>2. /\ y \in RequestRecords /\ y.readyState = x.readyState /\ y.net = x.net /\ ~y.timer
        /\ y.success = x.success /\ y.error = x.error
    BY <1>1 DEF RequestRecords
  <2>3. CASE y.readyState = 4
    <3>1. XhrOK(y)
      BY <1>1, <2>2, <2>3 DEF XhrOK
    <3> QED BY <1>1, <2>1, <2>2, <2>3, <3>1, OneRequest
  <2>4. CASE y.readyState # 4
    <3>1. x.net = "waits" /\ x.success = 0 /\ x.error = 0
      BY <1>1, <2>1, <2>2, <2>4 DEF XhrOK, RequestRecords
    <3> HIDE DEF y
    <3>2. z \in RequestRecords /\ z.success = 0 /\ z.error = 0 /\ z.net = "over" /\ ~z.timer
      <4> DEFINE a == [y EXCEPT !.readyState = 0]
                 b == [a EXCEPT !.net = "over"]
      <4>1. a \in RequestRecords /\ a.success = 0 /\ a.error = 0 /\ ~a.timer
        BY <2>2, <3>1 DEF RequestRecords
      <4>2. z = [b EXCEPT !.timeIsOut = TRUE]
        OBVIOUS
      <4> HIDE DEF a, z
      <4>3. b \in RequestRecords /\ b.success = 0 /\ b.error = 0 /\ ~b.timer /\ b.net = "over"
        BY <4>1 DEF RequestRecords
      <4> HIDE DEF b
      <4> QED BY <4>2, <4>3 DEF RequestRecords
    <3> HIDE DEF z
    <3>3. Ajax!OnReadyState(z, FALSE) \in RequestRecords /\ XhrOK(Ajax!OnReadyState(z, FALSE))
      BY <3>2, Callbacks DEF Ajax!OnReadyState, XhrOK
    <3>4. Ajax!Becomes(r, Ajax!OnReadyState(z, FALSE))
      BY <2>1, <2>4 DEF Ajax!Abort, y, z
    <3> QED BY <1>1, <3>3, <3>4, OneRequest
  <2> QED BY <2>3, <2>4
<1> QED BY <1>2, <1>3, <1>4, <1>5

LEMMA JsonpStep ==
    ASSUME AjaxInv, NEW r \in Requests,
           Ajax!DoJsonp(r) \/ Ajax!ScriptCalls(r) \/ Ajax!ScriptIsSilent(r) \/ Ajax!ScriptFails(r) \/ Ajax!JsonpTimer(r)
    PROVE  AjaxInv'
<1> DEFINE x == req[r]
           o == [x EXCEPT !.net = "over"]
<1>1. x \in RequestRecords /\ r \in Jsonp /\ JsonpOK(r, x)
  BY DEF AjaxInv, Ajax!DoJsonp, Ajax!ScriptCalls, Ajax!ScriptIsSilent, Ajax!ScriptFails, Ajax!JsonpTimer
<1>2. /\ o \in RequestRecords /\ o.net = "over" /\ o.timer = x.timer /\ o.script = x.script
      /\ o.callback = x.callback /\ o.success = x.success /\ o.error = x.error
  BY <1>1 DEF RequestRecords
<1>3. CASE Ajax!DoJsonp(r)
  <2> DEFINE y == [Ajax!NoReq EXCEPT !.net = "waits", !.script = TRUE, !.callback = TRUE, !.timer = r \in TimeOut]
             a == [Ajax!NoReq EXCEPT !.net = "waits"]
             b == [a EXCEPT !.script = TRUE]
             c == [b EXCEPT !.callback = TRUE]
  <2>0. Ajax!NoReq \in RequestRecords /\ Ajax!NoReq.success = 0 /\ Ajax!NoReq.error = 0
    BY DEF Ajax!NoReq, RequestRecords
  <2>1. a \in RequestRecords /\ a.net = "waits" /\ a.success = 0 /\ a.error = 0
    BY <2>0 DEF RequestRecords
  <2>2. y = [c EXCEPT !.timer = r \in TimeOut] /\ (r \in TimeOut) \in BOOLEAN
    OBVIOUS
  <2>3. Ajax!Becomes(r, y)
    BY <1>3 DEF Ajax!DoJsonp
  <2> HIDE DEF a
  <2>4. b \in RequestRecords /\ b.net = "waits" /\ b.success = 0 /\ b.error = 0 /\ b.script
    BY <2>1 DEF RequestRecords
  <2> HIDE DEF b
  <2>5. c \in RequestRecords /\ c.net = "waits" /\ c.success = 0 /\ c.error = 0 /\ c.script /\ c.callback
    BY <2>4 DEF RequestRecords
  <2> HIDE DEF c, y
  <2>6. /\ y \in RequestRecords /\ y.net = "waits" /\ y.success = 0 /\ y.error = 0
        /\ y.script /\ y.callback /\ (y.timer <=> r \in TimeOut)
    BY <2>2, <2>5 DEF RequestRecords
  <2>7. JsonpOK(r, y)
    BY <2>6 DEF JsonpOK
  <2> QED BY <1>1, <2>3, <2>6, <2>7, OneRequest
<1> HIDE DEF x, o
<1>4. ASSUME x.net = "waits" PROVE JsonpOK(r, o)
  BY <1>1, <1>2, <1>4 DEF JsonpOK, RequestRecords
<1>5. CASE Ajax!ScriptCalls(r)
  <2>1. x.net = "waits" /\ Ajax!Becomes(r, IF o.callback THEN Ajax!Called(o) ELSE o)
    BY <1>5 DEF Ajax!ScriptCalls, Ajax!Waits, x, o
  <2>2. CASE o.callback
    <3>1. o.success = 0 /\ o.error = 0
      BY <1>1, <1>2, <2>1, <2>2 DEF JsonpOK
    <3> DEFINE y == [o EXCEPT !.timer = FALSE]
    <3>2. y \in RequestRecords /\ y.success = 0 /\ y.error = 0 /\ ~y.timer /\ y.net = "over"
      BY <1>2, <3>1 DEF RequestRecords
    <3> HIDE DEF y
    <3>3. Ajax!Finally(Ajax!Success(y)) \in RequestRecords /\ JsonpOK(r, Ajax!Finally(Ajax!Success(y)))
      BY <3>2, Callbacks, Removal DEF JsonpOK
    <3> QED BY <1>1, <2>1, <2>2, <3>3, OneRequest DEF Ajax!Called, y
  <2>3. CASE ~o.callback
    BY <1>1, <1>2, <1>4, <2>1, <2>3, OneRequest
  <2> QED BY <2>2, <2>3
<1>6. CASE Ajax!ScriptIsSilent(r)
  <2>1. x.net = "waits" /\ Ajax!Becomes(r, o)
    BY <1>6 DEF Ajax!ScriptIsSilent, Ajax!Waits, x, o
  <2> QED BY <1>1, <1>2, <1>4, <2>1, OneRequest
<1>7. CASE Ajax!ScriptFails(r)
  <2>1. x.net = "waits" /\ Ajax!Becomes(r, Ajax!Failed(o))
    BY <1>7 DEF Ajax!ScriptFails, Ajax!Waits, x, o
  <2>2. /\ o.success = 0 /\ o.error <= 1
        /\ o.timer \/ r \notin TimeOut => o.error = 0
        /\ o.timer => r \in TimeOut
    BY <1>1, <1>2, <2>1 DEF JsonpOK
  <2>3. Ajax!Failed(o) \in RequestRecords /\ JsonpOK(r, Ajax!Failed(o))
    <3> DEFINE f == Ajax!Failed(o)
    <3>1. /\ f \in RequestRecords /\ ~f.script /\ ~f.callback /\ f.success = o.success
          /\ f.error = o.error + 1 /\ f.timer = o.timer /\ f.net = o.net
      BY <1>2, <2>2, Callbacks, Removal DEF Ajax!Failed
    <3>2. o.error \in Nat /\ f.timer \in BOOLEAN /\ f.script \in BOOLEAN /\ f.callback \in BOOLEAN
      BY <1>2, <2>2, <3>1 DEF RequestRecords
    <3> HIDE DEF f
    <3>3. JsonpOK(r, f)
      BY <1>2, <2>2, <3>1, <3>2 DEF JsonpOK
    <3> QED BY <3>1, <3>3 DEF f
  <2> QED BY <1>1, <2>1, <2>3, OneRequest
<1>8. CASE Ajax!JsonpTimer(r)
  <2> DEFINE y == [x EXCEPT !.timer = FALSE]
  <2>1. x.timer /\ Ajax!Becomes(r, Ajax!Failed(y))
    BY <1>8 DEF Ajax!JsonpTimer, x
  <2>2. /\ y \in RequestRecords /\ ~y.timer /\ y.net = x.net /\ y.success = x.success /\ y.error = x.error
    BY <1>1 DEF RequestRecords
  <2>3. /\ y.success = 0 /\ y.error <= 1 /\ r \in TimeOut
        /\ y.net = "waits" => y.error = 0
        /\ y.net # "idle"
    BY <1>1, <2>1, <2>2 DEF JsonpOK, RequestRecords
  <2> HIDE DEF y
  <2>4. Ajax!Failed(y) \in RequestRecords /\ JsonpOK(r, Ajax!Failed(y))
    <3> DEFINE f == Ajax!Failed(y)
    <3>1. /\ f \in RequestRecords /\ ~f.script /\ ~f.callback /\ f.success = y.success
          /\ f.error = y.error + 1 /\ f.timer = y.timer /\ f.net = y.net
      BY <2>2, <2>3, Callbacks, Removal DEF Ajax!Failed
    <3>2. y.error \in Nat /\ f.timer \in BOOLEAN /\ f.script \in BOOLEAN /\ f.callback \in BOOLEAN
      BY <2>2, <2>3, <3>1 DEF RequestRecords
    <3> HIDE DEF f
    <3>3. JsonpOK(r, f)
      BY <2>2, <2>3, <3>1, <3>2 DEF JsonpOK
    <3> QED BY <3>1, <3>3 DEF f
  <2> QED BY <1>1, <2>1, <2>4, OneRequest
<1> QED BY <1>3, <1>5, <1>6, <1>7, <1>8

LEMMA AjaxStep == AjaxInv /\ [Ajax!Next]_(Ajax!vars) => AjaxInv'
<1>1. ASSUME AjaxInv, UNCHANGED Ajax!vars PROVE AjaxInv'
  BY <1>1 DEF AjaxInv, Ajax!vars
<1> QED BY <1>1, XhrStep, JsonpStep DEF Ajax!Next

LEMMA AjaxTold == AjaxInv => Ajax!TypeOK /\ Ajax!ToldOnce /\ (Jsonp \subseteq Requests => Ajax!NothingIsLeft)
<1> SUFFICES ASSUME AjaxInv
             PROVE  Ajax!TypeOK /\ Ajax!ToldOnce /\ (Jsonp \subseteq Requests => Ajax!NothingIsLeft)
  OBVIOUS
<1>1. \A r \in Requests : req[r] \in RequestRecords
  BY DEF AjaxInv
<1>2. ASSUME NEW r \in Requests
      PROVE  /\ req[r].success \in 0..1 /\ req[r].error \in 0 .. Ajax!MaxCalls
             /\ r \notin TimeOut => Ajax!Told(req[r]) <= 1
             /\ req[r].success > 0 => req[r].error = 0
  <2> DEFINE x == req[r]
  <2>1. x.success \in Nat /\ x.error \in Nat /\ x.net \in {"idle", "waits", "over"}
    BY <1>1 DEF RequestRecords
  <2>2. CASE r \in Jsonp
    <3>1. JsonpOK(r, x)
      BY <2>2 DEF AjaxInv
    <3> HIDE DEF x
    <3>2. x.success \in 0..1 /\ x.error \in 0..2 /\ (x.success > 0 => x.error = 0)
      BY <2>1, <3>1 DEF JsonpOK
    <3>3. r \notin TimeOut => x.success + x.error <= 1
      BY <2>1, <3>1 DEF JsonpOK
    <3> QED BY <3>2, <3>3 DEF x, Ajax!MaxCalls, Ajax!Told
  <2>3. CASE r \notin Jsonp
    <3>1. XhrOK(x)
      BY <2>3 DEF AjaxInv
    <3> QED BY <2>1, <3>1 DEF XhrOK, Ajax!MaxCalls, Ajax!Told
  <2> QED BY <2>2, <2>3
<1>3. Ajax!TypeOK
  BY <1>1, <1>2 DEF Ajax!TypeOK, RequestRecords
<1>4. Ajax!ToldOnce
  BY <1>2 DEF Ajax!ToldOnce
<1>5. Jsonp \subseteq Requests => Ajax!NothingIsLeft
  BY DEF AjaxInv, Ajax!NothingIsLeft, JsonpOK, Ajax!Told
<1> QED BY <1>3, <1>4, <1>5

\* ToldOnce holds throughout, for any requests: their steps keep the inductive invariant,
\* and the other parts do not touch them.
THEOREM RequestsToldOnce == Spec => []ToldOnce
<1>1. Init => AjaxInv
  BY AjaxInit DEF Init
<1>2. AjaxInv /\ [Next]_vars => AjaxInv'
  <2> SUFFICES ASSUME AjaxInv, [Next]_vars PROVE AjaxInv'
    OBVIOUS
  <2>1. Ajax!Next \/ UNCHANGED req
    BY Zenon DEF Next, vars, DraftSteps, ShellSteps, MenuSteps, LifeSteps, AjaxSteps, LateSteps
  <2>2. [Ajax!Next]_(Ajax!vars)
    BY <2>1 DEF Ajax!vars
  <2> QED BY <2>2, AjaxStep
<1>3. AjaxInv => ToldOnce
  BY AjaxTold, JsonpAssumption DEF ToldOnce
<1> QED BY <1>1, <1>2, <1>3, PTL DEF Spec

=============================================================================
