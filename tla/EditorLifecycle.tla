-------------------------- MODULE EditorLifecycle --------------------------
(* How editors come and go (ueditor.all.js: UE.getEditor, the constructors,   *)
(* utils.loadFile, utils.domReady, render, _setup, destroy, loadServerConfig).*)
(* An editor waits for the page, for its language file, for its frame and for *)
(* the answer of its server, in any order.                                    *)
EXTENDS Integers, Sequences, FiniteSets, SequencesExt, FiniteSetTheorems, TLAPS

CONSTANTS Editors,   \* the editors that may be created, numbered by uid
          Ids,       \* the holders getEditor is called with
          Fns,       \* callbacks given to ready
          Handlers,  \* callbacks given to afterConfigReady
          NoEditor

VARIABLES
    doc,        \* the page: "head" (no body yet), "body", "interactive", "complete"
    domReady,   \* utils.domReady: its functions fnArr, the flag isReady, listeners bound
    i18n,       \* UE.I18N has a language
    file,       \* the language file: its state in the browser and the item of loadFile
    instances,  \* the editors by id
    ed          \* the editors
page == <<doc, domReady>>
vars == <<page, i18n, file, instances, ed>>

NoEd == [state |-> "none", langIsReady |-> FALSE,
         waits |-> FALSE,          \* renderUI listens for langReady
         container |-> FALSE, frame |-> "none", isReady |-> FALSE,
         given |-> {}, ran |-> {}, \* ready callbacks: given so far, and run
         listed |-> <<>>,          \* and listening for the event ready
         config |-> "timer",       \* the request for the configuration
         handlers |-> <<>>, heard |-> <<>>, \* config handlers: listening, and run
         late |-> {},              \* those that were given while the event was fired
         wreck |-> FALSE]          \* destroy was called and has thrown

Init ==
    /\ doc \in {"head", "body", "complete"}
    /\ domReady = [fnArr |-> <<>>, isReady |-> FALSE, bound |-> FALSE]
    /\ i18n \in BOOLEAN
    /\ file = [state |-> "none", funs |-> <<>>, ready |-> FALSE]
    /\ instances = [id \in Ids |-> NoEditor]
    /\ ed = [e \in Editors |-> NoEd]

Live == {e \in Editors : ed[e].state = "live"}

----------------------------------------------------------------------------
(* renderUI, when the page is ready: now, or when the language is *)
RenderUI(x) == [x EXCEPT !.container = TRUE, !.frame = "pending", !.waits = FALSE]
WhenDomReadyAtOnce(x) == RenderUI(x)
WhenDomReady(x) == IF x.langIsReady THEN RenderUI(x) ELSE [x EXCEPT !.waits = TRUE]
(* UE.plugin.load and langReadied, which fires langReady *)
LangReadied(x) ==
    LET y == [x EXCEPT !.langIsReady = TRUE]
    IN  IF x.waits THEN RenderUI(y) ELSE y

(* doReady runs the functions of the page that wait *)
DoReady(eds, fns) == [e \in Editors |-> IF Contains(fns, e) THEN WhenDomReady(eds[e]) ELSE eds[e]]
DomReady(eds, e) ==
    LET fns == Append(domReady.fnArr, e)
    IN  IF doc = "complete" \/ domReady.isReady
        THEN /\ ed' = DoReady(eds, fns)
             /\ domReady' = [domReady EXCEPT !.fnArr = <<>>, !.isReady = TRUE,
                                             !.bound = @ \/ doc # "complete"]
        ELSE /\ ed' = eds
             /\ domReady' = [domReady EXCEPT !.fnArr = fns, !.bound = TRUE]

(* loadFile of the language, for editor e; a page without body is written into, *)
(* and then nobody listens for the load of the file                             *)
LoadFileOnce(e) ==
    file' = CASE file.state # "none" -> file
              [] OTHER -> [file EXCEPT !.funs = <<e>>, !.state = IF doc = "head" THEN "written" ELSE "loading"]
LoadFile(e) ==
    file' = CASE file.state # "none" -> [file EXCEPT !.funs = Append(@, e)]
              [] OTHER -> [file EXCEPT !.funs = <<e>>, !.state = IF doc = "head" THEN "written" ELSE "loading"]

(* getEditor: a new editor asks for its configuration, its language and the page. *)
(* A file that is ready gives its language before any further editor asks for it. *)
GetEditor(id) ==
    /\ instances[id] = NoEditor
    /\ \E e \in Editors :
        /\ ed[e].state = "none" /\ \A f \in Editors : f < e => ed[f].state # "none"
        /\ instances' = [instances EXCEPT ![id] = e]
        /\ DomReady([ed EXCEPT ![e] = [NoEd EXCEPT !.state = "live", !.langIsReady = i18n]], e)
        /\ IF i18n THEN UNCHANGED file ELSE LoadFile(e)
    /\ UNCHANGED <<doc, i18n>>

(* The page is parsed; DOMContentLoaded and load run what waits for them *)
PageProceeds ==
    /\ doc # "complete"
    /\ doc' = CASE doc = "head" -> "body" [] doc = "body" -> "interactive" [] OTHER -> "complete"
    /\ doc # "body" \/ file.state # "written"  \* it is deferred, DOMContentLoaded waits for it
    /\ IF doc # "head" /\ domReady.bound
       THEN /\ ed' = DoReady(ed, domReady.fnArr)
            /\ domReady' = [domReady EXCEPT !.fnArr = <<>>, !.isReady = TRUE]
       ELSE UNCHANGED <<ed, domReady>>
    /\ UNCHANGED <<i18n, file, instances>>

(* The language file arrives: its callbacks are popped and run *)
FileLoads ==
    /\ file.state \in {"loading", "written"}
    /\ i18n' = TRUE
    /\ IF file.state = "loading"
       THEN /\ file' = [state |-> "loaded", funs |-> <<>>, ready |-> TRUE]
            /\ ed' = [e \in Editors |-> IF Contains(file.funs, e) THEN LangReadied(ed[e]) ELSE ed[e]]
       ELSE file' = [file EXCEPT !.state = "loaded"] /\ UNCHANGED ed
    /\ UNCHANGED <<page, instances>>
FileFails ==
    /\ file.state \in {"loading", "written"}
    /\ file' = [file EXCEPT !.state = "failed"] /\ UNCHANGED <<page, i18n, instances, ed>>

(* _setup, called by the script of the frame: the listeners of ready are run *)
Setup(x) == [x EXCEPT !.frame = "set", !.isReady = TRUE,
                      !.ran = @ \cup ToSet(x.listed), !.listed = <<>>]
FrameLoads(e) ==
    /\ e \in Live /\ ed[e].frame = "pending"
    /\ ed' = [ed EXCEPT ![e] = Setup(@)] /\ UNCHANGED <<page, i18n, file, instances>>

Ready(x, fn) ==
    IF x.isReady THEN [x EXCEPT !.given = @ \cup {fn}, !.ran = @ \cup {fn}]
    ELSE [x EXCEPT !.given = @ \cup {fn}, !.listed = Append(@, fn)]
CallReady(e, fn) ==
    /\ e \in Live /\ fn \notin ed[e].given
    /\ ed' = [ed EXCEPT ![e] = Ready(@, fn)] /\ UNCHANGED <<page, i18n, file, instances>>

----------------------------------------------------------------------------
(* destroy throws without a container, and without a frame *)
Destroy(e) ==
    IF ed[e].frame = "set"
    THEN /\ ed' = [ed EXCEPT ![e] = [NoEd EXCEPT !.state = "destroyed"]]
         /\ instances' = [id \in Ids |-> IF instances[id] = e THEN NoEditor ELSE instances[id]]
    ELSE ed' = [ed EXCEPT ![e].wreck = TRUE] /\ UNCHANGED instances
CallDestroy(e) == e \in Live /\ Destroy(e) /\ UNCHANGED <<page, i18n, file>>
DelEditor(id) ==
    /\ instances[id] # NoEditor
    /\ Destroy(instances[id]) /\ UNCHANGED <<page, i18n, file>>

----------------------------------------------------------------------------
(* loadServerConfig asks after a timeout; its answer fires serverConfigLoaded *)
(* and only then sets _serverConfigLoaded.                                    *)
EdOnly(e, x) == ed' = [ed EXCEPT ![e] = x] /\ UNCHANGED <<page, i18n, file, instances>>
AskConfig(e) == e \in Live /\ ed[e].config = "timer" /\ EdOnly(e, [ed[e] EXCEPT !.config = "asked"])
ConfigLoaded(e) ==
    /\ e \in Live /\ ed[e].config = "asked"
    /\ \E late \in {{}} \cup {{h} : h \in Handlers \ ToSet(ed[e].handlers \o ed[e].heard)} :
        /\ late # {} => ed[e].handlers # <<>>
        /\ EdOnly(e, [ed[e] EXCEPT !.config = "loaded", !.handlers = SetToSeq(late), !.late = @ \cup late,
                                   !.heard = @ \o Reverse(ed[e].handlers)])
(* One of the handlers throws: those below it in the list are not called *)
ConfigThrows(e) ==
    /\ e \in Live /\ ed[e].config = "asked"
    /\ \E k \in DOMAIN ed[e].handlers :
        LET list == ed[e].handlers
        IN  EdOnly(e, [ed[e] EXCEPT !.config = "failed", !.handlers = SubSeq(list, 1, k),
                                    !.heard = @ \o Reverse(SubSeq(list, k + 1, Len(list)))])
ConfigFails(e) == e \in Live /\ ed[e].config = "asked" /\ EdOnly(e, [ed[e] EXCEPT !.config = "failed"])

AfterConfigReady(x, h) ==
    IF x.config = "loaded" THEN [x EXCEPT !.heard = Append(@, h)]
    ELSE [x EXCEPT !.handlers = Append(@, h)]
CallAfterConfig(e, h) ==
    /\ e \in Live /\ ~Contains(ed[e].handlers \o ed[e].heard, h)
    /\ EdOnly(e, AfterConfigReady(ed[e], h))

Next == \/ \E id \in Ids : GetEditor(id) \/ DelEditor(id)
        \/ PageProceeds \/ FileLoads \/ FileFails
        \/ \E e \in Editors :
            \/ FrameLoads(e) \/ CallDestroy(e)
            \/ AskConfig(e) \/ ConfigLoaded(e) \/ ConfigThrows(e) \/ ConfigFails(e)
            \/ \E fn \in Fns : CallReady(e, fn)
            \/ \E h \in Handlers : CallAfterConfig(e, h)

(* The page is parsed, a file loads or fails, and frames load *)
Fairness ==
    /\ WF_vars(PageProceeds) /\ WF_vars(FileLoads \/ FileFails)
    /\ \A e \in Editors : WF_vars(FrameLoads(e))
Spec == Init /\ [][Next]_vars /\ Fairness

----------------------------------------------------------------------------
(* The state has its type. *)
TypeOK ==
    /\ doc \in {"head", "body", "interactive", "complete"} /\ i18n \in BOOLEAN
    /\ domReady.fnArr \in Seq(Editors) /\ domReady.isReady \in BOOLEAN
    /\ file.state \in {"none", "written", "loading", "loaded", "failed"} /\ file.funs \in Seq(Editors)
    /\ instances \in [Ids -> Editors \cup {NoEditor}]
    /\ \A e \in Editors : /\ ed[e].state \in {"none", "live", "destroyed"}
                          /\ ed[e].frame \in {"none", "pending", "set"}
                          /\ ed[e].config \in {"timer", "asked", "loaded", "failed"}

(* No editor is built before its language: the plugins and the texts of the    *)
(* toolbar are there when renderUI runs, whoever of page and file comes first. *)
BuiltInItsLanguage == \A e \in Live : ed[e].container => ed[e].langIsReady

(* When an editor is ready every callback given to ready has run, whether it   *)
(* was given before or after, and none has run before.                         *)
ReadyRunsAll ==
    \A e \in Live : ed[e].ran = IF ed[e].isReady THEN ed[e].given ELSE {}

(* getEditor never returns a dead editor, and no live editor is lost: destroy, *)
(* delEditor and failures of them keep instances and editors together.         *)
InstancesAreLive ==
    /\ \A id \in Ids : instances[id] # NoEditor => instances[id] \in Live
    /\ \A e \in Live : Cardinality({id \in Ids : instances[id] = e}) = 1

(* Once the configuration is loaded each handler given to afterConfigReady has *)
(* run once, except those given while the others are told: the flag is set     *)
(* only after the event.                                                       *)
ConfigHandlersRunOnce ==
    \A e \in Live :
        /\ Cardinality(ToSet(ed[e].heard)) = Len(ed[e].heard)
        /\ ed[e].config = "loaded" => ToSet(ed[e].handlers) \subseteq ed[e].late

(* Each editor becomes ready, unless it is destroyed, its language file fails, *)
(* or it was asked for before the page had a body.                             *)
EditorsGetReady ==
    \A e \in Editors :
        (e \in Live) ~> (e \notin Live \/ ed[e].isReady \/ file.state = "failed"
                           \/ (file.state = "loaded" /\ Contains(file.funs, e)))

-----------------------------------------------------------------------------
(* Proofs: sequences                                                       *)

LEMMA AppendElements ==
    ASSUME NEW T, NEW s \in Seq(T), NEW x \in T
    PROVE  /\ Append(s, x) \in Seq(T)
           /\ ToSet(Append(s, x)) = ToSet(s) \cup {x}
           /\ x \notin ToSet(s) /\ IsInjective(s) => IsInjective(Append(s, x))
<1>1. /\ Append(s, x) \in Seq(T) /\ Len(Append(s, x)) = Len(s) + 1 /\ Append(s, x)[Len(s) + 1] = x
      /\ \A i \in 1 .. Len(s) : Append(s, x)[i] = s[i]
  OBVIOUS
<1>2. ToSet(Append(s, x)) = ToSet(s) \cup {x}
  BY <1>1 DEF ToSet
<1>3. x \notin ToSet(s) /\ IsInjective(s) => IsInjective(Append(s, x))
  BY <1>1 DEF ToSet, IsInjective
<1> QED BY <1>1, <1>2, <1>3

LEMMA ReversedElements ==
    ASSUME NEW T, NEW s \in Seq(T)
    PROVE  /\ Reverse(s) \in Seq(T)
           /\ ToSet(Reverse(s)) = ToSet(s)
           /\ IsInjective(s) => IsInjective(Reverse(s))
<1>1. \A i \in 1 .. Len(s) : Len(s) - i + 1 \in 1 .. Len(s) /\ Len(s) - (Len(s) - i + 1) + 1 = i
  OBVIOUS
<1>2. Reverse(s) \in Seq(T) /\ Len(Reverse(s)) = Len(s) /\ DOMAIN Reverse(s) = 1 .. Len(s)
  BY <1>1 DEF Reverse
<1>3. \A i \in 1 .. Len(s) : Reverse(s)[i] = s[Len(s) - i + 1]
  BY DEF Reverse
<1>4. ToSet(Reverse(s)) \subseteq ToSet(s)
  BY <1>1, <1>2, <1>3 DEF ToSet
<1>5. ToSet(s) \subseteq ToSet(Reverse(s))
  <2> SUFFICES ASSUME NEW i \in 1 .. Len(s) PROVE s[i] \in ToSet(Reverse(s))
    BY DEF ToSet
  <2>1. Reverse(s)[Len(s) - i + 1] = s[i]
    BY <1>1, <1>3
  <2> QED BY <1>1, <1>2, <2>1 DEF ToSet
<1>6. ASSUME IsInjective(s), NEW i \in 1 .. Len(s), NEW j \in 1 .. Len(s), Reverse(s)[i] = Reverse(s)[j]
      PROVE  i = j
  <2>1. s[Len(s) - i + 1] = s[Len(s) - j + 1]
    BY <1>3, <1>6
  <2>2. Len(s) - i + 1 = Len(s) - j + 1
    BY <1>1, <1>6, <2>1 DEF IsInjective
  <2> QED BY <2>2
<1> QED BY <1>2, <1>4, <1>5, <1>6 DEF IsInjective

LEMMA JoinedElements ==
    ASSUME NEW T, NEW s \in Seq(T), NEW t \in Seq(T)
    PROVE  /\ s \o t \in Seq(T)
           /\ ToSet(s \o t) = ToSet(s) \cup ToSet(t)
           /\ IsInjective(s) /\ IsInjective(t) /\ ToSet(s) \cap ToSet(t) = {} => IsInjective(s \o t)
<1>1. s \o t \in Seq(T) /\ Len(s \o t) = Len(s) + Len(t) /\ DOMAIN (s \o t) = 1 .. Len(s) + Len(t)
  OBVIOUS
<1>2. \A i \in 1 .. Len(s) + Len(t) : (s \o t)[i] = IF i <= Len(s) THEN s[i] ELSE t[i - Len(s)]
  OBVIOUS
<1>3. ToSet(s \o t) = ToSet(s) \cup ToSet(t)
  <2>1. ToSet(s \o t) \subseteq ToSet(s) \cup ToSet(t)
    BY <1>1, <1>2 DEF ToSet
  <2>2. ToSet(s) \subseteq ToSet(s \o t)
    BY <1>1, <1>2 DEF ToSet
  <2>3. ASSUME NEW i \in 1 .. Len(t) PROVE t[i] \in ToSet(s \o t)
    <3>1. (s \o t)[i + Len(s)] = t[i] /\ i + Len(s) \in 1 .. Len(s) + Len(t)
      BY <1>2
    <3> QED BY <1>1, <3>1 DEF ToSet
  <2> QED BY <2>1, <2>2, <2>3 DEF ToSet
<1>4. ASSUME IsInjective(s), IsInjective(t), ToSet(s) \cap ToSet(t) = {},
             NEW i \in DOMAIN (s \o t), NEW j \in DOMAIN (s \o t), (s \o t)[i] = (s \o t)[j]
      PROVE  i = j
  <2>1. i \in 1 .. Len(s) + Len(t) /\ j \in 1 .. Len(s) + Len(t) /\ Len(s) \in Nat /\ Len(t) \in Nat
    BY <1>1
  <2>2. CASE i <= Len(s) /\ j <= Len(s)
    BY <1>2, <1>4, <2>1, <2>2 DEF IsInjective
  <2>3. CASE i > Len(s) /\ j > Len(s)
    <3>1. i - Len(s) \in DOMAIN t /\ j - Len(s) \in DOMAIN t /\ t[i - Len(s)] = t[j - Len(s)]
      BY <1>2, <1>4, <2>1, <2>3
    <3> QED BY <1>4, <2>1, <3>1 DEF IsInjective
  <2>4. CASE i <= Len(s) /\ j > Len(s)
    <3>1. i \in DOMAIN s /\ j - Len(s) \in DOMAIN t /\ s[i] = t[j - Len(s)]
      BY <1>2, <1>4, <2>1, <2>4
    <3> QED BY <1>4, <3>1 DEF ToSet
  <2>5. CASE i > Len(s) /\ j <= Len(s)
    <3>1. j \in DOMAIN s /\ i - Len(s) \in DOMAIN t /\ s[j] = t[i - Len(s)]
      BY <1>2, <1>4, <2>1, <2>5
    <3> QED BY <1>4, <3>1 DEF ToSet
  <2> QED BY <2>1, <2>2, <2>3, <2>4, <2>5
<1> QED BY <1>1, <1>3, <1>4 DEF IsInjective

\* What is cut at k has its elements on the one side or on the other.
LEMMA CutElements ==
    ASSUME NEW T, NEW s \in Seq(T), NEW k \in 1 .. Len(s), IsInjective(s)
    PROVE  /\ SubSeq(s, 1, k) \in Seq(T) /\ SubSeq(s, k + 1, Len(s)) \in Seq(T)
           /\ IsInjective(SubSeq(s, 1, k)) /\ IsInjective(SubSeq(s, k + 1, Len(s)))
           /\ ToSet(SubSeq(s, 1, k)) \subseteq ToSet(s)
           /\ ToSet(SubSeq(s, k + 1, Len(s))) \subseteq ToSet(s)
           /\ ToSet(SubSeq(s, 1, k)) \cap ToSet(SubSeq(s, k + 1, Len(s))) = {}
<1> DEFINE a == SubSeq(s, 1, k)
           b == SubSeq(s, k + 1, Len(s))
<1>1. a \in Seq(T) /\ DOMAIN a = 1 .. k /\ \A i \in 1 .. k : a[i] = s[i] /\ i \in DOMAIN s
  OBVIOUS
<1>2. b \in Seq(T) /\ DOMAIN b = 1 .. Len(s) - k
      /\ \A i \in 1 .. Len(s) - k : b[i] = s[i + k] /\ i + k \in DOMAIN s /\ i + k > k
  OBVIOUS
<1> HIDE DEF a, b
<1>3. IsInjective(a) /\ ToSet(a) \subseteq ToSet(s)
  BY <1>1 DEF IsInjective, ToSet
<1>4. IsInjective(b) /\ ToSet(b) \subseteq ToSet(s)
  <2>1. IsInjective(b)
    BY <1>2 DEF IsInjective
  <2>2. ToSet(b) \subseteq ToSet(s)
    BY <1>2 DEF ToSet
  <2> QED BY <2>1, <2>2
<1>5. ToSet(a) \cap ToSet(b) = {}
  <2> SUFFICES ASSUME NEW i \in DOMAIN a, NEW j \in DOMAIN b, a[i] = b[j] PROVE FALSE
    BY DEF ToSet
  <2>1. s[i] = s[j + k] /\ i \in DOMAIN s /\ j + k \in DOMAIN s /\ i <= k /\ j + k > k /\ i \in Nat /\ j \in Nat
    BY <1>1, <1>2
  <2> QED BY <2>1 DEF IsInjective
<1> QED BY <1>1, <1>2, <1>3, <1>4, <1>5 DEF a, b

\* A sequence without repetitions has as many elements as places.
LEMMA DistinctCount ==
    ASSUME NEW T, NEW s \in Seq(T), IsInjective(s)
    PROVE  Cardinality(ToSet(s)) = Len(s)
<1>1. s \in Bijection(1 .. Len(s), ToSet(s))
  <2>1. s \in [1 .. Len(s) -> ToSet(s)]
    BY DEF ToSet
  <2> QED BY <2>1 DEF Bijection, Injection, Surjection, IsInjective, ToSet
<1> QED BY <1>1, FS_CountingElements DEF ExistsBijection

\* A set of at most one element as a sequence.
LEMMA SmallSetToSeq ==
    ASSUME NEW T, NEW S \in {{}} \cup {{h} : h \in T}
    PROVE  SetToSeq(S) \in Seq(T) /\ IsInjective(SetToSeq(S)) /\ ToSet(SetToSeq(S)) = S
<1>1. CASE S = {}
  <2>1. Cardinality(S) = 0
    BY <1>1, FS_EmptySet
  <2>2. <<>> \in [1 .. Cardinality(S) -> S] /\ IsInjective(<<>>)
    BY <2>1 DEF IsInjective
  <2>3. SetToSeq(S) \in [1 .. 0 -> S] /\ IsInjective(SetToSeq(S))
    BY <2>1, <2>2 DEF SetToSeq
  <2> QED BY <1>1, <2>3 DEF ToSet
<1>2. ASSUME NEW h \in T, S = {h} PROVE SetToSeq(S) \in Seq(T) /\ IsInjective(SetToSeq(S)) /\ ToSet(SetToSeq(S)) = S
  <2>1. Cardinality(S) = 1
    BY <1>2, FS_Singleton
  <2>2. <<h>> \in [1 .. Cardinality(S) -> S] /\ IsInjective(<<h>>)
    BY <1>2, <2>1 DEF IsInjective
  <2>3. SetToSeq(S) \in [1 .. 1 -> S] /\ IsInjective(SetToSeq(S))
    BY <2>1, <2>2 DEF SetToSeq
  <2>4. SetToSeq(S) \in Seq(T)
    <3> DEFINE q == SetToSeq(S)
    <3>1. q \in [1 .. 1 -> T]
      BY <1>2, <2>3
    <3> HIDE DEF q
    <3>2. q = <<q[1]>> /\ q[1] \in T
      BY <3>1
    <3>3. q \in Seq(T)
      BY <3>2
    <3> QED BY <3>3 DEF q
  <2>5. ToSet(SetToSeq(S)) = S
    <3>1. DOMAIN SetToSeq(S) = 1 .. 1 /\ SetToSeq(S)[1] = h
      BY <1>2, <2>3
    <3> QED BY <1>2, <3>1 DEF ToSet
  <2> QED BY <2>3, <2>4, <2>5
<1> QED BY <1>1, <1>2

-----------------------------------------------------------------------------
(* Proofs: one editor                                                      *)

EdType ==
    [state : {"none", "live", "destroyed"}, langIsReady : BOOLEAN, waits : BOOLEAN, container : BOOLEAN,
     frame : {"none", "pending", "set"}, isReady : BOOLEAN, given : SUBSET Fns, ran : SUBSET Fns,
     listed : Seq(Fns), config : {"timer", "asked", "loaded", "failed"}, handlers : Seq(Handlers),
     heard : Seq(Handlers), late : SUBSET Handlers, wreck : BOOLEAN]

\* Until it is ready the callbacks of an editor are listed, and no handler is listed twice,
\* heard twice or listed when it was heard.
ReadyOK(x) == IF x.isReady THEN x.ran = x.given /\ x.listed = <<>> ELSE x.ran = {} /\ ToSet(x.listed) = x.given
ConfigOK(x) ==
    /\ IsInjective(x.handlers) /\ IsInjective(x.heard) /\ ToSet(x.handlers) \cap ToSet(x.heard) = {}
    /\ x.config = "loaded" => ToSet(x.handlers) \subseteq x.late
EdOK(x) == x \in EdType /\ (x.container => x.langIsReady) /\ ReadyOK(x) /\ ConfigOK(x)

\* The first state of an editor, also when it has been created or destroyed.
LEMMA NoEdOK ==
    /\ EdOK(NoEd) /\ NoEd.state = "none"
    /\ \A s \in {"none", "live", "destroyed"} :
          /\ EdOK([NoEd EXCEPT !.state = s]) /\ [NoEd EXCEPT !.state = s].state = s
          /\ \A b \in BOOLEAN : LET x == [NoEd EXCEPT !.state = s, !.langIsReady = b] IN EdOK(x) /\ x.state = s
<1> DEFINE n == NoEd
<1>1. n \in EdType /\ ~n.container /\ n.state = "none" /\ ReadyOK(n) /\ ConfigOK(n)
  BY DEF NoEd, EdType, ReadyOK, ConfigOK, ToSet, IsInjective
<1> HIDE DEF n
<1>2. ASSUME NEW s \in {"none", "live", "destroyed"}
      PROVE  /\ EdOK([n EXCEPT !.state = s]) /\ [n EXCEPT !.state = s].state = s
             /\ \A b \in BOOLEAN : LET x == [n EXCEPT !.state = s, !.langIsReady = b] IN EdOK(x) /\ x.state = s
  <2> DEFINE a == [n EXCEPT !.state = s]
  <2>1. a \in EdType /\ ~a.container /\ a.state = s /\ ReadyOK(a) /\ ConfigOK(a)
    BY <1>1 DEF EdType, ReadyOK, ConfigOK
  <2>2. \A b \in BOOLEAN : [n EXCEPT !.state = s, !.langIsReady = b] = [a EXCEPT !.langIsReady = b]
    OBVIOUS
  <2> HIDE DEF a
  <2>3. ASSUME NEW b \in BOOLEAN
        PROVE  EdOK([a EXCEPT !.langIsReady = b]) /\ [a EXCEPT !.langIsReady = b].state = s
    BY <2>1 DEF EdOK, EdType, ReadyOK, ConfigOK
  <2>4. EdOK(a) /\ a.state = s
    BY <2>1 DEF EdOK
  <2> QED BY <2>2, <2>3, <2>4 DEF a
<1> QED BY <1>1, <1>2 DEF n, EdOK

\* A change of the fields that decide nothing here.
LEMMA Built ==
    ASSUME NEW x, EdOK(x)
    PROVE  /\ EdOK(WhenDomReady(x)) /\ WhenDomReady(x).state = x.state
           /\ EdOK(LangReadied(x)) /\ LangReadied(x).state = x.state
<1> DEFINE l == [x EXCEPT !.langIsReady = TRUE]
           w == [x EXCEPT !.waits = TRUE]
<1>1. /\ l \in EdType /\ l.langIsReady /\ l.state = x.state /\ ReadyOK(l) /\ ConfigOK(l) /\ l.waits = x.waits
  BY DEF EdOK, EdType, ReadyOK, ConfigOK
<1>2. /\ w \in EdType /\ w.langIsReady = x.langIsReady /\ w.container = x.container /\ w.state = x.state
      /\ ReadyOK(w) /\ ConfigOK(w)
  BY DEF EdOK, EdType, ReadyOK, ConfigOK
<1>3. ASSUME NEW y, y \in EdType, y.langIsReady, ReadyOK(y), ConfigOK(y)
      PROVE  EdOK(RenderUI(y)) /\ RenderUI(y).state = y.state
  <2> DEFINE a == [y EXCEPT !.container = TRUE]
             b == [a EXCEPT !.frame = "pending"]
  <2>1. a \in EdType /\ a.langIsReady /\ ReadyOK(a) /\ ConfigOK(a) /\ a.state = y.state
    BY <1>3 DEF EdType, ReadyOK, ConfigOK
  <2>2. RenderUI(y) = [b EXCEPT !.waits = FALSE]
    BY DEF RenderUI
  <2> HIDE DEF a
  <2>3. b \in EdType /\ b.langIsReady /\ ReadyOK(b) /\ ConfigOK(b) /\ b.state = y.state
    BY <2>1 DEF EdType, ReadyOK, ConfigOK
  <2> HIDE DEF b
  <2>4. LET z == [b EXCEPT !.waits = FALSE]
        IN  z \in EdType /\ z.langIsReady /\ ReadyOK(z) /\ ConfigOK(z) /\ z.state = y.state
    BY <2>3 DEF EdType, ReadyOK, ConfigOK
  <2> QED BY <2>2, <2>4 DEF EdOK
<1> HIDE DEF l, w
<1>4. EdOK(l) /\ EdOK(w)
  BY <1>1, <1>2 DEF EdOK
<1>5. EdOK(WhenDomReady(x)) /\ WhenDomReady(x).state = x.state
  BY <1>2, <1>3, <1>4 DEF WhenDomReady, EdOK, w
<1>6. EdOK(LangReadied(x)) /\ LangReadied(x).state = x.state
  BY <1>1, <1>3, <1>4 DEF LangReadied, l
<1> QED BY <1>5, <1>6

LEMMA SetUp ==
    ASSUME NEW x, EdOK(x)
    PROVE  EdOK(Setup(x)) /\ Setup(x).state = x.state
<1> DEFINE y == Setup(x)
<1>1. ToSet(x.listed) \subseteq Fns /\ <<>> \in Seq(Fns)
  BY DEF EdOK, EdType, ToSet
<1>2. /\ y.isReady = TRUE /\ y.ran = x.ran \cup ToSet(x.listed) /\ y.listed = <<>> /\ y.given = x.given
      /\ y.container = x.container /\ y.langIsReady = x.langIsReady /\ y.state = x.state
      /\ y.config = x.config /\ y.handlers = x.handlers /\ y.heard = x.heard /\ y.late = x.late
  BY DEF EdOK, EdType, Setup
<1>3. y \in EdType
  <2> DEFINE a == [x EXCEPT !.frame = "set"]
             b == [a EXCEPT !.isReady = TRUE]
             c == [b EXCEPT !.ran = x.ran \cup ToSet(x.listed)]
  <2>1. a \in EdType /\ b \in EdType
    BY DEF EdOK, EdType
  <2>2. y = [c EXCEPT !.listed = <<>>] /\ x.ran \in SUBSET Fns
    BY DEF Setup, EdOK, EdType
  <2> HIDE DEF b, y
  <2>3. c \in EdType
    BY <1>1, <2>1, <2>2 DEF EdType
  <2> HIDE DEF c
  <2> QED BY <1>1, <2>2, <2>3 DEF EdType
<1> HIDE DEF y
<1>4. ReadyOK(y) /\ ConfigOK(y)
  <2>1. ToSet(<<>>) = {}
    BY DEF ToSet
  <2> QED BY <1>2, <2>1 DEF EdOK, ReadyOK, ConfigOK
<1> QED BY <1>2, <1>3, <1>4 DEF EdOK, y

LEMMA ReadyCalled ==
    ASSUME NEW x, EdOK(x), NEW fn \in Fns
    PROVE  EdOK(Ready(x, fn)) /\ Ready(x, fn).state = x.state
<1> DEFINE g == [x EXCEPT !.given = @ \cup {fn}]
<1>1. x \in EdType /\ x.ran \in SUBSET Fns /\ x.listed \in Seq(Fns) /\ x.isReady \in BOOLEAN
  BY DEF EdOK, EdType
<1>2. /\ g \in EdType /\ g.given = x.given \cup {fn} /\ g.ran = x.ran /\ g.listed = x.listed /\ g.state = x.state
      /\ g.isReady = x.isReady /\ g.container = x.container /\ g.langIsReady = x.langIsReady
      /\ ConfigOK(g)
  BY <1>1 DEF EdOK, EdType, ConfigOK
<1>3. Ready(x, fn) = IF x.isReady THEN [g EXCEPT !.ran = @ \cup {fn}] ELSE [g EXCEPT !.listed = Append(@, fn)]
  BY DEF Ready
<1> HIDE DEF g
<1>4. CASE x.isReady
  <2> DEFINE y == [g EXCEPT !.ran = @ \cup {fn}]
  <2>1. y \in EdType /\ y.ran = x.ran \cup {fn} /\ y.given = g.given /\ y.listed = x.listed /\ y.isReady = x.isReady
        /\ y.state = x.state /\ y.container = x.container /\ y.langIsReady = x.langIsReady /\ ConfigOK(y)
    BY <1>1, <1>2 DEF EdType, ConfigOK
  <2> HIDE DEF y
  <2>2. ReadyOK(y)
    BY <1>2, <1>4, <2>1 DEF EdOK, ReadyOK
  <2> QED BY <1>3, <1>4, <2>1, <2>2 DEF EdOK, y
<1>5. CASE ~x.isReady
  <2> DEFINE y == [g EXCEPT !.listed = Append(@, fn)]
  <2>0. Append(x.listed, fn) \in Seq(Fns) /\ ToSet(Append(x.listed, fn)) = ToSet(x.listed) \cup {fn}
    BY <1>1, AppendElements
  <2>1. y \in EdType /\ y.ran = x.ran /\ y.given = g.given /\ y.listed = Append(x.listed, fn) /\ y.isReady = x.isReady
        /\ y.state = x.state /\ y.container = x.container /\ y.langIsReady = x.langIsReady /\ ConfigOK(y)
    BY <1>1, <1>2, <2>0 DEF EdType, ConfigOK
  <2> HIDE DEF y
  <2>2. ReadyOK(y)
    BY <1>2, <1>5, <2>0, <2>1 DEF EdOK, ReadyOK
  <2> QED BY <1>3, <1>5, <2>1, <2>2 DEF EdOK, y
<1> QED BY <1>4, <1>5

\* The fields of the configuration, all at once.
ConfigIs(x, c, hs, l, hd) == [x EXCEPT !.config = c, !.handlers = hs, !.late = l, !.heard = hd]

LEMMA ConfigSet ==
    ASSUME NEW x, EdOK(x), NEW c \in {"timer", "asked", "loaded", "failed"}, NEW hs \in Seq(Handlers),
           NEW l \in SUBSET Handlers, NEW hd \in Seq(Handlers),
           IsInjective(hs), IsInjective(hd), ToSet(hs) \cap ToSet(hd) = {}, c = "loaded" => ToSet(hs) \subseteq l
    PROVE  EdOK(ConfigIs(x, c, hs, l, hd)) /\ ConfigIs(x, c, hs, l, hd).state = x.state
<1> DEFINE y == [x EXCEPT !.config = c, !.handlers = hs, !.late = l, !.heard = hd]
           a == [x EXCEPT !.config = c]
           b == [a EXCEPT !.handlers = hs]
           d == [b EXCEPT !.late = l]
<1>1. y = [d EXCEPT !.heard = hd]
  OBVIOUS
<1>2. a \in EdType /\ a.config = c /\ a.state = x.state /\ (a.container => a.langIsReady) /\ ReadyOK(a)
  BY DEF EdOK, EdType, ReadyOK
<1> HIDE DEF a
<1>3. b \in EdType /\ b.config = c /\ b.handlers = hs /\ b.state = x.state /\ (b.container => b.langIsReady) /\ ReadyOK(b)
  BY <1>2 DEF EdType, ReadyOK
<1> HIDE DEF b
<1>4. /\ d \in EdType /\ d.config = c /\ d.handlers = hs /\ d.late = l /\ d.state = x.state
      /\ (d.container => d.langIsReady) /\ ReadyOK(d)
  BY <1>3 DEF EdType, ReadyOK
<1> HIDE DEF d, y
<1>5. /\ y \in EdType /\ y.config = c /\ y.handlers = hs /\ y.late = l /\ y.heard = hd /\ y.state = x.state
      /\ (y.container => y.langIsReady) /\ ReadyOK(y)
  BY <1>1, <1>4 DEF EdType, ReadyOK
<1> QED BY <1>5 DEF EdOK, ConfigOK, ConfigIs, y

-----------------------------------------------------------------------------
(* Proofs: the page                                                        *)

\* Every holder has a live editor of its own or none, and every live editor has a holder.
HoldersOK ==
    /\ \A id \in Ids : instances[id] # NoEditor => instances[id] \in Live
    /\ \A i, j \in Ids : instances[i] = instances[j] /\ instances[i] # NoEditor => i = j
    /\ \A e \in Live : \E id \in Ids : instances[id] = e

PageTypes ==
    /\ doc \in {"head", "body", "interactive", "complete"} /\ i18n \in BOOLEAN
    /\ domReady \in [fnArr : Seq(Editors), isReady : BOOLEAN, bound : BOOLEAN]
    /\ file \in [state : {"none", "written", "loading", "loaded", "failed"}, funs : Seq(Editors), ready : BOOLEAN]
    /\ instances \in [Ids -> Editors \cup {NoEditor}]
    /\ ed \in [Editors -> EdType]

LifeInv == PageTypes /\ HoldersOK /\ \A e \in Editors : EdOK(ed[e])

LEMMA LifeInit == Init => LifeInv
<1> SUFFICES ASSUME Init PROVE LifeInv
  OBVIOUS
<1>1. EdOK(NoEd) /\ NoEd.state = "none"
  BY NoEdOK
<1>2. \A e \in Editors : ed[e] = NoEd
  BY DEF Init
<1>3. ed \in [Editors -> EdType]
  BY <1>1 DEF Init, EdOK
<1>4. HoldersOK
  BY <1>1, <1>2 DEF Init, HoldersOK, Live
<1>5. PageTypes
  BY <1>3 DEF Init, PageTypes
<1> QED BY <1>1, <1>2, <1>4, <1>5 DEF LifeInv

\* A step that changes editors and keeps which are live.
LEMMA Changed ==
    ASSUME LifeInv, UNCHANGED instances, PageTypes', \A e \in Editors : EdOK(ed'[e]) /\ ed'[e].state = ed[e].state
    PROVE  LifeInv'
<1>1. Live' = Live
  BY DEF Live
<1>2. HoldersOK'
  BY <1>1 DEF LifeInv, HoldersOK
<1> QED BY <1>2 DEF LifeInv

\* A step of one editor.
LEMMA OneChanged ==
    ASSUME LifeInv, NEW e \in Editors, NEW x, EdOK(x), x.state = ed[e].state, EdOnly(e, x)
    PROVE  LifeInv'
<1>1. PageTypes /\ x \in EdType
  BY DEF LifeInv, EdOK
<1>2. ed' = [ed EXCEPT ![e] = x] /\ UNCHANGED <<page, i18n, file, instances>>
  BY DEF EdOnly
<1>3. PageTypes'
  BY <1>1, <1>2 DEF PageTypes, page
<1>4. \A k \in Editors : ed'[k] = IF k = e THEN x ELSE ed[k]
  BY <1>1, <1>2 DEF PageTypes
<1>5. \A k \in Editors : EdOK(ed'[k]) /\ ed'[k].state = ed[k].state
  BY <1>4 DEF LifeInv
<1> QED BY <1>2, <1>3, <1>5, Changed

\* The functions that wait for the page are run.
LEMMA Done ==
    ASSUME NEW eds, \A e \in Editors : EdOK(eds[e]), NEW fns
    PROVE  /\ DoReady(eds, fns) \in [Editors -> EdType]
           /\ \A e \in Editors : EdOK(DoReady(eds, fns)[e]) /\ DoReady(eds, fns)[e].state = eds[e].state
<1>1. \A e \in Editors : EdOK(DoReady(eds, fns)[e]) /\ DoReady(eds, fns)[e].state = eds[e].state
  BY Built DEF DoReady
<1> QED BY <1>1 DEF DoReady, EdOK

LEMMA NewEditor ==
    ASSUME LifeInv, NoEditor \notin Editors, NEW id \in Ids, GetEditor(id)
    PROVE  LifeInv'
<1>1. PICK e \in Editors :
         /\ ed[e].state = "none" /\ instances' = [instances EXCEPT ![id] = e]
         /\ DomReady([ed EXCEPT ![e] = [NoEd EXCEPT !.state = "live", !.langIsReady = i18n]], e)
         /\ IF i18n THEN UNCHANGED file ELSE LoadFile(e)
  BY DEF GetEditor
<1> DEFINE x == [NoEd EXCEPT !.state = "live", !.langIsReady = i18n]
           eds == [ed EXCEPT ![e] = x]
<1>2. EdOK(x) /\ x.state = "live" /\ x \in EdType
  BY NoEdOK DEF LifeInv, PageTypes, EdOK
<1>3. PageTypes /\ HoldersOK /\ instances[id] = NoEditor /\ UNCHANGED <<doc, i18n>> /\ DomReady(eds, e)
  BY <1>1 DEF LifeInv, GetEditor
<1> HIDE DEF x
<1>4. eds \in [Editors -> EdType] /\ \A k \in Editors : eds[k] = IF k = e THEN x ELSE ed[k]
  BY <1>2, <1>3 DEF PageTypes
<1>5. \A k \in Editors : EdOK(eds[k])
  BY <1>2, <1>4 DEF LifeInv
<1> HIDE DEF eds
<1>6. Append(domReady.fnArr, e) \in Seq(Editors) /\ <<>> \in Seq(Editors)
  BY <1>3 DEF PageTypes
<1>7. /\ domReady' \in [fnArr : Seq(Editors), isReady : BOOLEAN, bound : BOOLEAN]
      /\ ed' \in [Editors -> EdType]
      /\ \A k \in Editors : EdOK(ed'[k]) /\ ed'[k].state = eds[k].state
  <2>1. CASE doc = "complete" \/ domReady.isReady
    <3>1. /\ ed' = DoReady(eds, Append(domReady.fnArr, e))
          /\ domReady' = [domReady EXCEPT !.fnArr = <<>>, !.isReady = TRUE, !.bound = @ \/ doc # "complete"]
      BY <1>3, <2>1 DEF DomReady
    <3>2. domReady' \in [fnArr : Seq(Editors), isReady : BOOLEAN, bound : BOOLEAN]
      BY <1>3, <1>6, <3>1 DEF PageTypes
    <3> QED BY <1>5, <3>1, <3>2, Done
  <2>2. CASE ~(doc = "complete" \/ domReady.isReady)
    <3>1. ed' = eds /\ domReady' = [domReady EXCEPT !.fnArr = Append(domReady.fnArr, e), !.bound = TRUE]
      BY <1>3, <2>2 DEF DomReady
    <3>2. domReady' \in [fnArr : Seq(Editors), isReady : BOOLEAN, bound : BOOLEAN]
      BY <1>3, <1>6, <3>1 DEF PageTypes
    <3> QED BY <1>4, <1>5, <3>1, <3>2
  <2> QED BY <2>1, <2>2
<1>8. file' \in [state : {"none", "written", "loading", "loaded", "failed"}, funs : Seq(Editors), ready : BOOLEAN]
  <2>1. Append(file.funs, e) \in Seq(Editors) /\ <<e>> \in Seq(Editors)
    BY <1>3 DEF PageTypes
  <2> QED BY <1>1, <1>3, <2>1 DEF PageTypes, LoadFile
<1>9. PageTypes'
  BY <1>1, <1>3, <1>7, <1>8 DEF PageTypes
<1>10. Live' = Live \cup {e} /\ e \notin Live
  BY <1>1, <1>2, <1>4, <1>7 DEF Live
<1>11. \A k \in Ids : instances'[k] = IF k = id THEN e ELSE instances[k]
  BY <1>1, <1>3 DEF PageTypes
<1>12. HoldersOK'
  <2>1. \A k \in Ids : instances[k] # e
    BY <1>3, <1>10 DEF HoldersOK
  <2>2. \A k \in Ids : instances'[k] # NoEditor => instances'[k] \in Live'
    BY <1>3, <1>10, <1>11 DEF HoldersOK
  <2>3. ASSUME NEW i \in Ids, NEW j \in Ids, instances'[i] = instances'[j], instances'[i] # NoEditor PROVE i = j
    BY <1>3, <1>11, <2>1, <2>3 DEF HoldersOK
  <2>4. ASSUME NEW k \in Live' PROVE \E i \in Ids : instances'[i] = k
    <3>1. CASE k = e
      BY <1>11, <3>1
    <3>2. CASE k # e
      <4>1. PICK i \in Ids : instances[i] = k
        BY <1>3, <1>10, <2>4, <3>2 DEF HoldersOK
      <4>2. i # id
        BY <1>3, <4>1, <2>4 DEF Live
      <4> QED BY <1>11, <4>1, <4>2
    <3> QED BY <3>1, <3>2
  <2> QED BY <2>2, <2>3, <2>4 DEF HoldersOK
<1> QED BY <1>7, <1>9, <1>12 DEF LifeInv

LEMMA Destroyed ==
    ASSUME LifeInv, NoEditor \notin Editors, NEW e \in Live, Destroy(e), UNCHANGED <<page, i18n, file>>
    PROVE  LifeInv'
<1>1. PageTypes /\ HoldersOK /\ e \in Editors /\ \A k \in Editors : EdOK(ed[k])
  BY DEF LifeInv, Live
<1>2. CASE ed[e].frame = "set"
  <2> DEFINE x == [NoEd EXCEPT !.state = "destroyed"]
  <2>1. EdOK(x) /\ x.state = "destroyed"
    BY NoEdOK
  <2>2. /\ ed' = [ed EXCEPT ![e] = x]
        /\ instances' = [id \in Ids |-> IF instances[id] = e THEN NoEditor ELSE instances[id]]
    BY <1>2 DEF Destroy
  <2> HIDE DEF x
  <2>3. \A k \in Editors : ed'[k] = IF k = e THEN x ELSE ed[k]
    BY <1>1, <2>2 DEF PageTypes
  <2>4. PageTypes'
    BY <1>1, <2>1, <2>2 DEF PageTypes, page, EdOK
  <2>5. Live' = Live \ {e}
    BY <1>1, <2>1, <2>3 DEF Live
  <2>6. HoldersOK'
    BY <1>1, <2>2, <2>5 DEF HoldersOK
  <2> QED BY <1>1, <2>1, <2>3, <2>4, <2>6 DEF LifeInv
<1>3. CASE ed[e].frame # "set"
  <2> DEFINE x == [ed[e] EXCEPT !.wreck = TRUE]
  <2>1. ed' = [ed EXCEPT ![e] = x] /\ UNCHANGED instances
    BY <1>3 DEF Destroy
  <2>2. x \in EdType /\ x.state = ed[e].state /\ EdOK(x)
    BY <1>1 DEF EdOK, EdType, ReadyOK, ConfigOK
  <2> QED BY <1>1, <2>1, <2>2, OneChanged DEF EdOnly
<1> QED BY <1>2, <1>3

LEMMA PageStep ==
    ASSUME LifeInv, PageProceeds \/ FileLoads \/ FileFails
    PROVE  LifeInv'
<1>1. PageTypes /\ \A e \in Editors : EdOK(ed[e])
  BY DEF LifeInv
<1>2. CASE PageProceeds
  <2>1. /\ doc' \in {"head", "body", "interactive", "complete"} /\ UNCHANGED <<i18n, file, instances>>
        /\ domReady' \in [fnArr : Seq(Editors), isReady : BOOLEAN, bound : BOOLEAN]
    <3>1. doc' \in {"head", "body", "interactive", "complete"} /\ UNCHANGED <<i18n, file, instances>>
      BY <1>2 DEF PageProceeds
    <3>2. domReady' = domReady \/ domReady' = [domReady EXCEPT !.fnArr = <<>>, !.isReady = TRUE]
      BY <1>2 DEF PageProceeds
    <3>3. <<>> \in Seq(Editors)
      OBVIOUS
    <3> QED BY <1>1, <3>1, <3>2, <3>3 DEF PageTypes
  <2>2. ed' = ed \/ ed' = DoReady(ed, domReady.fnArr)
    BY <1>2 DEF PageProceeds
  <2>3. ed' \in [Editors -> EdType] /\ \A e \in Editors : EdOK(ed'[e]) /\ ed'[e].state = ed[e].state
    BY <1>1, <2>2, Done DEF PageTypes
  <2>4. PageTypes'
    BY <1>1, <2>1, <2>3 DEF PageTypes
  <2> QED BY <2>1, <2>3, <2>4, Changed
<1>3. CASE FileLoads
  <2>1. /\ i18n' = TRUE /\ UNCHANGED <<doc, domReady, instances>>
        /\ file' \in [state : {"none", "written", "loading", "loaded", "failed"}, funs : Seq(Editors), ready : BOOLEAN]
    <3>1. /\ i18n' = TRUE /\ UNCHANGED <<doc, domReady, instances>>
          /\ \/ file' = [state |-> "loaded", funs |-> <<>>, ready |-> TRUE]
             \/ file' = [file EXCEPT !.state = "loaded"]
      BY <1>3 DEF FileLoads, page
    <3>2. <<>> \in Seq(Editors)
      OBVIOUS
    <3>3. CASE file' = [state |-> "loaded", funs |-> <<>>, ready |-> TRUE]
      BY <3>1, <3>2, <3>3
    <3>4. CASE file' = [file EXCEPT !.state = "loaded"]
      BY <1>1, <3>1, <3>4 DEF PageTypes
    <3> QED BY <3>1, <3>3, <3>4
  <2>2. \/ ed' = ed
        \/ ed' = [e \in Editors |-> IF Contains(file.funs, e) THEN LangReadied(ed[e]) ELSE ed[e]]
    BY <1>3 DEF FileLoads
  <2>3. ed' \in [Editors -> EdType] /\ \A e \in Editors : EdOK(ed'[e]) /\ ed'[e].state = ed[e].state
    <3>1. \A e \in Editors : LangReadied(ed[e]) \in EdType /\ ed[e] \in EdType
      BY <1>1, Built DEF EdOK
    <3> QED BY <1>1, <2>2, <3>1, Built DEF PageTypes
  <2>4. PageTypes'
    BY <1>1, <2>1, <2>3 DEF PageTypes
  <2> QED BY <2>1, <2>3, <2>4, Changed
<1>4. CASE FileFails
  <2>1. UNCHANGED <<doc, domReady, i18n, instances, ed>> /\ file' = [file EXCEPT !.state = "failed"]
    BY <1>4 DEF FileFails, page
  <2>2. PageTypes'
    BY <1>1, <2>1 DEF PageTypes
  <2> QED BY <1>1, <2>1, <2>2, Changed
<1> QED BY <1>2, <1>3, <1>4

LEMMA ConfigStep ==
    ASSUME LifeInv, NEW e \in Editors,
           \/ AskConfig(e) \/ ConfigLoaded(e) \/ ConfigThrows(e) \/ ConfigFails(e)
           \/ \E h \in Handlers : CallAfterConfig(e, h)
    PROVE  LifeInv'
<1> DEFINE x == ed[e]
           hs == x.handlers
           hd == x.heard
<1>1. EdOK(x)
  BY DEF LifeInv
<1>2. /\ hs \in Seq(Handlers) /\ hd \in Seq(Handlers) /\ IsInjective(hs) /\ IsInjective(hd) /\ x.late \in SUBSET Handlers
      /\ ToSet(hs) \cap ToSet(hd) = {} /\ (x.config = "loaded" => ToSet(hs) \subseteq x.late)
      /\ x.config \in {"timer", "asked", "loaded", "failed"}
  BY <1>1 DEF EdOK, EdType, ConfigOK
<1>3. x \in EdType
  BY <1>1 DEF EdOK
<1> HIDE DEF x
\* What the lemma on the four fields says of this editor.
<1>4. ASSUME NEW c \in {"timer", "asked", "loaded", "failed"}, NEW a \in Seq(Handlers), NEW l \in SUBSET Handlers,
             NEW b \in Seq(Handlers), IsInjective(a), IsInjective(b), ToSet(a) \cap ToSet(b) = {},
             c = "loaded" => ToSet(a) \subseteq l,
             EdOnly(e, ConfigIs(x, c, a, l, b))
      PROVE  LifeInv'
  <2>1. EdOK(ConfigIs(x, c, a, l, b)) /\ ConfigIs(x, c, a, l, b).state = x.state
    BY <1>1, <1>4, ConfigSet
  <2> QED BY <1>4, <2>1, OneChanged DEF x
<1>5. CASE AskConfig(e) \/ ConfigFails(e)
  <2>1. PICK c \in {"asked", "failed"} : EdOnly(e, [x EXCEPT !.config = c])
    BY <1>5 DEF AskConfig, ConfigFails, x
  <2>2. [x EXCEPT !.config = c] = ConfigIs(x, c, hs, x.late, hd)
    BY <1>3 DEF EdType, ConfigIs
  <2> QED BY <1>2, <1>4, <2>1, <2>2
<1>6. CASE ConfigLoaded(e)
  <2>1. PICK late \in {{}} \cup {{h} : h \in Handlers \ ToSet(hs \o hd)} :
           EdOnly(e, [x EXCEPT !.config = "loaded", !.handlers = SetToSeq(late), !.late = @ \cup late,
                               !.heard = @ \o Reverse(hs)])
    BY <1>6 DEF ConfigLoaded, x
  <2> DEFINE a == SetToSeq(late)
             b == hd \o Reverse(hs)
             l == x.late \cup late
  <2>2. a \in Seq(Handlers) /\ IsInjective(a) /\ ToSet(a) = late
    BY SmallSetToSeq
  <2>3. /\ Reverse(hs) \in Seq(Handlers) /\ ToSet(Reverse(hs)) = ToSet(hs) /\ IsInjective(Reverse(hs))
    BY <1>2, ReversedElements
  <2>4. b \in Seq(Handlers) /\ ToSet(b) = ToSet(hd) \cup ToSet(hs) /\ IsInjective(b)
    BY <1>2, <2>3, JoinedElements
  <2>5. late \cap (ToSet(hs) \cup ToSet(hd)) = {} /\ late \in SUBSET Handlers
    <3>1. ToSet(hs \o hd) = ToSet(hs) \cup ToSet(hd)
      BY <1>2, JoinedElements
    <3> QED BY <3>1
  <2>6. ToSet(a) \cap ToSet(b) = {} /\ l \in SUBSET Handlers /\ ToSet(a) \subseteq l
    BY <1>2, <2>2, <2>4, <2>5
  <2>7. EdOnly(e, ConfigIs(x, "loaded", a, l, b))
    BY <2>1 DEF ConfigIs
  <2> HIDE DEF a, b, l
  <2> QED BY <1>4, <2>2, <2>4, <2>6, <2>7
<1>7. CASE ConfigThrows(e)
  <2>1. PICK k \in DOMAIN hs :
           EdOnly(e, [x EXCEPT !.config = "failed", !.handlers = SubSeq(hs, 1, k),
                               !.heard = @ \o Reverse(SubSeq(hs, k + 1, Len(hs)))])
    BY <1>7 DEF ConfigThrows, x
  <2> DEFINE a == SubSeq(hs, 1, k)
             r == SubSeq(hs, k + 1, Len(hs))
             b == hd \o Reverse(r)
  <2>2. /\ a \in Seq(Handlers) /\ r \in Seq(Handlers) /\ IsInjective(a) /\ IsInjective(r)
        /\ ToSet(a) \subseteq ToSet(hs) /\ ToSet(r) \subseteq ToSet(hs) /\ ToSet(a) \cap ToSet(r) = {}
    BY <1>2, CutElements
  <2>3. EdOnly(e, ConfigIs(x, "failed", a, x.late, b))
    <3>1. [x EXCEPT !.config = "failed", !.handlers = a, !.heard = b]
             = ConfigIs(x, "failed", a, x.late, b)
      BY <1>3 DEF EdType, ConfigIs
    <3> QED BY <2>1, <3>1
  <2> HIDE DEF a, r
  <2>4. Reverse(r) \in Seq(Handlers) /\ ToSet(Reverse(r)) = ToSet(r) /\ IsInjective(Reverse(r))
    BY <2>2, ReversedElements
  <2>5. b \in Seq(Handlers) /\ ToSet(b) = ToSet(hd) \cup ToSet(r) /\ IsInjective(b)
    BY <1>2, <2>2, <2>4, JoinedElements
  <2> HIDE DEF b
  <2>6. ToSet(a) \cap ToSet(b) = {}
    BY <1>2, <2>2, <2>5
  <2> QED BY <1>2, <1>4, <2>2, <2>3, <2>5, <2>6
<1>8. ASSUME NEW h \in Handlers, CallAfterConfig(e, h) PROVE LifeInv'
  <2>1. h \notin ToSet(hs) /\ h \notin ToSet(hd)
    <3>1. ToSet(hs \o hd) = ToSet(hs) \cup ToSet(hd) /\ DOMAIN (hs \o hd) = 1 .. Len(hs \o hd)
      BY <1>2, JoinedElements
    <3>2. ~Contains(hs \o hd, h)
      BY <1>8 DEF CallAfterConfig, x
    <3>3. h \notin ToSet(hs \o hd)
      BY <3>1, <3>2 DEF Contains, ToSet
    <3> QED BY <3>1, <3>3
  <2>2. CASE x.config = "loaded"
    <3>1. EdOnly(e, [x EXCEPT !.heard = Append(hd, h)])
      BY <1>8, <2>2 DEF CallAfterConfig, AfterConfigReady, x
    <3>2. [x EXCEPT !.heard = Append(hd, h)]
            = ConfigIs(x, x.config, hs, x.late, Append(hd, h))
      BY <1>3 DEF EdType, ConfigIs
    <3>3. Append(hd, h) \in Seq(Handlers) /\ ToSet(Append(hd, h)) = ToSet(hd) \cup {h} /\ IsInjective(Append(hd, h))
      BY <1>2, <2>1, AppendElements
    <3>4. ToSet(hs) \cap ToSet(Append(hd, h)) = {}
      BY <1>2, <2>1, <3>3
    <3>5. EdOnly(e, ConfigIs(x, x.config, hs, x.late, Append(hd, h)))
      BY <3>1, <3>2
    <3> QED BY <1>2, <1>4, <3>3, <3>4, <3>5, Zenon
  <2>3. CASE x.config # "loaded"
    <3>1. EdOnly(e, [x EXCEPT !.handlers = Append(hs, h)])
      BY <1>8, <2>3 DEF CallAfterConfig, AfterConfigReady, x
    <3>2. [x EXCEPT !.handlers = Append(hs, h)]
            = ConfigIs(x, x.config, Append(hs, h), x.late, hd)
      BY <1>3 DEF EdType, ConfigIs
    <3>3. Append(hs, h) \in Seq(Handlers) /\ ToSet(Append(hs, h)) = ToSet(hs) \cup {h} /\ IsInjective(Append(hs, h))
      BY <1>2, <2>1, AppendElements
    <3>4. ToSet(Append(hs, h)) \cap ToSet(hd) = {}
      BY <1>2, <2>1, <3>3
    <3>5. EdOnly(e, ConfigIs(x, x.config, Append(hs, h), x.late, hd))
      BY <3>1, <3>2
    <3> QED BY <1>2, <1>4, <2>3, <3>3, <3>4, <3>5, Zenon
  <2> QED BY <2>2, <2>3
<1> QED BY <1>5, <1>6, <1>7, <1>8

LEMMA LifeStep == NoEditor \notin Editors /\ LifeInv /\ [Next]_vars => LifeInv'
<1> SUFFICES ASSUME NoEditor \notin Editors, LifeInv, [Next]_vars PROVE LifeInv'
  OBVIOUS
<1>1. CASE UNCHANGED vars
  BY <1>1 DEF vars, page, LifeInv, PageTypes, HoldersOK, Live
<1>2. ASSUME NEW id \in Ids, DelEditor(id) PROVE LifeInv'
  <2>1. instances[id] \in Live
    BY <1>2 DEF DelEditor, LifeInv, HoldersOK
  <2> QED BY <1>2, <2>1, Destroyed DEF DelEditor
<1>3. ASSUME NEW e \in Editors, CallDestroy(e) PROVE LifeInv'
  BY <1>3, Destroyed DEF CallDestroy
<1>4. ASSUME NEW e \in Editors, FrameLoads(e) PROVE LifeInv'
  <2>1. EdOK(ed[e]) /\ EdOnly(e, Setup(ed[e]))
    BY <1>4 DEF FrameLoads, EdOnly, LifeInv, PageTypes
  <2> QED BY <2>1, SetUp, OneChanged
<1>5. ASSUME NEW e \in Editors, NEW fn \in Fns, CallReady(e, fn) PROVE LifeInv'
  <2>1. EdOK(ed[e]) /\ EdOnly(e, Ready(ed[e], fn))
    BY <1>5 DEF CallReady, EdOnly, LifeInv, PageTypes
  <2> QED BY <2>1, ReadyCalled, OneChanged
<1> QED BY <1>1, <1>2, <1>3, <1>4, <1>5, NewEditor, PageStep, ConfigStep DEF Next

LEMMA LifeGives ==
    NoEditor \notin Editors /\ LifeInv => TypeOK /\ BuiltInItsLanguage /\ ReadyRunsAll /\ InstancesAreLive /\ ConfigHandlersRunOnce
<1> SUFFICES ASSUME NoEditor \notin Editors, LifeInv
             PROVE  TypeOK /\ BuiltInItsLanguage /\ ReadyRunsAll /\ InstancesAreLive /\ ConfigHandlersRunOnce
  OBVIOUS
<1>1. PageTypes /\ HoldersOK /\ Live \subseteq Editors
      /\ \A e \in Editors : EdOK(ed[e]) /\ ed[e] \in EdType
  BY DEF LifeInv, EdOK, Live
<1>2. TypeOK
  BY <1>1 DEF TypeOK, PageTypes, EdType
<1>3. BuiltInItsLanguage /\ ReadyRunsAll
  BY <1>1 DEF BuiltInItsLanguage, ReadyRunsAll, EdOK, ReadyOK
<1>4. InstancesAreLive
  <2>1. ASSUME NEW e \in Live PROVE Cardinality({id \in Ids : instances[id] = e}) = 1
    <3>1. PICK id \in Ids : instances[id] = e
      BY <1>1 DEF HoldersOK
    <3>2. {k \in Ids : instances[k] = e} = {id}
      BY <1>1, <3>1 DEF HoldersOK
    <3> QED BY <3>2, FS_Singleton
  <2> QED BY <1>1, <2>1 DEF InstancesAreLive, HoldersOK
<1>5. ConfigHandlersRunOnce
  <2>1. ASSUME NEW e \in Live PROVE Cardinality(ToSet(ed[e].heard)) = Len(ed[e].heard)
    <3>1. ed[e].heard \in Seq(Handlers) /\ IsInjective(ed[e].heard)
      BY <1>1 DEF EdOK, EdType, ConfigOK
    <3> QED BY <3>1, DistinctCount
  <2> QED BY <1>1, <2>1 DEF ConfigHandlersRunOnce, EdOK, ConfigOK
<1> QED BY <1>2, <1>3, <1>4, <1>5

\* Whoever of page, language file, frame and server comes first, for any editors, holders,
\* callbacks and handlers: nothing is built before its language, callbacks of ready and
\* handlers of afterConfigReady run once, and getEditor returns no dead editor.
THEOREM LifeIsOrdered ==
    NoEditor \notin Editors
      => (Spec => [](TypeOK /\ BuiltInItsLanguage /\ ReadyRunsAll /\ InstancesAreLive /\ ConfigHandlersRunOnce))
<1> SUFFICES ASSUME NoEditor \notin Editors
             PROVE  Spec => [](TypeOK /\ BuiltInItsLanguage /\ ReadyRunsAll /\ InstancesAreLive
                               /\ ConfigHandlersRunOnce)
  OBVIOUS
<1>1. LifeInv /\ [Next]_vars => LifeInv'
  BY LifeStep
<1>2. LifeInv => TypeOK /\ BuiltInItsLanguage /\ ReadyRunsAll /\ InstancesAreLive /\ ConfigHandlersRunOnce
  BY LifeGives
<1> QED BY <1>1, <1>2, LifeInit, PTL DEF Spec
=============================================================================
