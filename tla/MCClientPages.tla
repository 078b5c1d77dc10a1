--------------------------- MODULE MCClientPages ---------------------------
(***************************************************************************)
(* What a user of the clients meets around the editor: the login page, the *)
(* request object that the iOS pages share, the dialogs that upload and    *)
(* list files, and the carousel of the web site.  They share no state that *)
(* is modelled, so each behaviour is about one of them, the subject; the   *)
(* others rest in an initial state.                                        *)
(***************************************************************************)
EXTENDS Integers, Sequences, TLC, TLAPS

CONSTANTS Subjects,  \* the parts that are looked at
          None,
          Main, Blocks, Kinds, Unsigned, ParamsFirst, MaxMain   \* of RequestSlot

ASSUME MaxMainAssumption == MaxMain \in Nat

VARIABLES
    subject,
    \* WebLogin
    page, tel, codeDisabled, countdowns, option, handlers, asks, submits, asked, nsub, registered, calm, last,
    \* RequestSlot
    up, networkError, rquesturl, params, pc, cur, made, hacstr, dic, url, sent, burst,
    \* UploadQueue
    status, queue, running, trigged, timers, preparing, pool, state, disabled, fileCount, shown, panel,
    percentages, stored, late, closed,
    \* OnlineList, ImageDialog
    listed, selected, listIndex, listEnd, isLoadingData, request, focused, crossed,
    searches, underway, results, overtaken,
    \* OwlCarousel
    base, drag, win, visible, owlTimers, lastWindowWidth, history

-----------------------------------------------------------------------------
(* Instances                                                               *)

Login == INSTANCE WebLogin WITH Phones <- {"p1", "p2"}, Malformed <- {"12"}, CountFrom <- 2, MaxAsks <- 2, MaxSubmits <- 1,
            disabled <- codeDisabled, timers <- countdowns
Submits == INSTANCE WebLogin WITH Phones <- {"p1"}, Malformed <- {"12"}, CountFrom <- 1, MaxAsks <- 2, MaxSubmits <- 2,
            disabled <- codeDisabled, timers <- countdowns

Slot == INSTANCE RequestSlot

Images == INSTANCE UploadQueue WITH Files <- {"f1", "f2", "f3", "f4"}, Threads <- 1, Accepts <- TRUE, Compresses <- TRUE,
            Kind <- "f1" :> "good" @@ "f2" :> "good" @@ "f3" :> "other" @@ "f4" :> "large"
Attachments == INSTANCE UploadQueue WITH Files <- {"f1", "f2", "f3"}, Threads <- 2, Accepts <- FALSE,
            Compresses <- FALSE, Kind <- "f1" :> "good" @@ "f2" :> "other" @@ "f3" :> "tiny"
Videos == INSTANCE UploadQueue WITH Files <- {"f1", "f2", "f3"}, Threads <- 2, Accepts <- FALSE,
            Compresses <- FALSE, Kind <- "f1" :> "good" @@ "f2" :> "good" @@ "f3" :> "good"

ImageLists == INSTANCE ImageDialog WITH Total <- 5, Size <- 2, MaxFocus <- 3, MaxSearches <- 2, shown <- listed
AttachmentLists == INSTANCE OnlineList WITH Total <- 5, Size <- 2, MaxFocus <- 3, shown <- listed

\* A wide and a narrow window with the carousel of index.html in it; one with pages of two
\* items and buttons; one whose single items change with a transition; one whose images
\* are loaded when they come into view.
Narrow == (800 :> 60) @@ (1400 :> 100)
Wide == (800 :> 100) @@ (1400 :> 200)
DefaultRules == <<<<1199, 1>>, <<979, 1>>, <<768, 1>>, <<479, 1>>>>
TwoFromThousand == <<<<0, 1>>, <<1000, 2>>>>
Carousel == INSTANCE OwlCarousel WITH Amounts <- {3}, Widths <- {800, 1400}, ElemWidth <- Narrow, OrignalItems <- 1,
    DesktopLimit <- 1199, ItemsCustom <- <<>>, ItemsRules <- DefaultRules, ItemsScaleUp <- FALSE,
    ScrollPerPage <- FALSE, RewindNav <- TRUE, StopOnHover <- FALSE, LazyLoad <- FALSE, LazyFollow <- TRUE,
    AutoPlay <- TRUE, Transition <- FALSE, DragBeforeAnimFinish <- TRUE, DragDistances <- {-50, 0},
    Events <- FALSE, Rebuilds <- FALSE, Hides <- TRUE, timers <- owlTimers
Paged == INSTANCE OwlCarousel WITH Amounts <- {1, 4, 5}, Widths <- {800, 1400}, ElemWidth <- Wide, OrignalItems <- 3,
    DesktopLimit <- 1199, ItemsCustom <- TwoFromThousand, ItemsRules <- DefaultRules, ItemsScaleUp <- TRUE,
    ScrollPerPage <- TRUE, RewindNav <- FALSE, StopOnHover <- FALSE, LazyLoad <- FALSE, LazyFollow <- TRUE,
    AutoPlay <- FALSE, Transition <- FALSE, DragBeforeAnimFinish <- FALSE, DragDistances <- {-150, 20},
    Events <- FALSE, Rebuilds <- TRUE, Hides <- FALSE, timers <- owlTimers
Fading == INSTANCE OwlCarousel WITH Amounts <- {1, 2}, Widths <- {800, 1400}, ElemWidth <- Narrow, OrignalItems <- 1,
    DesktopLimit <- 1199, ItemsCustom <- <<>>, ItemsRules <- DefaultRules, ItemsScaleUp <- FALSE,
    ScrollPerPage <- FALSE, RewindNav <- TRUE, StopOnHover <- TRUE, LazyLoad <- FALSE, LazyFollow <- TRUE,
    AutoPlay <- FALSE, Transition <- TRUE, DragBeforeAnimFinish <- TRUE, DragDistances <- {},
    Events <- TRUE, Rebuilds <- TRUE, Hides <- FALSE, timers <- owlTimers
Lazy == INSTANCE OwlCarousel WITH Amounts <- {3}, Widths <- {800, 1400}, ElemWidth <- Wide, OrignalItems <- 3,
    DesktopLimit <- 1199, ItemsCustom <- TwoFromThousand, ItemsRules <- DefaultRules, ItemsScaleUp <- TRUE,
    ScrollPerPage <- FALSE, RewindNav <- TRUE, StopOnHover <- FALSE, LazyLoad <- TRUE, LazyFollow <- TRUE,
    AutoPlay <- TRUE, Transition <- FALSE, DragBeforeAnimFinish <- FALSE, DragDistances <- {},
    Events <- FALSE, Rebuilds <- FALSE, Hides <- TRUE, timers <- owlTimers

-----------------------------------------------------------------------------

login == <<page, tel, codeDisabled, countdowns, option, handlers, asks, submits, asked, nsub, registered, calm, last>>
slot == <<up, networkError, rquesturl, params, pc, cur, made, hacstr, dic, url, sent, burst>>
upload == <<status, queue, running, trigged, timers, preparing, pool, state, disabled, fileCount, shown, panel,
            percentages, stored, late, closed>>
list == <<listed, selected, listIndex, listEnd, isLoadingData, request, focused, crossed>>
search == <<searches, underway, results, overtaken>>
owl == <<base, drag, win, visible, owlTimers, lastWindowWidth, history>>
vars == <<subject, login, slot, upload, list, search, owl>>

Carousels == {"carousel", "paged", "fading", "lazy"}

Init ==
    /\ subject \in Subjects
    /\ IF subject = "submits" THEN Submits!Init ELSE Login!Init
    /\ subject \notin {"login", "submits"} => registered = {}
    /\ Slot!Init
    /\ IF subject = "videos" THEN Videos!InitVideos
       ELSE IF subject = "attachments" THEN Attachments!InitAttachments ELSE Images!Init
    /\ ImageLists!Init
    /\ \/ subject = "paged" /\ Paged!Init
       \/ subject = "fading" /\ Fading!Init
       \/ subject = "lazy" /\ Lazy!Init
       \/ subject \notin Carousels \ {"carousel"} /\ Carousel!Init
    /\ subject \notin Carousels => win = 800 /\ visible

LoginSteps == /\ \/ subject = "login" /\ Login!Next
                 \/ subject = "submits" /\ Submits!Next
              /\ UNCHANGED <<subject, slot, upload, list, search, owl>>
SlotSteps == subject = "slot" /\ Slot!Next /\ UNCHANGED <<subject, login, upload, list, search, owl>>
UploadSteps == /\ \/ subject = "images" /\ Images!Next
                  \/ subject = "attachments" /\ Attachments!AttachmentNext
                  \/ subject = "videos" /\ Videos!VideoNext
               /\ UNCHANGED <<subject, login, slot, list, search, owl>>
ListSteps == /\ \/ subject = "image lists" /\ ImageLists!Next
                \/ subject = "attachment list" /\ AttachmentLists!FilesNext /\ UNCHANGED search
             /\ UNCHANGED <<subject, login, slot, upload, owl>>
OwlSteps == /\ \/ subject = "carousel" /\ Carousel!Next
               \/ subject = "paged" /\ Paged!Next
               \/ subject = "fading" /\ Fading!Next
               \/ subject = "lazy" /\ Lazy!Next
            /\ UNCHANGED <<subject, login, slot, upload, list, search>>
Next == LoginSteps \/ SlotSteps \/ UploadSteps \/ ListSteps \/ OwlSteps

\* Timers fire, images are loaded or not, animations end, and requests end.
Fairness ==
    /\ WF_login(subject = "login" /\ Login!Tick)
    /\ WF_upload(subject = "images" /\ Images!Tick)
    /\ WF_upload(subject = "images" /\ Images!Finished)
    /\ WF_upload(subject = "images" /\ (Images!Prepared \/ Images!CompressFails))
    /\ WF_upload(subject = "videos" /\ Videos!UploadLoop)
    /\ WF_upload(subject = "videos" /\ Videos!VideosFinished)
    /\ \A f \in {"f1", "f2", "f3"} :
          /\ WF_upload(subject = "images" /\ \E answer \in Images!Answers : Images!Answer(f, answer))
          /\ WF_upload(subject = "videos" /\ Videos!VideoEnds(f))
    /\ WF_owl(subject = "fading" /\ Fading!AnimationEnd)
    /\ \A i \in 0 .. 2 : WF_owl(subject = "lazy" /\ Lazy!ImageShown(i))
Spec == Init /\ [][Next]_vars /\ Fairness

-----------------------------------------------------------------------------
(* Properties                                                              *)

\* However requests, answers, edits of the number and countdowns overlap on the login
\* page: the button offers what the server has for the number that the last code was
\* asked for, unless requests overlapped; a click sends one request; and nobody can ask
\* for a code while a countdown shows a number, also when several share the button.
LoginIsTrue ==
    /\ [](subject # "submits" => Login!TypeOK)
    /\ []Login!OptionFits
    /\ Submits!OneSubmitPerClick
    /\ [][subject = "login" => Login!CountdownBlocks]_login

\* A request that no other one overlapped goes out with its own url and parameters,
\* signed over exactly these; what is sent is mixed up only from requests of one burst
\* of overlapping ones, never from an older one (statrrequestgetwith).
RequestIsOwn ==
    /\ subject = "slot" => Slot!TypeOK
    /\ Slot!AloneIsOwn /\ Slot!MixedOnlyWithinBurst

\* The file dialogs show what is: OK inserts files that the user still sees, each once,
\* and nothing is stored after it; a waiting file can be started and no removed one is
\* shown in progress; a list follows the server's order without gap, starts at its first
\* file, and results are those of one search.
FileDialogsAreTrue ==
    /\ [](/\ subject = "images" => Images!TypeOK /\ Images!WaitingCanStart
          /\ subject = "attachments" => Attachments!TypeOK /\ Attachments!WaitingCanStart
          /\ subject = "videos" => Videos!TypeOK /\ Videos!WaitingCanStart
          /\ Images!InsertedStillShown /\ Images!RecordsAreShown)
    /\ Images!NothingStoredAfterOk
    /\ [](/\ ImageLists!TypeOK /\ ImageLists!ShownWithoutGap
          /\ ImageLists!StartsAtFirst /\ ImageLists!ResultsOfOneSearch
          /\ subject = "attachment list" => AttachmentLists!ResetStartsAtFirst)
    /\ [][subject = "attachment list" => AttachmentLists!FilesStay]_list

\* However moves, drags, resizes, hiding, rebuilding and timers cross, the carousel
\* stands at its current item, has the size of its window and an image for every item in
\* view; the active page and the buttons tell where it is; autoplay goes on until it is
\* stopped and not after; a drag ends near to where it was let go.
CarouselIsSound ==
    /\ [](subject = "carousel" => Carousel!TypeOK /\ Carousel!WrapperAtItem /\ Carousel!AutoPlayGoesOn)
    /\ [](subject = "paged" => /\ Paged!TypeOK /\ Paged!WrapperAtItem
                               /\ Paged!ActivePageShowsItem /\ Paged!ButtonsTellTruth)
    /\ [](subject = "fading" => /\ Fading!TypeOK /\ Fading!WrapperAtItem
                                /\ Fading!StopLasts /\ Fading!DestroyedIsQuiet)
    /\ [](subject = "lazy" => /\ Lazy!TypeOK /\ Lazy!WrapperAtItem /\ Lazy!AutoPlayGoesOn
                              /\ Lazy!SizesFitWindow /\ Lazy!InViewIsLoaded)
    /\ [][subject = "carousel" => Carousel!DragLandsNear]_owl

\* The button that asks for a code does not stay disabled, an upload ends by itself
\* unless a promise hangs, a transition of the carousel ends, and an image that loads is
\* shown in the end.
PagesComeToRest ==
    /\ subject = "login" => Login!CountdownEnds
    /\ subject = "images" => Images!UploadEnds
    /\ subject = "videos" => Videos!UploadEnds
    /\ subject = "fading" => Fading!TransitionEnds
    /\ subject = "lazy" => Lazy!ImagesCome

-----------------------------------------------------------------------------
(***************************************************************************)
(* Proofs about the request object, for every set of blocks and of kinds    *)
(* and any number of requests.  MixedOnlyWithinBurst needs that a thread    *)
(* which has filled in the object, or read from it, holds nothing older     *)
(* than the burst; and AloneIsOwn that a request alone in its burst finds   *)
(* its parameters not yet signed when it checks the url and signed by       *)
(* itself when it reads it.                                                 *)
(***************************************************************************)

UrlSet(t) == \/ pc[t] \in Slot!Steps \ {"idle", "second"}
             \/ pc[t] = "second" /\ cur[t].kind \notin ParamsFirst
ParamsSet(t) == \/ pc[t] \in Slot!Steps \ {"idle", "second"}
                \/ pc[t] = "second" /\ cur[t].kind \in ParamsFirst
OfBurst(d) == d \in Slot!Dicts /\ d.of \in burst /\ d.token \in burst \cup {None}

Held(t) ==
    /\ pc[t] # "idle" => cur[t] \in burst /\ cur[t].by = t
    /\ UrlSet(t) => rquesturl \in burst
    /\ ParamsSet(t) => OfBurst(params)
    /\ pc[t] \in {"copy", "store"} => hacstr[t] \in burst
    /\ pc[t] = "store" => OfBurst(dic[t]) /\ dic[t].token = hacstr[t]
    /\ pc[t] = "handover" => url[t] \in burst

Alone(t) ==
    pc[t] # "idle" /\ burst = {cur[t]} =>
        /\ ParamsSet(t) /\ pc[t] \in {"second", "check"} => params.token = None
        /\ pc[t] \in {"hash", "copy", "store"} => cur[t].kind \notin Unsigned
        /\ pc[t] \in {"readurl", "handover"} =>
             params.token = IF cur[t].kind \in Unsigned THEN None ELSE cur[t]

BurstOK == \A t \in Slot!Threads : Held(t)
AloneOK == \A t \in Slot!Threads : Alone(t)

SlotInv == Slot!TypeOK /\ BurstOK /\ AloneOK /\ Slot!AloneIsOwn /\ Slot!MixedOnlyWithinBurst

LEMMA SlotInit == Slot!Init => SlotInv
<1> SUFFICES ASSUME Slot!Init PROVE SlotInv
  OBVIOUS
<1>1. Slot!TypeOK
  BY DEF Slot!Init, Slot!TypeOK, Slot!Steps
<1>2. BurstOK /\ AloneOK
  BY DEF Slot!Init, BurstOK, Held, AloneOK, Alone, UrlSet, ParamsSet, Slot!Steps
<1>3. Slot!AloneIsOwn /\ Slot!MixedOnlyWithinBurst
  BY DEF Slot!Init, Slot!AloneIsOwn, Slot!MixedOnlyWithinBurst
<1> QED BY <1>1, <1>2, <1>3 DEF SlotInv

\* A request of thread t that the object is at rest for, or that joins a burst.
LEMMA StartStep ==
    ASSUME SlotInv, NEW t \in Slot!Threads, NEW r \in Slot!Requests, r.by = t, r.no \in Nat, Slot!Start(t, r)
    PROVE  SlotInv'
<1>1. Slot!TypeOK'
  <2>1. Slot!Fresh(r) \in Slot!Dicts
    BY DEF Slot!Fresh, Slot!Dicts
  <2>2. /\ rquesturl' \in Slot!Requests \cup {None} /\ params' \in Slot!Dicts \cup {None}
    BY <2>1 DEF Slot!Start, Slot!SetUrl, Slot!SetParams, SlotInv, Slot!TypeOK
  <2> QED BY <2>2 DEF Slot!Start, SlotInv, Slot!TypeOK, Slot!Steps
<1>2. /\ pc \in [Slot!Threads -> Slot!Steps] /\ cur \in [Slot!Threads -> Slot!Requests \cup {None}]
      /\ pc'[t] = "second" /\ cur'[t] = r
      /\ \A s \in Slot!Threads : s # t => pc'[s] = pc[s] /\ cur'[s] = cur[s]
      /\ UNCHANGED <<hacstr, dic, url, sent>>
  BY DEF Slot!Start, SlotInv, Slot!TypeOK
<1>3. /\ r \in burst' /\ \A s \in Slot!Threads : s # t /\ pc[s] # "idle" => burst' = burst \cup {r}
  BY DEF Slot!Start, Slot!Busy
<1>4. /\ r.kind \in ParamsFirst => params' = Slot!Fresh(r) /\ rquesturl' = rquesturl
      /\ r.kind \notin ParamsFirst => rquesturl' = r /\ params' = params
  BY DEF Slot!Start, Slot!SetUrl, Slot!SetParams
<1>5. /\ Slot!Fresh(r) \in Slot!Dicts /\ Slot!Fresh(r).of = r /\ Slot!Fresh(r).token = None
  BY DEF Slot!Fresh, Slot!Dicts
<1>6. BurstOK'
  <2> SUFFICES ASSUME NEW s \in Slot!Threads PROVE Held(s)'
    BY DEF BurstOK
  <2>1. CASE s = t
    BY <1>2, <1>3, <1>4, <1>5, <2>1 DEF Held, UrlSet, ParamsSet, OfBurst
  <2>2. CASE s # t /\ pc[s] = "idle"
    BY <1>2, <2>2 DEF Held, UrlSet, ParamsSet
  <2>3. CASE s # t /\ pc[s] # "idle"
    <3>1. burst' = burst \cup {r} /\ pc'[s] = pc[s] /\ cur'[s] = cur[s]
      BY <1>2, <1>3, <2>3
    <3> QED BY <1>2, <1>4, <1>5, <2>3, <3>1 DEF Held, UrlSet, ParamsSet, OfBurst, SlotInv, BurstOK
  <2> QED BY <2>1, <2>2, <2>3
<1>7. AloneOK'
  <2> SUFFICES ASSUME NEW s \in Slot!Threads PROVE Alone(s)'
    BY DEF AloneOK
  <2>1. CASE s = t
    BY <1>2, <1>4, <1>5, <2>1 DEF Alone, ParamsSet
  <2>2. CASE s # t
    BY <1>2, <1>3, <2>2 DEF Alone, SlotInv, BurstOK, Held
  <2> QED BY <2>1, <2>2
<1>8. Slot!AloneIsOwn' /\ Slot!MixedOnlyWithinBurst'
  BY <1>2 DEF SlotInv, Slot!AloneIsOwn, Slot!MixedOnlyWithinBurst
<1> QED BY <1>1, <1>6, <1>7, <1>8 DEF SlotInv


\* A step of a busy thread t: what the others hold stays of the burst, and none
\* of them is alone in it.
LEMMA ThreadFrame ==
    ASSUME SlotInv, NEW t \in Slot!Threads, pc[t] # "idle",
           UNCHANGED <<burst, cur, sent>>,
           \A s \in Slot!Threads : s # t => /\ pc'[s] = pc[s] /\ hacstr'[s] = hacstr[s]
                                       /\ dic'[s] = dic[s] /\ url'[s] = url[s],
           rquesturl' = rquesturl \/ rquesturl' \in burst,
           params' = params \/ OfBurst(params'),
           Slot!TypeOK', Held(t)', Alone(t)'
    PROVE  SlotInv'
<1>1. BurstOK'
  <2> SUFFICES ASSUME NEW s \in Slot!Threads, s # t PROVE Held(s)'
    BY DEF BurstOK
  <2> QED BY DEF Held, UrlSet, ParamsSet, OfBurst, SlotInv, BurstOK
<1>2. AloneOK'
  <2> SUFFICES ASSUME NEW s \in Slot!Threads, s # t PROVE Alone(s)'
    BY DEF AloneOK
  <2> QED BY DEF Alone, SlotInv, BurstOK, Held
<1>3. Slot!AloneIsOwn' /\ Slot!MixedOnlyWithinBurst'
  BY DEF SlotInv, Slot!AloneIsOwn, Slot!MixedOnlyWithinBurst
<1> QED BY <1>1, <1>2, <1>3 DEF SlotInv

\* The statements of a request, up to the one that reads the url.
LEMMA ReadStep ==
    ASSUME SlotInv, NEW t \in Slot!Threads,
           \/ Slot!Second(t) \/ Slot!CheckUrl(t) \/ Slot!HashParams(t)
           \/ Slot!CopyParams(t) \/ Slot!StoreParams(t) \/ Slot!ReadUrl(t)
    PROVE  SlotInv'
<1>1. Slot!TypeOK /\ Held(t) /\ Alone(t) /\ pc[t] # "idle"
  BY DEF SlotInv, BurstOK, AloneOK, Slot!Second, Slot!CheckUrl, Slot!HashParams, Slot!CopyParams, Slot!StoreParams, Slot!ReadUrl
<1>2. cur[t] \in Slot!Requests /\ cur[t] \in burst /\ cur[t].by = t
  BY <1>1 DEF Held, Slot!TypeOK
<1>3. CASE Slot!Second(t)
  <2>1. /\ pc' = [pc EXCEPT ![t] = "check"] /\ pc[t] = "second"
        /\ UNCHANGED <<up, networkError, cur, made, hacstr, dic, url, sent, burst>>
    BY <1>3 DEF Slot!Second
  <2>2. \/ cur[t].kind \in ParamsFirst /\ rquesturl' = cur[t] /\ params' = params
        \/ cur[t].kind \notin ParamsFirst /\ params' = Slot!Fresh(cur[t]) /\ rquesturl' = rquesturl
    BY <1>3 DEF Slot!Second, Slot!SetUrl, Slot!SetParams
  <2>3. /\ Slot!Fresh(cur[t]) \in Slot!Dicts /\ Slot!Fresh(cur[t]).of = cur[t] /\ Slot!Fresh(cur[t]).token = None
    BY <1>2 DEF Slot!Fresh, Slot!Dicts
  <2>4. Slot!TypeOK'
    BY <1>1, <1>2, <2>1, <2>2, <2>3 DEF Slot!TypeOK, Slot!Steps
  <2>5. pc'[t] = "check" /\ \A s \in Slot!Threads : s # t => pc'[s] = pc[s]
    BY <1>1, <2>1 DEF Slot!TypeOK
  <2>6. OfBurst(params') /\ rquesturl' \in burst
    BY <1>1, <1>2, <2>1, <2>2, <2>3 DEF Held, UrlSet, ParamsSet, OfBurst
  <2>7. params'.token = None \/ burst # {cur[t]}
    BY <1>1, <2>1, <2>2, <2>3 DEF Alone, ParamsSet
  <2>8. Held(t)'
    BY <1>1, <1>2, <2>1, <2>5, <2>6 DEF Held, UrlSet, ParamsSet, OfBurst
  <2>9. Alone(t)'
    BY <2>1, <2>5, <2>7 DEF Alone
  <2> QED BY <1>1, <2>1, <2>4, <2>5, <2>6, <2>8, <2>9, ThreadFrame
<1>4. CASE Slot!CheckUrl(t)
  <2>1. PICK s \in {"readurl", "hash"} :
          /\ s = "readurl" <=> rquesturl.kind \in Unsigned
          /\ pc' = [pc EXCEPT ![t] = s] /\ pc[t] = "check"
          /\ UNCHANGED <<up, networkError, rquesturl, params, cur, made, hacstr, dic, url, sent, burst>>
    BY <1>4 DEF Slot!CheckUrl
  <2>2. Slot!TypeOK'
    BY <1>1, <2>1 DEF Slot!TypeOK, Slot!Steps
  <2>3. pc'[t] = s /\ \A v \in Slot!Threads : v # t => pc'[v] = pc[v]
    BY <1>1, <2>1 DEF Slot!TypeOK
  <2>4. Held(t)'
    BY <1>1, <2>1, <2>3 DEF Held, UrlSet, ParamsSet, OfBurst, Slot!Steps
  <2>5. Alone(t)'
    <3>1. burst = {cur[t]} => rquesturl = cur[t]
      BY <1>1, <2>1 DEF Held, UrlSet, Slot!Steps
    <3>2. burst = {cur[t]} => params.token = None
      BY <1>1, <2>1 DEF Alone, ParamsSet, Slot!Steps
    <3> QED BY <2>1, <2>3, <3>1, <3>2 DEF Alone
  <2> QED BY <1>1, <2>1, <2>2, <2>3, <2>4, <2>5, ThreadFrame
<1>5. CASE Slot!HashParams(t)
  <2>1. /\ pc' = [pc EXCEPT ![t] = "copy"] /\ hacstr' = [hacstr EXCEPT ![t] = params.of]
        /\ pc[t] = "hash"
        /\ UNCHANGED <<up, networkError, rquesturl, params, cur, made, dic, url, sent, burst>>
    BY <1>5 DEF Slot!HashParams
  <2>2. params \in Slot!Dicts /\ params.of \in Slot!Requests /\ params.of \in burst
    BY <1>1, <2>1 DEF Held, ParamsSet, OfBurst, Slot!Dicts, Slot!Steps
  <2>3. Slot!TypeOK'
    BY <1>1, <2>1, <2>2 DEF Slot!TypeOK, Slot!Steps
  <2>4. /\ pc'[t] = "copy" /\ hacstr'[t] = params.of
        /\ \A v \in Slot!Threads : v # t => pc'[v] = pc[v] /\ hacstr'[v] = hacstr[v]
    BY <1>1, <2>1 DEF Slot!TypeOK
  <2>5. Held(t)' /\ Alone(t)'
    BY <1>1, <2>1, <2>2, <2>4 DEF Held, Alone, UrlSet, ParamsSet, OfBurst, Slot!Steps
  <2> QED BY <1>1, <2>1, <2>3, <2>4, <2>5, ThreadFrame
<1>6. CASE Slot!CopyParams(t)
  <2> DEFINE d == [params EXCEPT !.token = hacstr[t]]
  <2>1. /\ pc' = [pc EXCEPT ![t] = "store"] /\ dic' = [dic EXCEPT ![t] = d]
        /\ pc[t] = "copy"
        /\ UNCHANGED <<up, networkError, rquesturl, params, cur, made, hacstr, url, sent, burst>>
    BY <1>6 DEF Slot!CopyParams
  <2>2. params \in Slot!Dicts /\ params.of \in burst /\ hacstr[t] \in burst /\ hacstr[t] \in Slot!Requests
    BY <1>1, <2>1 DEF Held, ParamsSet, OfBurst, Slot!Steps, Slot!TypeOK
  <2>3. d \in Slot!Dicts /\ d.of = params.of /\ d.token = hacstr[t]
    BY <2>2 DEF Slot!Dicts
  <2> HIDE DEF d
  <2>4. Slot!TypeOK'
    BY <1>1, <2>1, <2>3 DEF Slot!TypeOK, Slot!Steps
  <2>5. /\ pc'[t] = "store" /\ dic'[t] = d
        /\ \A v \in Slot!Threads : v # t => pc'[v] = pc[v] /\ dic'[v] = dic[v]
    BY <1>1, <2>1 DEF Slot!TypeOK
  <2>6. Held(t)' /\ Alone(t)'
    BY <1>1, <2>1, <2>2, <2>3, <2>5 DEF Held, Alone, UrlSet, ParamsSet, OfBurst, Slot!Steps
  <2> QED BY <1>1, <2>1, <2>4, <2>5, <2>6, ThreadFrame
<1>7. CASE Slot!StoreParams(t)
  <2>1. /\ pc' = [pc EXCEPT ![t] = "readurl"] /\ params' = dic[t] /\ pc[t] = "store"
        /\ UNCHANGED <<up, networkError, rquesturl, cur, made, hacstr, dic, url, sent, burst>>
    BY <1>7 DEF Slot!StoreParams
  <2>2. OfBurst(dic[t]) /\ dic[t].token = hacstr[t] /\ hacstr[t] \in burst
    BY <1>1, <2>1 DEF Held
  <2>3. Slot!TypeOK'
    BY <1>1, <2>1, <2>2 DEF Slot!TypeOK, Slot!Steps, OfBurst
  <2>4. pc'[t] = "readurl" /\ \A v \in Slot!Threads : v # t => pc'[v] = pc[v]
    BY <1>1, <2>1 DEF Slot!TypeOK
  <2>5. Held(t)'
    BY <1>1, <2>1, <2>2, <2>4 DEF Held, UrlSet, ParamsSet, OfBurst, Slot!Steps
  <2>6. Alone(t)'
    BY <1>1, <2>1, <2>2, <2>4 DEF Alone
  <2> QED BY <1>1, <2>1, <2>2, <2>3, <2>4, <2>5, <2>6, ThreadFrame
<1>8. CASE Slot!ReadUrl(t)
  <2>1. /\ pc' = [pc EXCEPT ![t] = "handover"] /\ url' = [url EXCEPT ![t] = rquesturl]
        /\ pc[t] = "readurl"
        /\ UNCHANGED <<up, networkError, rquesturl, params, cur, made, hacstr, dic, sent, burst>>
    BY <1>8 DEF Slot!ReadUrl
  <2>2. Slot!TypeOK'
    BY <1>1, <2>1 DEF Slot!TypeOK, Slot!Steps
  <2>3. /\ pc'[t] = "handover" /\ url'[t] = rquesturl
        /\ \A v \in Slot!Threads : v # t => pc'[v] = pc[v] /\ url'[v] = url[v]
    BY <1>1, <2>1 DEF Slot!TypeOK
  <2>4. Held(t)' /\ Alone(t)'
    BY <1>1, <2>1, <2>3 DEF Held, Alone, UrlSet, ParamsSet, OfBurst, Slot!Steps
  <2> QED BY <1>1, <2>1, <2>2, <2>3, <2>4, ThreadFrame
<1> QED BY <1>3, <1>4, <1>5, <1>6, <1>7, <1>8

\* The request goes to the network, or the failure block runs, and the thread is
\* free again.
LEMMA EndStep ==
    ASSUME SlotInv, NEW t \in Slot!Threads, Slot!HandOver(t) \/ Slot!Refused(t)
    PROVE  SlotInv'
<1> DEFINE m == [req |-> cur[t], url |-> url[t], params |-> params, burst |-> burst]
<1>1. Slot!TypeOK /\ Held(t) /\ Alone(t) /\ pc[t] = "handover" /\ Slot!Return(t)
  BY DEF SlotInv, BurstOK, AloneOK, Slot!HandOver, Slot!Refused
<1>2. sent' = {m} \/ sent' = sent
  BY DEF Slot!HandOver, Slot!Refused
<1>3. /\ cur[t] \in Slot!Requests /\ cur[t] \in burst /\ url[t] \in burst /\ url[t] \in Slot!Requests
      /\ params \in Slot!Dicts /\ params.of \in burst /\ params.token \in burst \cup {None}
      /\ burst \subseteq Slot!Requests
  BY <1>1 DEF Held, Slot!TypeOK, ParamsSet, OfBurst, Slot!Steps
<1>4. m \in [req : Slot!Requests, url : Slot!Requests, params : Slot!Dicts, burst : SUBSET Slot!Requests]
  BY <1>3
<1>5. Slot!TypeOK'
  BY <1>1, <1>2, <1>4 DEF Slot!Return, Slot!TypeOK, Slot!Steps
<1>6. /\ pc'[t] = "idle" /\ UNCHANGED <<rquesturl, params, burst>>
      /\ \A s \in Slot!Threads : s # t => /\ pc'[s] = pc[s] /\ cur'[s] = cur[s] /\ dic'[s] = dic[s]
                                     /\ hacstr'[s] = hacstr[s] /\ url'[s] = url[s]
  BY <1>1 DEF Slot!Return, Slot!TypeOK
<1>7. BurstOK'
  <2> SUFFICES ASSUME NEW s \in Slot!Threads PROVE Held(s)'
    BY DEF BurstOK
  <2>1. CASE s = t
    BY <1>6, <2>1 DEF Held, UrlSet, ParamsSet
  <2>2. CASE s # t
    BY <1>6, <2>2 DEF Held, UrlSet, ParamsSet, OfBurst, SlotInv, BurstOK
  <2> QED BY <2>1, <2>2
<1>8. AloneOK'
  <2> SUFFICES ASSUME NEW s \in Slot!Threads PROVE Alone(s)'
    BY DEF AloneOK
  <2>1. CASE s = t
    BY <1>6, <2>1 DEF Alone
  <2>2. CASE s # t
    BY <1>6, <2>2 DEF Alone, ParamsSet, SlotInv, AloneOK
  <2> QED BY <2>1, <2>2
<1>9. Slot!MixedOnlyWithinBurst'
  BY <1>2, <1>3 DEF SlotInv, Slot!MixedOnlyWithinBurst
<1>10. Slot!AloneIsOwn'
  <2>1. burst = {cur[t]} =>
          /\ url[t] = cur[t] /\ params.of = cur[t]
          /\ params.token = IF cur[t].kind \in Unsigned THEN None ELSE cur[t]
    BY <1>1, <1>3 DEF Alone
  <2> QED BY <1>2, <2>1 DEF SlotInv, Slot!AloneIsOwn
<1> QED BY <1>5, <1>7, <1>8, <1>9, <1>10 DEF SlotInv

\* The network changes, the process dies, or nothing happens.
LEMMA OtherStep ==
    ASSUME SlotInv, Slot!StatusChange \/ Slot!RaceCrash \/ UNCHANGED Slot!vars
    PROVE  SlotInv'
<1>1. UNCHANGED <<rquesturl, params, pc, cur, made, hacstr, dic, url, sent, burst>>
  BY DEF Slot!StatusChange, Slot!RaceCrash, Slot!vars
<1>2. up' \in BOOLEAN /\ networkError' \in BOOLEAN
  BY DEF Slot!StatusChange, Slot!RaceCrash, Slot!vars, SlotInv, Slot!TypeOK
<1>3. Slot!TypeOK'
  BY <1>1, <1>2 DEF SlotInv, Slot!TypeOK
<1>4. BurstOK' /\ AloneOK'
  BY <1>1 DEF SlotInv, BurstOK, AloneOK, Held, Alone, UrlSet, ParamsSet, OfBurst
<1>5. Slot!AloneIsOwn' /\ Slot!MixedOnlyWithinBurst'
  BY <1>1 DEF SlotInv, Slot!AloneIsOwn, Slot!MixedOnlyWithinBurst
<1> QED BY <1>3, <1>4, <1>5 DEF SlotInv

LEMMA SlotStep ==
    ASSUME SlotInv, [Slot!Next]_(Slot!vars)
    PROVE  SlotInv'
<1>1. made \in [Slot!Threads -> Nat] /\ Main \in Slot!Threads /\ Blocks \subseteq Slot!Threads
  BY DEF SlotInv, Slot!TypeOK, Slot!Threads
<1>2. ASSUME NEW k \in Kinds, Slot!StartPage(k) PROVE SlotInv'
  <2> DEFINE r == [by |-> Main, no |-> made[Main] + 1, kind |-> k]
  <2>1. made[Main] + 1 \in 1..MaxMain
    BY MaxMainAssumption, <1>1, <1>2 DEF Slot!StartPage
  <2>2. r \in Slot!Requests /\ r.by = Main /\ r.no \in Nat
    BY <2>1 DEF Slot!Requests
  <2>3. Slot!Start(Main, r)
    BY <1>2 DEF Slot!StartPage
  <2> QED BY <1>1, <2>2, <2>3, StartStep
<1>3. ASSUME NEW b \in Blocks, Slot!StartRefresh(b) PROVE SlotInv'
  <2> DEFINE r == [by |-> b, no |-> made[b] + 1, kind |-> Slot!List(made[b] + 1)]
  <2>1. made[b] + 1 \in 1..2
    BY <1>1, <1>3 DEF Slot!StartRefresh
  <2>2. r \in Slot!Requests /\ r.by = b /\ r.no \in Nat
    BY <2>1 DEF Slot!Requests
  <2>3. Slot!Start(b, r)
    BY <1>3 DEF Slot!StartRefresh
  <2> QED BY <1>1, <2>2, <2>3, StartStep
<1> QED BY <1>2, <1>3, ReadStep, EndStep, OtherStep DEF Slot!Next

\* RequestIsOwn holds throughout, however the threads interleave on the one shared object.
THEOREM RequestsAreOwn == Spec => []RequestIsOwn
<1>1. Init => SlotInv
  BY SlotInit DEF Init
<1>2. SlotInv /\ [Next]_vars => SlotInv'
  <2> SUFFICES ASSUME SlotInv, [Next]_vars PROVE SlotInv'
    OBVIOUS
  <2>1. Slot!Next \/ UNCHANGED slot
    BY Zenon DEF Next, vars, LoginSteps, SlotSteps, UploadSteps, ListSteps, OwlSteps
  <2>2. [Slot!Next]_(Slot!vars)
    BY <2>1 DEF slot, Slot!vars
  <2> QED BY <2>2, SlotStep
<1>3. SlotInv => RequestIsOwn
  BY DEF SlotInv, RequestIsOwn
<1> QED BY <1>1, <1>2, <1>3, PTL DEF Spec

-----------------------------------------------------------------------------
(* Proofs about the login page                                             *)

\* LoginIsTrue holds throughout: the page of the subject keeps the inductive invariant of
\* WebLogin, from which its clicks get what they may do.
THEOREM LoginsAreTrue == Spec => LoginIsTrue
<1> DEFINE Inv == IF subject = "submits" THEN Submits!LoginInv ELSE Login!LoginInv
<1>1. Init => Inv
  BY Submits!LoginInit, Login!LoginInit DEF Init
<1>2. ASSUME Inv, [Next]_vars
      PROVE  /\ subject' = subject
             /\ subject # "submits" => [Login!Next]_(Login!vars)
             /\ subject = "submits" => [Submits!Next]_(Submits!vars)
  <2>1. CASE LoginSteps
    BY <2>1 DEF LoginSteps
  <2>2. CASE UNCHANGED <<subject, login>>
    BY <2>2 DEF login, Login!vars, Submits!vars
  <2>3. LoginSteps \/ UNCHANGED <<subject, login>>
    BY <1>2, Zenon DEF Next, vars, SlotSteps, UploadSteps, ListSteps, OwlSteps
  <2> QED BY <2>1, <2>2, <2>3
<1>3. Inv /\ [Next]_vars => Inv'
  BY <1>2, Submits!LoginStep, Login!LoginStep
<1>4. Inv => (subject # "submits" => Login!TypeOK) /\ Login!OptionFits
  BY DEF Submits!LoginInv, Login!LoginInv, Submits!OptionFits, Login!OptionFits
<1>5. Inv /\ [Next]_vars => [nsub' - nsub <= 1]_(Submits!vars)
  BY <1>2, Submits!ClicksOK, Login!ClicksOK
<1>6. Inv /\ [Next]_vars => [subject = "login" => Login!CountdownBlocks]_login
  BY <1>2, Login!ClicksOK
<1> HIDE DEF Inv
<1> QED BY <1>1, <1>3, <1>4, <1>5, <1>6, PTL DEF Spec, LoginIsTrue, Submits!OneSubmitPerClick

=============================================================================
