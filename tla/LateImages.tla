----------------------------- MODULE LateImages -----------------------------
(* Images that come into the editor before they are on its server            *)
(* (ueditor.all.js: paste, autoupload, simpleupload, catchremoteimage).      *)
(* A pasted, dropped or picked file is a placeholder until its upload is     *)
(* answered; pasted images of other sites are fetched by the server and      *)
(* replaced.  Meanwhile the user cuts images, undoes and redoes.  Only the   *)
(* images of the document are modelled.                                      *)
EXTENDS Integers, Sequences, FiniteSets, SequencesExt

CONSTANTS Files,      \* files the user has
          Images,     \* those of type image
          Allowed,    \* those whose size and type the configuration allows
          Remotes,    \* images of other sites
          Pastes,     \* the sequences of them the clipboard may hold
          MaxImages,  \* bound on the images of the document
          MaxCatches, \* bound on the requests to fetch images
          MaxScenes   \* maxUndoCount

VARIABLES
    doc,      \* the images in document order, those in the paste bin last
    pasting,  \* the paste bin exists, its timer runs
    um,       \* the undo manager
    up,       \* the upload of each file
    form,     \* simpleupload: its callbacks for the load of the frame, the file submitted last
    catches,  \* the requests of catchremoteimage
    tick,     \* the last id that was made of the time
    history   \* what has happened: "undone", "sameTick", "overtaken"
vars == <<doc, pasting, um, up, form, catches, tick, history>>

None == "none"
(* pic is what the user meant, "of" what is shown; asked: the requests that hold the node *)
Placeholder(f, id, inBin) == [pic |-> f, id |-> id, at |-> "spinner", of |-> None, bin |-> inBin, asked |-> {}]
RemoteImage(r) == [pic |-> r, id |-> 0, at |-> "remote", of |-> r, bin |-> TRUE, asked |-> {}]

NoUpload == [state |-> None, id |-> 0, byForm |-> FALSE, told |-> 0]

(* Scenes are html: they know nothing of the nodes *)
U == INSTANCE EditorUndo WITH
        Contents <- {}, Places <- {}, Spans <- {}, maxUndoCount <- MaxScenes, maxInputCount <- 1, MaxPolls <- 0,
        body <- doc, sel <- 0, keycont <- 0, timer <- FALSE, polls <- 0, inputType <- FALSE,
        isCollapsed <- TRUE, loose <- 0
Scene(d, bin) == [content |-> <<bin, [i \in DOMAIN d |-> [d[i] EXCEPT !.asked = {}]]>>, address |-> 0]

Init ==
    /\ doc = <<>> /\ pasting = FALSE
    /\ um = U!Save(U!EmptyManager, Scene(<<>>, FALSE), TRUE)
    /\ up = [f \in Files |-> NoUpload]
    /\ form = [callbacks |-> <<>>, frame |-> None]
    /\ catches = <<>> /\ tick = 0 /\ history = {}

----------------------------------------------------------------------------
(* The editor as the handlers see it: [doc, um, up, bin] *)
Ed == [doc |-> doc, um |-> um, up |-> up, bin |-> pasting]
SetEd(s) == doc' = s.doc /\ um' = s.um /\ up' = s.up /\ pasting' = s.bin
Saved(s) == [s EXCEPT !.um = U!Save(@, Scene(s.doc, s.bin), TRUE)]

Visible(d) == SelectSeq(d, LAMBDA x : ~x.bin)
InBin(d) == SelectSeq(d, LAMBDA x : x.bin)
(* The cursor: behind image k of the document, or in the bin *)
Cursors == 0 .. Len(Visible(doc))

(* execCommand('inserthtml') saves a scene before and after it *)
InsertHtml(s, imgs, k) ==
    Saved([Saved(s) EXCEPT !.doc = SubSeq(@, 1, k) \o imgs \o SubSeq(@, k + 1, Len(@))])

(* getElementById of the placeholder *)
LoaderAny(d, id) ==
    LET found == {i \in DOMAIN d : d[i].at = "spinner"}
    IN  IF found = {} THEN 0 ELSE CHOOSE i \in found : \A j \in found : i <= j
Loader(d, id) ==
    LET found == {i \in DOMAIN d : d[i].id = id}
    IN  IF found = {} THEN 0 ELSE CHOOSE i \in found : \A j \in found : i <= j

ErrorHandler(s, f, id) ==
    LET i == Loader(s.doc, id)
    IN  [s EXCEPT !.doc = IF i = 0 THEN @ ELSE RemoveAt(@, i),
                  !.up[f] = [@ EXCEPT !.state = "over", !.told = @ + 1]]
(* The link of file g is put into the placeholder of f *)
ShowLink(s, f, id, g) ==
    LET i == Loader(s.doc, id)
    IN  [s EXCEPT !.doc = IF i = 0 THEN @ ELSE [@ EXCEPT ![i] = [@ EXCEPT !.id = 0, !.at = "local", !.of = g]],
                  !.up[f] = [@ EXCEPT !.state = "over"]]

(* A named file that is not an image is refused whatever its type *)
Refused(f) == f \notin Images \/ f \notin Allowed
SendAndInsertFile(s, f, id, k) ==
    LET t == InsertHtml(s, <<Placeholder(f, id, s.bin)>>, k)
    IN  IF Refused(f) THEN ErrorHandler(t, f, id) ELSE [t EXCEPT !.up[f] = [@ EXCEPT !.state = "sent", !.id = id]]

Fresh(f) == up[f].state = None /\ Len(doc) < MaxImages

(* Paste of a file: the paste bin is made first and takes the placeholder *)
PasteFile(f) ==
    /\ ~pasting /\ Fresh(f) /\ f \in Images /\ Len(catches) < MaxCatches
    /\ SetEd(SendAndInsertFile([Ed EXCEPT !.bin = TRUE], f, tick + 1, Len(doc)))
    /\ tick' = tick + 1 /\ UNCHANGED <<form, catches, history>>
(* The browser puts what is pasted into the bin *)
PasteImages(rs) ==
    /\ ~pasting /\ Len(doc) + Len(rs) <= MaxImages /\ Len(catches) < MaxCatches
    /\ pasting' = TRUE /\ doc' = doc \o [i \in DOMAIN rs |-> RemoteImage(rs[i])]
    /\ UNCHANGED <<um, up, form, catches, tick, history>>

DropFile(f) ==
    /\ ~pasting /\ Fresh(f)
    /\ \E k \in Cursors : SetEd(SendAndInsertFile(Ed, f, tick + 1, k))
    /\ tick' = tick + 1 /\ UNCHANGED <<form, catches, history>>
(* Two files in one drop, the last one first; the same millisecond gives the same id *)
DropFiles(f, g) ==
    /\ ~pasting /\ f # g /\ Fresh(f) /\ up[g].state = None /\ Len(doc) + 1 < MaxImages
    /\ \E k \in Cursors, same \in BOOLEAN :
        LET n == tick + 1
            s == SendAndInsertFile(Ed, g, n, k)
            m == IF same THEN n ELSE n + 1
            cursor == IF Refused(g) THEN k ELSE k + 1
        IN  /\ SetEd(SendAndInsertFile(s, f, m, cursor))
            /\ tick' = m /\ history' = history \cup IF same THEN {"sameTick"} ELSE {}
    /\ UNCHANGED <<form, catches>>

(* The answer of the server to an upload by XMLHttpRequest *)
Answer(f, ok) ==
    /\ up[f].state = "sent" /\ ~up[f].byForm
    /\ SetEd(IF ok THEN ShowLink(Ed, f, up[f].id, f) ELSE ErrorHandler(Ed, f, up[f].id))
    /\ UNCHANGED <<form, catches, tick, history>>
(* The network fails: only load is listened for *)
Lost(f) ==
    /\ up[f].state = "sent" /\ ~up[f].byForm
    /\ up' = [up EXCEPT ![f].state = "lost"]
    /\ UNCHANGED <<doc, pasting, um, form, catches, tick, history>>

----------------------------------------------------------------------------
(* simpleupload: the form is submitted into one frame, which gives up what it loads *)
Change(f) ==
    /\ ~pasting /\ Fresh(f)
    /\ \E k \in Cursors :
        LET s == InsertHtml(Ed, <<Placeholder(f, tick + 1, FALSE)>>, k)
        IN  IF f \notin Allowed
            THEN SetEd(ErrorHandler(s, f, tick + 1)) /\ UNCHANGED <<form, history>>
            ELSE /\ SetEd([s EXCEPT !.up[f] = [@ EXCEPT !.state = "sent", !.id = tick + 1, !.byForm = TRUE]])
                 /\ form' = [callbacks |-> Append(form.callbacks, f), frame |-> f]
                 /\ history' = history \cup IF form.callbacks = <<>> THEN {} ELSE {"overtaken"}
    /\ tick' = tick + 1 /\ UNCHANGED catches

(* The frame has loaded an answer: each callback reads it; without its placeholder it throws *)
Callback(s, f, ok) ==
    IF ok /\ Loader(s.doc, s.up[f].id) # 0 THEN ShowLink(s, f, s.up[f].id, form.frame)
    ELSE ErrorHandler(s, f, s.up[f].id)
FrameLoads(ok) ==
    /\ form.callbacks # <<>>
    /\ SetEd(FoldLeft(LAMBDA s, f : Callback(s, f, ok), Ed, form.callbacks))
    /\ form' = [callbacks |-> <<>>, frame |-> None]
    /\ UNCHANGED <<catches, tick, history>>

----------------------------------------------------------------------------
(* catchremoteimage: every image node of the document is kept with the request *)
Catch(s) ==
    LET n == Len(catches) + 1
        srcs == {s.doc[i].of : i \in {i \in DOMAIN s.doc : s.doc[i].at = "remote"}}
    IN  IF srcs = {} THEN SetEd(s) /\ UNCHANGED catches
        ELSE /\ SetEd([s EXCEPT !.doc = [i \in DOMAIN s.doc |-> [s.doc[i] EXCEPT !.asked = @ \cup {n}]]])
             /\ catches' = Append(catches, [srcs |-> srcs, state |-> "sent", good |-> {}])

(* The timer of the bin takes what is in it to the cursor; then afterpaste *)
PasteTimer ==
    /\ pasting
    /\ \E k \in Cursors :
        LET imgs == [i \in DOMAIN InBin(doc) |-> [InBin(doc)[i] EXCEPT !.bin = FALSE, !.asked = {}]]
            s == [Ed EXCEPT !.doc = Visible(doc), !.bin = FALSE]
        IN  IF imgs = <<>> THEN SetEd(s) /\ UNCHANGED catches ELSE Catch(InsertHtml(s, imgs, k))
    /\ UNCHANGED <<form, tick, history>>

Replaced(n, good) ==
    [i \in DOMAIN doc |->
        IF n \in doc[i].asked /\ doc[i].at = "remote" /\ doc[i].of \in good
        THEN [doc[i] EXCEPT !.at = "local"] ELSE doc[i]]
CatchAnswer(n) ==
    /\ catches[n].state = "sent"
    /\ \E good \in SUBSET catches[n].srcs :
        /\ doc' = Replaced(n, good)
        /\ catches' = [catches EXCEPT ![n].state = "over", ![n].good = good]
    /\ UNCHANGED <<pasting, um, up, form, tick, history>>
CatchFails(n) ==
    /\ catches[n].state = "sent"
    /\ catches' = [catches EXCEPT ![n].state = "failed"]
    /\ UNCHANGED <<doc, pasting, um, up, form, tick, history>>

----------------------------------------------------------------------------
(* The user cuts an image: a scene is saved before it *)
Cut(i) ==
    /\ ~pasting
    /\ um' = Saved(Ed).um /\ doc' = RemoveAt(doc, i)
    /\ UNCHANGED <<pasting, up, form, catches, tick, history>>
(* restore builds the body anew; a paste bin in the scene becomes a paragraph *)
Restore(u) ==
    LET d == U!At(u, u.index).content[2]
    IN  /\ um' = u /\ doc' = [i \in DOMAIN d |-> [d[i] EXCEPT !.bin = FALSE]]
        /\ history' = history \cup {"undone"}
        /\ UNCHANGED <<pasting, up, form, catches, tick>>
Undo == ~pasting /\ um.hasUndo /\ Restore(U!UndoOf(um))
Redo == ~pasting /\ um.hasRedo /\ Restore(U!RedoOf(um))

Answers == \/ \E f \in Files, ok \in BOOLEAN : Answer(f, ok)
           \/ \E ok \in BOOLEAN : FrameLoads(ok)
Next == \/ \E f \in Files : PasteFile(f) \/ DropFile(f) \/ Change(f) \/ Lost(f)
        \/ \E f, g \in Files : DropFiles(f, g)
        \/ \E rs \in Pastes : PasteImages(rs)
        \/ Answers \/ PasteTimer
        \/ \E n \in DOMAIN catches : CatchAnswer(n) \/ CatchFails(n)
        \/ \E i \in DOMAIN doc : Cut(i)
        \/ Undo \/ Redo
(* Each upload is answered or its connection is lost; the frame loads its answer or an error page *)
Fairness ==
    /\ \A f \in Files : WF_vars((\E ok \in BOOLEAN : Answer(f, ok)) \/ Lost(f))
    /\ WF_vars(\E ok \in BOOLEAN : FrameLoads(ok))
Spec == Init /\ [][Next]_vars /\ Fairness

----------------------------------------------------------------------------
(* The state has its type. *)
TypeOK ==
    /\ \A i \in DOMAIN doc : /\ doc[i].pic \in Files \cup Remotes /\ doc[i].id \in 0..tick
                             /\ doc[i].at \in {"spinner", "remote", "local"}
                             /\ doc[i].of \in Files \cup Remotes \cup {None}
                             /\ doc[i].bin => pasting
    /\ \A f \in Files : up[f].state \in {None, "sent", "lost", "over"} /\ up[f].told \in 0..1
    /\ Len(um.list) \in 1..MaxScenes

(* However uploads, fetches, cuts and undo cross, an image shows what the user *)
(* has put there.  Excepted: two files dropped in one millisecond, which get   *)
(* one id, and a file picked while the form is still waiting for another.      *)
ShowsOwnPicture ==
    history \cap {"sameTick", "overtaken"} = {} =>
        \A i \in DOMAIN doc : doc[i].at # "spinner" => doc[i].of = doc[i].pic

(* A placeholder is shown only while its upload is under way or its connection *)
(* was lost, of which nobody is told.  Excepted: undo and redo, which bring    *)
(* back placeholders that were answered.                                       *)
SpinnersTurn ==
    "undone" \notin history =>
        \A i \in DOMAIN doc : doc[i].at = "spinner" =>
            \E f \in Files : up[f].id = doc[i].id /\ up[f].state \in {"sent", "lost"}

(* When the server has fetched an image every copy of it that was in the       *)
(* document at the request, and still is, is replaced; whatever was moved,     *)
(* answered or asked for again meanwhile.                                      *)
CaughtAreLocal ==
    \A i \in DOMAIN doc : \A n \in doc[i].asked :
        catches[n].state = "over" /\ doc[i].of \in catches[n].good => doc[i].at = "local"

(* No placeholder stays for ever, unless its connection was lost or it was     *)
(* brought back by undo or redo.                                               *)
SpinnerEnds ==
    \A f \in Files :
        (up[f].state = "sent") ~> (\/ "undone" \in history
                                   \/ \E g \in Files : up[g].id = up[f].id /\ up[g].state = "lost"
                                   \/ ~\E i \in DOMAIN doc : doc[i].at = "spinner" /\ doc[i].id = up[f].id)
=============================================================================
