---------------------------- MODULE UploadQueue ----------------------------
(***************************************************************************)
(* The upload tab of the editor's image, attachment and video dialogs: the *)
(* list of chosen files the dialog keeps, and the parts of WebUploader     *)
(* (queue, upload loop, validators) it is driven by.  The three dialogs    *)
(* hold three copies of this code: image.js is the one mapped first, and   *)
(* the other two follow with what they do otherwise.                       *)
(*                                                                         *)
(* Names, sizes and thumbnails are left out: a file is of one of the four  *)
(* kinds the code tells apart.  WebUploader defers its steps with timers   *)
(* of one length, which fire in the order they were set; two adjacent      *)
(* ticks do what one does, since a tick that starts a file sets another.   *)
(***************************************************************************)
EXTENDS Integers, Sequences, FiniteSets, SequencesExt

CONSTANTS Files,       \* the files the user may choose, each once
          Kind,        \* "good", "other" (extension not allowed), "large", "tiny"
          Threads,     \* WebUploader's option threads
          Accepts,     \* the uploader is created with the option accept
          Compresses,  \* the uploader is created with the option compress
          None

VARIABLES
    status,     \* of each file, "none" while it is not chosen
    queue,      \* WebUploader's queue, in the order of choice
    running,    \* runing
    trigged,    \* _trigged
    timers,     \* deferred steps: "tick" and "finished"
    preparing,  \* the file of _promise: being compressed and handed over
    pool,       \* the files being sent
    state,      \* of the dialog
    disabled,   \* the upload button has the class disabled
    fileCount,
    shown,      \* the files with an entry (li) on the page
    panel,      \* the entries that still have their buttons
    percentages,\* the files with a progress record
    stored,     \* imageList: the files the server said SUCCESS to, in that order
    late,       \* history: a file was chosen while the loop was winding up
    closed      \* the dialog was closed with OK

uploader == <<status, queue, running, trigged, timers, preparing, pool>>
dialog   == <<state, disabled, fileCount, shown, panel, percentages, stored, late, closed>>
vars     == <<uploader, dialog>>

Statuses == {"none", "inited", "invalid", "queued", "progress", "complete", "error", "cancelled"}

Init ==
    /\ status = [f \in Files |-> "none"]
    /\ queue = <<>> /\ running = FALSE /\ trigged = FALSE /\ timers = <<>>
    /\ preparing = None /\ pool = {}
    /\ state = "pedding" /\ disabled = TRUE /\ fileCount = 0
    /\ shown = {} /\ panel = {} /\ percentages = {} /\ stored = <<>>
    /\ late = FALSE /\ closed = FALSE

-----------------------------------------------------------------------------
(* WebUploader's queue.                                                    *)

With(st, s) == {f \in Files : st[f] = s}

NextTick(ts, t) == IF ts # <<>> /\ Last(ts) = t /\ t = "tick" THEN ts ELSE Append(ts, t)

\* The first file of the queue that waits, or None.
Fetch ==
    LET waiting == SelectSeq(queue, LAMBDA f : status[f] = "queued")
    IN  IF waiting = <<>> THEN None ELSE Head(waiting)

-----------------------------------------------------------------------------
(* The dialog's state.                                                     *)

getQueueCount(st) == Cardinality(With(st, "queued") \cup With(st, "progress"))

\* confirm moves on to finish when something was sent and nothing failed; the
\* button is refreshed also when the state stays.
setState(val, st) ==
    /\ state' = IF val = "confirm" /\ With(st, "complete") # {} /\ With(st, "error") = {}
                THEN "finish" ELSE val
    /\ disabled' = (getQueueCount(st) = 0)

filesQueued(st) ==
    IF ~running /\ state \in {"pedding", "finish", "confirm", "ready"}
    THEN setState("ready", st)
    ELSE UNCHANGED <<state, disabled>>

\* The file has no place in the queue: too large, of a type the uploader was told
\* to refuse, or too short.
Refused(f) == Kind[f] \in {"large", "tiny"} \/ (Accepts /\ Kind[f] = "other")

\* addFile at the end of fileQueued, or of the event error: the entry is shown in
\* any case; a file whose extension is not allowed is removed again, which counts
\* it as dequeued whether it was in the queue or not.
addFile(f) ==
    /\ shown' = shown \cup {f} /\ panel' = panel \cup {f}
    /\ percentages' = IF Kind[f] \in {"large", "other"} THEN percentages ELSE percentages \cup {f}
    /\ fileCount' = fileCount + (IF Refused(f) THEN 0 ELSE 1) - (IF Kind[f] = "other" THEN 1 ELSE 0)
    /\ status' = [status EXCEPT ![f] = CASE Kind[f] = "large" -> "invalid"
                                         [] Kind[f] = "other" -> "cancelled"
                                         [] Kind[f] = "tiny" -> "inited"
                                         [] OTHER -> "queued"]

\* Everything chosen so far is through or removed, but the loop has not told the
\* dialog of its end yet.
Winding == (timers # <<>> \/ preparing # None) /\ getQueueCount(status) = 0

\* The user chooses a file in the file dialog.
Choose(f) ==
    /\ ~closed /\ status[f] = "none"
    /\ addFile(f)
    /\ queue' = IF Refused(f) THEN queue ELSE Append(queue, f)
    /\ filesQueued(status')
    /\ late' = (late \/ Winding)
    /\ UNCHANGED <<running, trigged, timers, preparing, pool, stored, closed>>

\* The entry's delete button: removeFile of the uploader, fileDequeued, removeFile
\* of the dialog.
Cancel(f) ==
    /\ ~closed /\ f \in panel
    /\ status' = [status EXCEPT ![f] = "cancelled"]
    /\ fileCount' = fileCount - 1
    /\ shown' = shown \ {f} /\ panel' = panel \ {f} /\ percentages' = percentages \ {f}
    /\ UNCHANGED <<queue, running, trigged, timers, preparing, pool, state, disabled,
                   stored, late, closed>>

\* The upload button, in the states ready and paused: start and startUpload.
Start ==
    /\ ~closed /\ ~disabled /\ state \in {"ready", "paused"} /\ ~running
    /\ running' = TRUE /\ trigged' = FALSE
    /\ timers' = NextTick(timers, "tick")
    /\ setState("uploading", status)
    /\ UNCHANGED <<status, queue, preparing, pool, fileCount, shown, panel, percentages,
                   stored, late, closed>>

\* The upload button in the state uploading: stop and stopUpload.  What is being
\* sent goes on.
Stop ==
    /\ ~closed /\ ~disabled /\ state = "uploading" /\ running
    /\ running' = FALSE
    /\ setState("paused", status)
    /\ UNCHANGED <<status, queue, trigged, timers, preparing, pool, fileCount, shown, panel,
                   percentages, stored, late, closed>>

-----------------------------------------------------------------------------
(* WebUploader's upload loop.                                              *)

\* _tick: takes the next file while a thread is free, or notices the end.  While a
\* file is prepared the tick waits for it; its end sets a tick of its own.
Tick ==
    /\ timers # <<>> /\ Head(timers) = "tick"
    /\ UNCHANGED <<status, queue, pool, dialog>>
    /\ LET next == IF running /\ Cardinality(pool) < Threads THEN Fetch ELSE None
           end  == preparing = None /\ next = None /\ pool = {} /\ With(status, "queued") = {}
       IN  /\ preparing' = IF preparing = None THEN next ELSE preparing
           /\ running' = (running /\ ~end)
           /\ trigged' = IF end THEN TRUE ELSE IF preparing = None /\ next # None THEN FALSE ELSE trigged
           /\ timers' = IF end /\ ~trigged THEN Append(Tail(timers), "finished") ELSE Tail(timers)

\* The event uploadFinished.
Finished ==
    /\ timers # <<>> /\ Head(timers) = "finished"
    /\ timers' = Tail(timers)
    /\ setState("confirm", status)
    /\ UNCHANGED <<status, queue, running, trigged, preparing, pool, fileCount, shown, panel,
                   percentages, stored, late, closed>>

PreparedKeepsButtons ==
    /\ preparing # None /\ status[preparing] = "queued"
    /\ status' = [status EXCEPT ![preparing] = "progress"]
    /\ pool' = pool \cup {preparing}
    /\ preparing' = None
    /\ timers' = NextTick(timers, "tick")
    /\ UNCHANGED <<queue, running, trigged, state, disabled, fileCount, shown, panel, percentages,
                   stored, late, closed>>

\* The file has been prepared: it is sent, or, when the user removed it in the
\* meantime, finished on the spot as if it had been.
Prepared ==
    /\ preparing # None /\ status[preparing] \in {"queued", "cancelled"}
    /\ LET f == preparing
           sent == status[f] = "queued"
       IN  /\ status' = [status EXCEPT ![f] = IF sent THEN "progress" ELSE "complete"]
           /\ pool' = IF sent THEN pool \cup {f} ELSE pool
           /\ panel' = panel \ {f}
    /\ preparing' = None
    /\ timers' = NextTick(timers, "tick")
    /\ UNCHANGED <<queue, running, trigged, state, disabled, fileCount, shown, percentages,
                   stored, late, closed>>

\* The image cannot be compressed.  The listener of statuschange writes to the
\* progress record: where the user has removed the file it throws, and the loop's
\* promise is never settled.
CompressFails ==
    /\ Compresses /\ preparing # None /\ status[preparing] \in {"queued", "cancelled"}
    /\ LET f == preparing
           throws == f \notin percentages
       IN  /\ status' = [status EXCEPT ![f] = "error"]
           /\ panel' = panel \ {f}
           /\ preparing' = IF throws THEN preparing ELSE None
           /\ timers' = IF throws THEN timers ELSE NextTick(timers, "tick")
    /\ UNCHANGED <<queue, running, trigged, pool, state, disabled, fileCount, shown, percentages,
                   stored, late, closed>>

\* The server's answer is kept only when it says SUCCESS; the file counts as
\* complete in any case.
uploadSuccess(f, answer) == IF answer = "SUCCESS" THEN Append(stored, f) ELSE stored

\* The answer to a file that is sent, or the failure of its request.
Answer(f, answer) ==
    /\ f \in pool
    /\ status' = [status EXCEPT ![f] = IF answer = "failed" THEN "error" ELSE "complete"]
    /\ stored' = IF answer = "failed" THEN stored ELSE uploadSuccess(f, answer)
    /\ pool' = pool \ {f}
    /\ timers' = NextTick(timers, "tick")
    /\ UNCHANGED <<queue, running, trigged, preparing, state, disabled, fileCount, shown, panel,
                   percentages, late, closed>>

\* OK with the upload tab in front: refused while a file waits or is being sent.
Ok ==
    /\ ~closed /\ getQueueCount(status) = 0
    /\ closed' = TRUE
    /\ UNCHANGED <<uploader, state, disabled, fileCount, shown, panel, percentages, stored, late>>

Answers == {"SUCCESS", "refused", "failed"}

\* The image dialog, whose uploader is created with accept and compress.
Next ==
    \/ \E f \in Files : Choose(f) \/ Cancel(f)
    \/ Start \/ Stop
    \/ Tick \/ Finished \/ Prepared \/ CompressFails
    \/ \E f \in Files, answer \in Answers : Answer(f, answer)
    \/ Ok

-----------------------------------------------------------------------------
(* The attachment and the video dialog.  Their uploaders are created       *)
(* without accept and without compress, so that a file with a wrong        *)
(* extension enters the queue first and is taken out by addFile.  OK       *)
(* inserts links to the files in the one and a player for each file in     *)
(* the other.                                                              *)

\* The steps of WebUploader between two events.
UploadLoop == Tick \/ Prepared

(* attachment.js *)

InitAttachments == Init
ChooseAttachment(f) == Choose(f)
RemoveAttachment(f) == Cancel(f)

\* The upload button.
ToggleAttachments == Start \/ Stop

\* setState: the uploader's report that the loop has ended.
AttachmentsFinished == Finished

\* The handlers of the uploader's events that end a file.
AttachmentEnds(f) == \E answer \in Answers : Answer(f, answer)

InsertAttachments == Ok

AttachmentNext ==
    \/ \E f \in Files : ChooseAttachment(f) \/ RemoveAttachment(f) \/ AttachmentEnds(f)
    \/ ToggleAttachments \/ UploadLoop \/ AttachmentsFinished \/ InsertAttachments

(* video.js *)

InitVideos == Init
ChooseVideo(f) == Choose(f)
RemoveVideo(f) == Cancel(f)
ToggleVideos == Start \/ Stop
VideosFinished == Finished
VideoEnds(f) == \E answer \in Answers : Answer(f, answer)
InsertVideos == Ok

VideoNext ==
    \/ \E f \in Files : ChooseVideo(f) \/ RemoveVideo(f) \/ VideoEnds(f)
    \/ ToggleVideos \/ UploadLoop \/ VideosFinished \/ InsertVideos

-----------------------------------------------------------------------------
Hung == preparing # None /\ status[preparing] = "error"

TypeOK ==
    /\ status \in [Files -> Statuses]
    /\ ToSet(queue) \subseteq Files /\ IsInjective(queue)
    /\ {running, trigged, disabled, late, closed} \subseteq BOOLEAN
    /\ ToSet(timers) \subseteq {"tick", "finished"} /\ Len(timers) <= 3
    /\ preparing \in Files \cup {None} /\ pool = With(status, "progress")
    /\ Cardinality(pool) <= Threads
    /\ state \in {"pedding", "ready", "uploading", "paused", "confirm", "finish"}
    /\ fileCount \in Int
    /\ {shown, panel, percentages, ToSet(stored)} \subseteq SUBSET Files

\* What OK inserts are files the user still sees in the list: a file that was
\* removed from it is never inserted, although removing it while the uploader
\* prepares it makes the uploader report it as sent; and none is inserted twice.
InsertedStillShown == ToSet(stored) \subseteq shown /\ IsInjective(stored)

\* Whenever the uploader is at rest and a file waits, the upload button works:
\* the only way to lose it is to choose a file after the last one was sent or
\* removed and before the dialog hears that the loop has ended.
WaitingCanStart ==
    (~running /\ timers = <<>> /\ preparing = None /\ pool = {} /\ With(status, "queued") # {})
        => late \/ (state \in {"ready", "paused"} /\ ~disabled)

\* A file with a progress record is on the page: progress is shown for no file
\* that was removed, and the total is taken over entries the user sees.
RecordsAreShown == percentages \subseteq shown

\* Once the dialog is closed with OK the server stores nothing more, so no upload
\* is lost between the list that was inserted and the end.
NothingStoredAfterOk == [][closed => UNCHANGED stored]_vars

\* An upload comes to an end by itself, unless the promise of a file that could
\* not be compressed after it was removed holds the loop for good.
UploadEnds == running ~> (~running \/ Hung)
=============================================================================
