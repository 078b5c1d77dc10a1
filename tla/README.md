# Verification of xidata

TLA+ models, TLC runs and TLAPS proofs for the parts of xidata that carry its
own logic. Definitions are translated from the source; `PROJECT.json` gives, for
each, the lines it stands for.

## The system

xidata is a social app with chat, red envelopes, transfers and a betting game
whose events are recorded on an EOSIO chain.

| Part | State it keeps | Operations |
|---|---|---|
| Red envelopes: `SendRedpocketWooViewController`, `WOOConversationViewController`, `ReadPocketview` (iOS), `RedController`, `Red` (Java) | the send form; the packets with balance and shares left; the views on the screen and the property `self.red` | fill in and send, tap and claim, draw a share, show the answer, open, look at the details, close |
| Chain recording: `EOSUtils` (Java), `nodeSvr` (node) | blocked Java threads; open requests with their partial bodies; the globals `trans`, `redenv`, `egggame` | post, route, collect the body, get the contract, push, answer, create a key pair |
| Contracts `fbstransfer`, `redenvelope`, `egggame` | one table per action | `transfer`, `send`, `recv`, `create`, `bet`, `settlement` |
| Contact cache: `AppDelegate`, `RCDataBaseManager`, contact and group pages (iOS) | the `userId` in the user defaults, the open database file, the friend and group tables | launch, log in, log out, refresh, add, delete, rename |
| Request layer: `UserRequestToo`, `AfnetHttpsTool`, `WQAsiNetwork*` (iOS) | one shared pair of url and parameters, the reachability flag | set url, set parameters, sign, send |
| Web login page: `web/system/js/login.js` | the number, the countdowns on the button, the button offered | ask for a code, count down, sign in, sign up |
| Web editor, document: `ueditor.all.js` (`dom.Range`, `domUtils`, basestyle, font, link, paragraph, justify, blockquote, table, ...; `uNode`, `htmlparser`, the filters) | the document tree, the selection, the tables and their index | the methods of the range, the commands, parsing and filtering |
| Web editor, tools: `ueditor.all.js` (undo, modes, autosave, EventBase, fiximgclick, table borders, paste and uploads, ajax), `scrawl.js` | the undo list, modes and form field, drafts in the local storage, listeners, placeholders, requests | save, undo, redo, switch modes, fire, drag, paste, draw |
| Web editor, user interface: `ueditor.all.js` (creation, dialogs, popups and menus, full screen, autoheight, autofloat) | the editors of a page, what is open, the shared masks, sizes kept for later | create, destroy, open, close, resize, hover, press |
| Editor dialogs for files: `image.js`, `attachment.js`, `video.js` | the queue of chosen files and its counters, the list fetched page by page, search results | choose, remove, upload, pause, scroll, search, insert |
| Web site: `owl.carousel.js` | the current item, positions, timers, images loaded so far | move, drag, resize, hide, rebuild, autoplay |
| Crew, friend and transfer controllers (Java), login pages, content pages (iOS) | nothing of their own, or a form | one request each |
| Android client, `Woo` (older iOS copy), static pages, `contracts`, `eos`, `SearcgDemo` | | not modelled, see below |

How they meet: the iOS pages call the Java controllers over HTTP; the services
behind the controllers (not in the repository) call `EOSUtils`, which posts to
the node server; the server has eosjs sign and push an action of a contract. On
the phone, callbacks of requests run on the main queue, the refresh at launch
and login runs on a background queue, and lists are inserted into the database
on a third, low-priority queue. The web pages run in the one thread of a browser:
what interleaves there are timers, answers, loading frames and scripts, and the
user. The parts of the editor talk through its events (`EventBase`) and through
the document; they keep their own memories of the state before, and most of
their hard behaviour is that such a memory is stale when it is used.

What is hard: answers of concurrent requests in any order, a time-out at the
client while the server goes on, a server that dies or stays silent between the
push and the answer, views and globals replaced while a callback is pending, a
logout or a deletion between a refresh's answer and its insertion, the arithmetic
of the share drawing; in the editor, trees changed under a range or a bookmark,
listeners that change the list being walked, timers that fire after what they
were set for is gone, drags whose button is let go elsewhere, and several
editors or dialogs on one page that share a mask, a flag or a stored object. The list with lines is in `PROJECT.json`
under `hazards`.

What makes each part correct:

- red envelopes: the draw leaves something for every later share of an adequately
  funded packet and ends, the books balance, the client shows what was recorded, and
  its views close in the order in which they cover each other;
- chain recording: a returned id is the id of the caller's own recorded action,
  nothing is recorded twice, an answerable request is answered;
- contracts: the tables are logs;
- contact cache: a user sees his own current contacts, and nobody else's;
- request layer and login page: a request goes out as it was meant, and the
  button offers what the server has for the number asked for;
- editor, document: a method or a command changes exactly what it is for, loses no
  text and keeps the selection; contents survives parsing and filtering;
- editor, tools and user interface: undo and redo are inverse, everybody registered
  is called, what was taken (masks, scroll bars, sizes) is given back, drags
  follow the mouse, and what was begun ends;
- file dialogs and carousel: what is inserted is what was shown, lists have no gaps,
  the carousel stands where it says.

## Modules

| Module | What it is |
|---|---|
| `RedEnvelope`, `RedEnvelope_proofs` | the envelope from the form to the detail page; its theorems |
| `Ledger` | the contracts' tables and key allocation, as operators |
| `Gateway`, `Gateway_proofs` | `EOSUtils`, node server and chain, on top of `Ledger`; its theorems |
| `RecordService` | abstract specification: what a caller of `EOSUtils` may rely on |
| `ContactCache`, `ContactCache_proofs` | account, refreshes and contact tables of the iOS client; its theorems |
| `RequestSlot` | the shared url and parameters of the iOS request layer |
| `WebLogin` | the web login page, with the lemmas about its invariant |
| `Dom`, `DomRange` | the document tree with `domUtils`; `dom.Range` as operators |
| `EditorFrame` | a document and a selection as commands find them |
| `EditorRange`, `InlineFormat`, `BlockFormat` | the methods of the range, the commands on letters and those on blocks |
| `UNode`, `UNodeCalls`, `HtmlFilter` | the tree of the filters, its calls in every order, parser and filter rules |
| `TableGrid`, `TableDrag` | the commands on tables; dragging the borders of columns |
| `EditorUndo`, `EditorModes`, `AutoSave`, `EventBase` | undo and redo; enabled, shown, source and focus; drafts; events |
| `ImageScale`, `Scrawl`, `LateImages` | resizing images; the drawing dialog; images on their way to the server |
| `Ajax` | `UE.ajax` |
| `EditorLifecycle` | creation, language file, frame, server configuration, destruction; with its theorem |
| `UiDialog`, `UiMenu`, `EditorShell` | dialogs and masks; popups, menus and buttons; full screen, growing frame, floating toolbar |
| `UploadQueue` | upload tab of the image dialog, and its copies in the attachment and video dialogs |
| `OnlineList`, `ImageDialog` | the online lists of images and attachments, and the image search |
| `OwlCarousel` | the carousel of the web site |
| `MCRedEnvelope`, `MCGateway`, `MCContactCache` | instances for TLC |
| `MCEditorDocument`, `MCEditorTools`, `MCEditorProgress`, `MCClientPages` | suites: instances of several parts for TLC; `MCClientPages` with the theorems of its parts |
| `EditorTools_proofs`, `EditorProgress_proofs` | theorems about the parts of two suites |

A suite instantiates parts that share no modelled state. Its variable `subject`,
chosen at the start and never changed, says which part the behaviour is about;
the others are off or rest in an initial state, and a property of the suite is
the conjunction of what the parts promise. One part may have several instances
(two browsers, one or two editors, carousels with different options).

Where the code looks a command or a method up by its name (`execCommand`, the
chained calls on a range), the module has an operator `Do` or `Exec` that
dispatches on the name, and one action that calls it with a name and arguments.

### RedEnvelope

`form` is the send page; `ViewDidLoad`, `TextFieldDidChange` and
`BeginSendRedMessage` are its handlers. `pkt`, `taken` and `share` are the books
of the server, `tap[t]` a claim with its client end (`cli`) and its server end
(`srv`), so that the two can disagree after a time-out. `win[u]` has the envelope
views on a user's window, the topmost last, and `red[u]` is the controller's
property, which the next answer overwrites. `shareviewShow` puts a view on the
window in the completion of an animation of 0.2 s; the duration is the same for
every view, so views come in the order of their answers (`coming[u]`), and other
handlers run in between. `OpenRed` runs the block of the topmost view, which shows
that view's own answer but closes the view `red[u]` refers to, as
`pushRedmessageview` does.

Amounts are integers in units of the fourth decimal. `GenerateRedValue` is the
set of values `Red.generateRedValue` can return: below twice the mean share
rounded down, and not zero. An empty set is the redraw loop that never ends; the
claim is then `stuck`.

`RedService` is not in the repository. `RecvRed` is one atomic step, with the
statuses 200, 5001 and 5002 as the client reads them, of which 5001 means that the
user has a share already (`AlreadyClaimed`). This is an assumption on the service's
transaction. `Conservation` and the part of `ClientToldTruth` about statuses rest on
it; that nobody is paid twice would only repeat it and is not claimed.

### Ledger, Gateway, RecordService

Every contract action emplaces one row; the key is one past the largest key. The
memo is not stored. A row also names the transaction and the call it stems from,
which lets the properties speak about callers.

In `Gateway` a call goes through `Post`, `Route`, `Chunk`*, `End`,
`ContractReady`, `Accept` or `Reject`, `Reply` or `PushFails`, `JavaReturn`.
`JavaGivesUp` is the caught `IOException`, at any time. `ParseThrows` is the
uncaught exception of `JSON.parse`, which ends the process for every request; on
a Node version that ends the process for an unhandled rejection, the step after
a rejection is the same one. There is no `catch` in the server: a failed push
leaves the request `silent`. The response of a request is held by a variable of
the object that sends the action (`ResponseOf`), whereas the object itself is
held by a global (`obj`) that the next request overwrites.

A body is `BodyLen` bytes; `CharEnds` are the offsets at which a character ends.
`body += chunk` decodes each chunk by itself, so a chunk that ends elsewhere
garbles the text. eosjs, the chain and `HttpUtils` are external. A transaction
is its header, action and arguments. eosjs has the header refer to the last
irreversible block and counts the expiry from the time of the head block; the number
`head` stands for both, so equal calls with one header are one transaction, which the
chain accepts once.

`RecordService` has, for each call, an outcome (pending, an id, unknown) and
whether it is recorded. `Gateway` implements it with `Outcome` and the set of
calls that have a row; calls for a key pair are not calls of the service.

### ContactCache

The friend and the group table go through the same steps and never meet, so the
module has one table and the constant `List` says which; they differ in
`DeleteCallback`, where a group's row is deleted 1.5 s later. `acct` is the
`userId` of the user defaults: never set, emptied by a logout, or an account.
`DbQueue` opens the file of the `userId` that is set at the first use, and the
file stays open until the process ends (`closeDBForDisconnect` has no caller).

A refresh is queued, sent with the account of that moment, answered, applied by
`RefreshCallback` (clear) and finished by `InsertList`. `rows[f][i]` is the
account for which row `i` of file `f` was fetched, which the table itself does
not say. `mine`, `gone`, `calm`, `last` and `newest` are history: no guard reads
them.

### RequestSlot, WebLogin

A request of an iOS page is three statements apart: the url is stored, the
parameters are stored, `statrrequestgetwith` reads both, signs and hands over.
Every read and write of the shared object is a step of its own, by the main
thread or by a background block; `burst` is the set of requests that overlapped
since the object was last idle. A race on the dictionary may crash (`RaceCrash`).

In `WebLogin` every click of the code button adds an interval; all of them
write the one button. `asks` and `submits` are requests on their way. A code is asked for
only for a number of the right form, whereas a handler of the button sends any text
that is not empty (`Malformed`). The countdown is `CountFrom` ticks long, 60 in the
code.

### The document: Dom, DomRange, EditorFrame and the commands

A tree is a function from node numbers to nodes; methods are operators from a
state (tree, range, result, whether something was thrown) to a state. The browser
is webkit, not old Internet Explorer. `EditorFrame` starts with a loaded document
and a cursor anywhere in it, or a selection that covers some content.
`InlineFormat` and `BlockFormat` put the temporary letter or the bookmark into the
tree as the code does and take it out again; properties compare the letters and
blocks before and after a command. `TableGrid` has the rows with their spans
and rebuilds the index where the code does; heading cells, captions, widths and
copied cells are left out. A command that throws leaves the flag
`__hasEnterExecCommand` set (`stuck`); the next mouse down rebuilds the index.
`TableDrag` has the columns only.

`UNode` keeps children and parent pointers apart, as the code does; `HtmlFilter`
is the parser, token by token, with the input and output rules of defaultfilter
and the rules for plain text. The properties speak about contents without empty
elements that the rules would drop.

### Tools of the editor

`EditorUndo` has the list of scenes, its index, the typing counter and the timers
that save; `EditorModes` keeps the content, the form field, the bookmark id
`lastBk` that disabling and hiding share, and what the source view shows, for
Firefox and other browsers; `showing` has the ranges that the timers of several calls
of `setShow` are to select, all after 100 ms and so in their order; `AutoSave` keeps the one stored object of all
editors of a page. `EventBase` runs a listener as a step of its own, so that it
may register, remove and fire in between. `LateImages` has the placeholders, the
requests for uploads and remote images, and the scenes undo returns to; its
`history` names the cases in which the code cannot match an answer to its image
(two files in one millisecond, a file picked during an upload, undo, a lost
connection). `ImageScale` and `Scrawl` have one dimension for both. `Ajax` is one
record per request: network, timer, tag, function, and what the caller was told.

### User interface, file dialogs, carousel

`EditorLifecycle` is the order in which page, language file, frame and server come
for several editors of one page. `UiDialog` is one-dimensional: the code treats
both directions alike. `UiMenu` has one level of submenus, as the editor's menus.
`EditorShell` is not Firefox, where full screen is announced two timers later. A
page may call `setHeight` in any mode, in full screen as well.
`UploadQueue` contains the parts of WebUploader that drive the dialog (external),
as far as the dialog uses them; the copies in the attachment and the video
dialog follow in the same module, with what they do otherwise. `OnlineList` numbers the server's files in its order. `OwlCarousel`
takes the options as constants; one instance has those of `index.html`.

## Runs

| Run | Instance | Shows |
|---|---|---|
| `red_envelope` | 1 packet, 3 users, 3 taps, 2 units to the coin, 0, 1 or 3 coins, 1 to 3 shares | `TypeOK`, `Conservation`, `EveryShareFunded`, `StuckOnlyIfScarce`, `ClientToldTruth`, and `ViewsStack`: no view is taken from under another one |
| `gateway` | 2 calls of any of 8 kinds, bodies of one two-byte character, 2 blocks | `AnswerIsOwn`, `RecordedAtMostOnce`, `AppendOnly`, and that `Gateway` implements `RecordService` (`ImplementsService`) |
| `gateway_progress` | 2 calls, kinds bet, key and unknown path, bodies of 3 bytes | `RoutedIsAnswered`: every request ends |
| `gateway_text` | the same, create and bet | violated: garbled text reaches the chain |
| `contact_accounts` | 2 accounts, 1 group, 2 refreshes at a time | `OnlyOwnRows`: when an account sees only its own rows |
| `contact_refresh` | 1 account, 2 friends, 2 refreshes at a time | `TypeOK`, `UndisturbedRefreshExact`, `DeletedStaysGone`, and `NewestIsComplete` for refreshes that overlap |
| `contact_logout` | 1 account, 1 friend | violated: contacts come back after a logout |
| `editor_document` | range, letters, format painter, blocks, `uNode`, four kinds of markup | `RangeIsExact`, `LettersAreExact`, `BlocksAreExact`, `ContentSurvives` |
| `editor_tools` | undo, modes in two browsers, events, dialogs, image handles, drawing board, borders of columns, tables | `UndoIsSound`, `ModesAgree`, `ListenersAllRun`, `DialogsTidyUp`, `DragsFollowMouse`, `BoardIsStep`, `TablesStayWhole` |
| `editor_progress` | drafts with and without timer, frame with and without handle, menus, start of an editor and its configuration, requests, uploads and remote images | `DraftsAreSound`, `FrameFollows`, `MenusFollowMouse`, `StartIsOrdered`, `ToldOnce`, `ShowsOwnPicture`, and `WaitsEnd`: nothing that was begun stays begun |
| `client_pages` | two login pages, the request object, three upload dialogs, two lists, four carousels | `RequestIsOwn`, `LoginIsTrue`, `FileDialogsAreTrue`, `CarouselIsSound`, and `PagesComeToRest` |
| `shell_autoheight` | a frame that grows | violated: a height is applied in full screen |

### Bounds

Three taps by three users cover a repeated claim, a claim that is too late and
two answers overtaking each other, with a view of a third on the screen; two units to the coin and up to three shares
include a packet with fewer units than shares, the only case in which the
drawing loops. Two calls are enough to mix up two answers, to be equal
transactions and to be cut off by one crash; two blocks let a later push differ
from an earlier one. Two refreshes at a time are what the overlap needs, two
accounts what a foreign row needs, two contacts what a partial list needs.
`contact_accounts` leaves the history variables that its property does not read
out of the fingerprint. Symmetry is used in safety runs only.

Documents have a few letters in one or two blocks, with one element of interest
(strong, link, colour, image, heading, loose text, quotation, list): a command
treats the two ends of a selection and what lies between, so that a third block
adds nothing new. Two methods of the range in a row make one meet the tree or the
bookmark of the other; letters and blocks run one command on every selection,
the format painter two. Contents has up to 4 to 6 tokens, enough for each rule of
the filters to meet a parent, a child and a sibling; `uNode` has 6 nodes and 4
calls. Tables start with 2 by 2 cells. In one instance they grow to three rows, which is
where spans begin to cross, in the other to three columns, so that a column is
inserted between two that share a span; `insertCol` then throws where a row has no
cell for the place.

Undo has two contents and `maxUndoCount` 3, so that the list overflows; modes
take 5 steps, enough to enter two modes, leave them in either order and write;
events nest twice and have up to 3 listeners; 3 dialogs, one of them full screen,
and 2 widths of the window; 3 lines on the board with 2 steps to undo; two drafts
with 2 changes; two editors waiting for one language file; two files or two remote
images. The login page asks for 2 codes and submits up to 2 times. The request
object has the main thread and one block. Uploads have 3 or 4 files of the kinds
the code tells apart and 1 or 2 threads; lists have 5 files in pages of 2, so that
the last page is short; carousels have 1 to 5 items and two widths of the window.

Deadlock checking is off in `red_envelope`, where all taps may be used up, and in
the suites and `shell_autoheight`, where bounded parts end. It is on in the other
runs.

### Fairness

`gateway_progress` assumes weak fairness of the steps of each call while the
process is up: the event loop runs ready callbacks, eosjs settles its promises,
the socket delivers. It does not assume that the process is started again, that a
push succeeds, or that the caller has a time-out.

`editor_progress` and `client_pages` assume weak fairness of what the browser does
by itself: a timer or interval that is set fires, a page, frame or script that
loads ends loading or fails, an image that loads is shown, a transition ends.
For uploads and remote images they assume that the server answers or the
connection breaks; for the upload loop also that its deferred steps run. They
never assume a step of the user, nor that an answer is a success.

### Findings

1. `gateway_text`: `route.js` decodes chunks one by one; the documented bodies
   hold multi-byte text that is stored on chain.
2. `contact_logout`: the logout branch says that it deletes the data; a refresh
   under way puts the contacts back, into the open file, where the next account
   sees them until its own refresh is applied. `OnlyOwnRows`, `DeletedStaysGone`
   and `UndisturbedRefreshExact` say under which conditions the cache is right;
   without those conditions each is false, since neither the callback nor the
   insertion looks at the account or at newer answers.
3. `shell_autoheight`: a comment of the editor says that autoheight must not run in
   full screen; the 50 ms timer of `adjustHeight` does not ask again.

### Observed while modelling

These are behaviours of the code that the properties have to except. Each
exception is in the property, with its reason in the comment above it.

- Login page: the button is disabled by the first tick of a countdown, so a second
  code can be asked for within the first second; the two countdowns then share the
  button, and the one that ends first enables it while the other is at zero.
- Undo: one step back fewer than the comment on `maxUndoCount` says.
- Range: ranges with one end in a text and the other in an element delete nothing
  or throw; `enlarge(true)` leaves `collapsed` false; `shrinkBoundary` may leave the
  start at the end of an element; addresses between adjacent or empty texts lose
  their place.
- Letters: the font value `default` works on a stale range; a colour does not
  reach coloured letters of later spans; bold counts as on right before a `strong`.
- Blocks: exact when both ends are in a text; quoting inside a list item quotes more.
- Contents: two lists in one list item are reversed; nested empty inline elements
  stay.
- Tables: `checkRange` misses the last row and column, `update` may rebuild a
  smaller range, merging with row deletion leaves extra rows, `insertCol` misplaces
  a cell beside spans.
- Modes: hiding and disabling share `lastBk`; in Firefox, leaving source while
  disabled breaks `setEnabled`; `sync` in the source view of an empty document loses
  text; appending in source mode replaces.
- Drafts: with `saveInterval` 0 changes within 20 ms are lost; `destroy` leaves the
  timer.
- Events: removing a listener with a lower index makes another run twice.
- Start: `loadFile` of a tag that is still in the head runs no callback at that
  time; `destroy` before ready throws.
- Requests: a failing script with `timeOut` is told twice, a silent script without
  one never.
- Red envelopes: details that arrive, or a view that is opened, close the view of the
  latest answer, opened or not; one that is closed so before it is on the screen comes
  all the same, and the opened one stays.
- Contact cache: two refreshes that overlap leave the union of their answers.
- Frame: full screen while disabled is not announced; the handle is switched on
  again in full screen.
- Images: a file picked during another upload replaces that one; the handlers of the
  resize box pile up, and all editors share `elementUpdated`.
- Drawing: undo with a full list, `isScrawl` after a clear, and a mask that stays.
- Borders of columns: a quick drag looks for the border at the new place.
- Uploads: a file removed while it is compressed is reported complete; with a
  failing compression its promise hangs; a file chosen while the loop winds up
  leaves the button dead; a refused file makes `fileCount` -1.
- Image list: a reset while a later page loads leaves a gap.

## Proofs

Eight modules hold theorems. All are proved for every value of the constants
under the assumptions named; a suite's theorem is about the suite's own instance
and cites the lemmas of the part.

| Theorem | Property | Inductive invariant |
|---|---|---|
| `TypeCorrect`, `SharesFunded`, `DrawTerminates` | `TypeOK`, `EveryShareFunded`, `StuckOnlyIfScarce` | `BooksInv` (`BooksInvariant`) |
| `ToldTruth` | `ClientToldTruth` | `ClaimsInv` (`ClaimsInvariant`) |
| `ViewsAreStacked` | `ViewsStack` | `ClaimsInv` and `ViewsInv` (`ViewsInvariant`) |
| `BooksBalance` | `Conservation` | `ClaimsInv` and `MoneyCounted` |
| `GatewayTypes`, `AnswersAreOwn`, `AtMostOnce`, `TablesAppend` | `TypeOK`, `AnswerIsOwn`, `RecordedAtMostOnce`, `AppendOnly` | `GatewayInv` (`GatewayInvariant`) |
| `Implementation` | `ImplementsService`: `Gateway` implements `RecordService` | `GatewayInv` |
| `CacheTypes`, `OwnRows`, `DeletedGone`, `RefreshExact` | `TypeOK`, `OnlyOwnRows`, `DeletedStaysGone`, `UndisturbedRefreshExact` | `CacheInv` (`CacheInvariant`) |
| `NewestComplete` | `NewestIsComplete` | `CacheInv` and `NewestOK` |
| `RequestsAreOwn` | `RequestIsOwn` | `SlotInv` |
| `LoginsAreTrue` | `LoginIsTrue` | `LoginInv` |
| `RequestsToldOnce` | `ToldOnce` | `AjaxInv` |
| `DraftsSound` | `DraftsAreSound` | `DraftInv` (`DraftsInvariant`) |
| `FrameIsRight` | `FrameFollows` | `ShellInv` (`ShellInvariant`) |
| `StartIsRight` | `StartIsOrdered` | `LifeInv` (`LifeIsOrdered`) |
| `MenusAreRight` | `MenusFollowMouse` | `MenuInv` |
| `UndoTheorem` | `UndoIsSound` | `UndoInv` |
| `ModesTheorem` | `ModesAgree` | `ModeInv` |
| `DialogsTheorem` | `DialogsTidyUp` | `DialogInv` |
| `EventsTheorem` | `ListenersAllRun` | `EventInv` |

Assumptions on constants: the unit is positive, amounts and sizes are natural
numbers and there are finitely many users, at least one (`RedEnvelope`); kinds are
those of `EOSUtils`, a body has at least one byte and ends with a whole character,
the bound on blocks is a natural number (`Gateway`); the list is that of friends or
that of groups, and account names differ from the markers for "nobody", "never"
and "closed" (`ContactCache`). The bounds of `RequestSlot` and `WebLogin` are
natural numbers; requests with a script are among those that are made (`Ajax`).
`maxUndoCount` and `maxInputCount` are positive, since the code reads 0 as the
default (`EditorUndo`); widths are natural numbers, full screen dialogs are dialogs
and the marker for "nothing" is none (`UiDialog`). Every item is in a popup; a
submenu is that of one item, which is in the context menu, and the popup of a
button is neither; items, buttons and the rest of the page are apart (`UiMenu`).

Where the run has one instance of a part, the suite passes its own constants on,
and the theorem is for every value of them. Where it has several (drafts at once
and later, a frame with and without handle, two starts, two browsers,
events fired once, nested and several at once), the lemmas are about an
instance that takes the constants as parameters, or stand in the part's module,
and the suite's theorem applies them to its instances.

### Red envelopes

None of the properties of the books is inductive alone. A claim can keep the balance
natural only if the packet it names exists and is open (`RequestsOK`); a new
packet is funded only if the button is enabled for a non-zero amount and count
(`FormOK`); and the balance after a draw covers the remaining shares only if it did
before. The heart is the lemma `DrawLeavesEnough`: with `count >= 2` shares left and
a draw strictly below `2 * (total \div count)`, what remains is at least
`count - 1` when `total >= count`, and never negative.

`ClaimsInv` adds who was paid. `SharesCounted` ties claimers, shares and the number
left; `AnswersKept` says that a request has a status exactly when it was served, a
late one after a time-out included; `ViewsOwn`,
that a view on a user's screen belongs to a tap of that user, needed because the
block of a view closes whatever view `self.red` refers to; `DetailsFinal`, that
what a detail page shows can no longer change.

`ViewsInv` says where `self.red` can be: take the views on a user's screen from below,
then those on their way in their order; they are all different, and the view `self.red`
refers to is the last of them or none. What is closed through `self.red` is therefore the
topmost view with nothing to come, or a view that is not on the screen, and
`ViewsStack` follows.

`BooksBalance` is about a sum over all users. `SumFunction` is a fold; the proof
describes it as the last entry of a table of partial sums over the subsets of the
users (`Sums`), and argues with a smallest subset at which a claim fails
(`MinimalSubset`, strict inclusion on a finite set is well-founded), since an
induction scheme cannot be instantiated. `SumOfUpdate` then says that granting a
share moves the sum by that share, and `MoneyCounted` is kept by every step.

### Gateway

`AnswerIsOwn` and `RecordedAtMostOnce` say nothing of calls that have not returned.
`CallsStaged` says how far a call has come: nothing is pushed before the contract is
there, and what is pushed is the call's own action with its own arguments, although
the object that sends it is a global. `AnswersOwn`: only a finished handler wrote
a response, and its id is that of the accepted push. `RowsTrue`: rows and accepted
pushes correspond. `KeysContiguous` makes the key of `available_primary_key`
unused, which `AppendOnly` needs.

The refinement maps a call's outcome and the set of calls with a row. The steps that
matter are the acceptance of a push, which records, and the return, which is `ok`
only with an id; a crash or a time-out is the step to `unknown`; every other step
is a stutter. A call that gave up may still be recorded later, as `RecordService`
allows.

### Contact cache

`SessionOK`: nothing is under way in an app that does not run or was never logged in
to, so that the database is never opened without a `userId`. `OwnOK`: once the table
is the account's own, so is everything that can still write it. `GoneOK`: nothing
that can still write a deleted contact knows it as the account's. `CalmOK`: the
table an undisturbed refresh is about to fill is empty. Each writer (clear,
insertion, delete, rename, add) keeps each of them.

`NewestOK` is about refreshes that overlap: a contact of the answer for which the table was
last cleared is there, or an insertion that brings it is still to come (`Awaited`). A
clearing promises an insertion for each such contact, an insertion only adds, and what a
page writes back shows a contact of somebody.

### Request layer, login page, requests of the editor

`SlotInv`: what a thread has read or is about to read stems from a request of the
current burst (`BurstOK`), and if the burst is the thread's request alone, the
signature is over its own parameters (`AloneOK`).

`LoginInv`: the running countdowns differ by at most one tick while the button is
disabled, and are all at zero or not begun while it is enabled (`TimersOK`); the
answers under way are about the last number unless requests overlapped
(`OffersOK`, `OptionFits`). Its step is proved for every length of the countdown and
every number of requests.

`AjaxInv`: an XMLHttpRequest that waits was told nothing and one that is over is
past the reach of its timer; a script that waits was told at most by its timer,
which then took its function away.

`RequestsAreOwn`, `LoginsAreTrue` and `RequestsToldOnce` carry these to the suites:
every step of another part leaves the variables of the part unchanged.

### Drafts, frame, menus and start of the editor

`DraftInv` is `DraftIsCurrent` with types: a timer belongs to an editor that is
ready, and while there is a draft the storage is marked as used. Its step is proved once for saving
(`SaveKeeps`), and every step changes only the draft of its own editor.

`ShellInv` is what the frame's parts remember of each other. `PageInv`: while in full
screen, the styles kept are those of the page before it. `OverflowInv`: autoheight
is off in full screen and with the handle. `HeightInv`: where every change of full
screen was announced and met no timer, autoheight knows whether the editor is in
full screen, has no timer pending there, and remembers the height of the frame; heights of
texts are positive, as `adjustHeight` makes them, which tells a frame that was never
adjusted. `ToolbarInv`: once its timer has run, the toolbar floats exactly when the
editor is above the window and not in full screen.

`MenuInv` relates the popups to the mouse. `RecordOK`: an item whose timer is going
to show its submenu is opened, and a submenu that is shown has an item that is opened or
about to close it. `MouseOK`: the mouse is on something that is shown; the item whose
submenu it is in is opened, which is what keeps a press inside from closing the parent;
and in the context menu no other item is opened than the one it rests on, which
has its submenu or waits for it. Each change of the popups (`HidingKeeps`,
`ShowingKeeps`, `DelayHides`, `DelayShows`, `Enters`) keeps both, and the steps are made of these.

`LifeInv` of `EditorLifecycle` says of each editor which of its stages has been
reached: callbacks wait as long as it is not ready, a handler is either listed once
or was heard once (`EdOK`), and every live editor has exactly one holder
(`HoldersOK`). The lists of callbacks and handlers are sequences, and the lemmas
`AppendElements`, `ReversedElements`, `JoinedElements`, `CutElements` say which
elements what is built of them has.

### Undo, modes, dialogs and events

`ManagerOK` says which shape the list of scenes has: it is no longer than
`maxUndoCount`, its index is in it, and the two flags tell where. `RedoInverts` is
then a fact about searching the list: between the scene undo goes to and the
current one all scenes have the current content, so redo stops at a scene
with that content. `BodyIsCurrent` says that a body no key has changed is that of the
current scene. `UndoCounts`: keys that are not in the history were counted since the
last save, and all but one are waited for by a timer; `AtMostOneKeyMissing` follows.
The proof goes over a saved, an undone and a redone manager by itself (`Saved`,
`UndoneTo`, `RedoneTo`) before it comes to the handlers.

`ModeInv` is for both browsers. `MarkInv`: a bookmark in the body is the one whose id
is kept in `lastBk`, and it is where the cursor was when the editor was disabled,
as long as that place counts (`held`); so `setEnabled`, which looks the id up, finds
that place (`PlaceIsHeld`). `ContentInv` adds that the initial content is never there in
source mode, where a command would clear it behind the source. `CommandInv`, not of
Firefox: the copy of the query is there exactly while the editor is disabled.

`DialogInv` adds to the properties of `DialogsTidyUp` that a dialog that is rendered
was hidden once (`DialogPlaces`), and that a title that is held shows the drag mask
and belongs to an open dialog, unless the page closed it (`DialogDrags`). A handler
closes one dialog and may open another, so its proof is a chain of records that
each change one field (`HideOnce`, `ShowOnce`, `Rendered`, `Centred`).

`EventInv` says of every call of `fireEvent` under way what its walk has yet to reach,
although the list changes below it. `NobodyLost`: what was registered when the type
was begun was removed, or called, or stands at a place before the walk, since a
removal only moves listeners towards the start of the list. `Undisturbed`: while
nothing is removed the list at the start is still the beginning of the list, and the
calls are its end in reverse order. `RemoveItem` is a recursive function: that its
equation has a solution (`KeptExists`) and what that is (`Removes`) are shown by a
smallest place at which the claim fails.

### Only model-checked

- Liveness: `RoutedIsAnswered`, `WaitsEnd`, `PagesComeToRest`. The prover does not
  reason about fairness.
- `editor_document` and the tables: the tree operations recurse over data, and what a
  recursive definition computes for every input is out of the prover's reach.
- `BoardIsStep`, `DragsFollowMouse` of `editor_tools`, `ShowsOwnPicture` of
  `editor_progress`, `FileDialogsAreTrue` and `CarouselIsSound` of `client_pages`:
  they run one part with different constants and use operators on sequences
  (`Reverse`, folds) whose values are defined by recursion.

## Not modelled

- The services behind the Java controllers, `HttpUtils`, eosjs, AFNetworking,
  FMDB, RongCloud, WebUploader, jQuery and the browser are not in the repository or
  are vendored; what the code expects of them is in the models, marked external.
- The other Java controllers delegate to services that are not there.
- Layout and text of pages; content, video and publishing pages of the iOS client;
  its registration and login pages; static web pages, with bootstrap and tangram.
- Further plugins of the editor: lists, code, search and replace, the enter key and
  other keystrokes, sections, autotypeset, word count, page breaks, videos, maps,
  templates, charts.
- The Android client and the older iOS copy repeat flows modelled here.
- `contracts` and `eos` are vendored EOSIO.

## Plan

1. Proofs for the parts that have only runs so far: late images (`LateImages`: an
   image shows what the user put there), uploads (`UploadQueue`).
2. The list, enter key and search plugins on top of `Dom` and `DomRange`.
3. Sessions of the iOS client: registration, profile completion, verification codes
   and relaunch, composed with `ContactCache`; the transfer page; membership
   with the Crew and Friend controllers.
