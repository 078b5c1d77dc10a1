----------------------------- MODULE OnlineList -----------------------------
(***************************************************************************)
(* The tab "online" of the image and the attachment dialog: a list of the  *)
(* server's files that is fetched page by page while the user scrolls.     *)
(* Files are numbered in the server's order; the server answers a request  *)
(* for the files from start on with the next page.                         *)
(***************************************************************************)
EXTENDS Integers, Sequences, FiniteSets, SequencesExt

CONSTANTS Total,   \* files on the server
          Size,    \* imageManagerListSize, fileManagerListSize
          MaxFocus \* bound: how often the user turns to the tab

VARIABLES
    shown,      \* the list on the page
    selected,   \* the entries with the class selected, by file
    listIndex, listEnd,
    isLoadingData,
    request,    \* the requests under way, each the number it starts at
    focused,    \* how often the tab was turned to
    crossed     \* history: the list was reset while a request was under way

online == <<shown, selected, listIndex, listEnd, isLoadingData, request, focused, crossed>>

OnlineInit ==
    /\ shown = <<>> /\ selected = {} /\ listIndex = 0 /\ listEnd = FALSE
    /\ isLoadingData = FALSE /\ request = <<>> /\ focused = 0 /\ crossed = FALSE

\* getImageData, getFileData: one request at a time, none after the end.
Fetch(index, end) ==
    IF end \/ isLoadingData
    THEN UNCHANGED <<isLoadingData, request>>
    ELSE isLoadingData' = TRUE /\ request' = Append(request, index)

\* initContainer and initData, with the first request of the list.
Reset ==
    /\ shown' = <<>> /\ selected' = {} /\ listIndex' = 0 /\ listEnd' = FALSE
    /\ crossed' = (crossed \/ isLoadingData)
    /\ Fetch(0, FALSE)

\* The list is scrolled to its end.
Scroll ==
    /\ focused > 0
    /\ Fetch(listIndex, listEnd)
    /\ UNCHANGED <<shown, selected, listIndex, listEnd, focused, crossed>>

Page(start) == [i \in 1 .. (IF start + Size <= Total THEN Size ELSE Total - start) |-> start + i - 1]

\* A page arrives: pushData, and the place where the next one starts.
Received(i) ==
    /\ LET start == request[i]
           next  == start + Len(Page(start))
       IN  shown' = shown \o Page(start) /\ listIndex' = next /\ listEnd' = (next >= Total)
    /\ isLoadingData' = FALSE /\ request' = RemoveAt(request, i)
    /\ UNCHANGED <<selected, focused, crossed>>

\* The server's answer is not SUCCESS, or no list: nothing changes, and the flag
\* stays.
Rejected(i) ==
    /\ request' = RemoveAt(request, i)
    /\ UNCHANGED <<shown, selected, listIndex, listEnd, isLoadingData, focused, crossed>>

\* The request fails or times out.
Failed(i) ==
    /\ request' = RemoveAt(request, i) /\ isLoadingData' = FALSE
    /\ UNCHANGED <<shown, selected, listIndex, listEnd, focused, crossed>>

\* A click on an entry.
Toggle(x) ==
    /\ x \in ToSet(shown)
    /\ selected' = IF x \in selected THEN selected \ {x} ELSE selected \cup {x}
    /\ UNCHANGED <<shown, listIndex, listEnd, isLoadingData, request, focused, crossed>>

OnlineStep ==
    \/ Scroll
    \/ \E i \in DOMAIN request : Received(i) \/ Rejected(i) \/ Failed(i)
    \/ \E x \in 0 .. Total - 1 : Toggle(x)

-----------------------------------------------------------------------------
(* The attachment dialog: the list is made, and its first page fetched,    *)
(* the first time the user turns to the tab.                               *)

FilesInit == OnlineInit

\* setTabFocus("online").
FocusFiles ==
    /\ focused < MaxFocus /\ focused' = focused + 1
    /\ IF focused = 0 THEN Reset ELSE UNCHANGED <<shown, selected, listIndex, listEnd,
                                                  isLoadingData, request, crossed>>

FileScroll == Scroll

FileListReceived == \E i \in DOMAIN request : Received(i)

FileListRefused == \E i \in DOMAIN request : Rejected(i) \/ Failed(i)

FileClicked == \E x \in 0 .. Total - 1 : Toggle(x)

FilesNext == FocusFiles \/ FileScroll \/ FileListReceived \/ FileListRefused \/ FileClicked

-----------------------------------------------------------------------------
OnlineTypeOK ==
    /\ ToSet(shown) \subseteq 0 .. Total - 1 /\ selected \subseteq ToSet(shown)
    /\ listIndex \in 0 .. Total /\ ToSet(request) \subseteq 0 .. Total
    /\ Len(request) <= 1
    /\ {listEnd, isLoadingData, crossed} \subseteq BOOLEAN /\ focused \in 0 .. MaxFocus

\* The entries on the page follow one another in the server's order, without a gap
\* or a repetition, and the next page continues after the last of them; whatever
\* requests are refused, fail or cross a reset.
ShownWithoutGap ==
    \A i \in DOMAIN shown : shown[i] = listIndex - Len(shown) + i - 1

\* The list starts with the server's first file, unless it was reset while a
\* request for a later page was under way.
StartsAtFirst == shown # <<>> /\ ~crossed => shown[1] = 0

\* The reset list begins with the first page.
ResetStartsAtFirst == shown # <<>> => shown[1] = 0

\* The list of the attachment dialog is never taken back: pages are only added,
\* however often the user changes tabs, so a selection is never lost.
FilesStay == IsPrefix(shown, shown')
=============================================================================
