----------------------------- MODULE ImageDialog -----------------------------
(***************************************************************************)
(* The tabs "online" and "search" of the image dialog.  Turning to the     *)
(* online tab always resets its list.  A search asks an outside service    *)
(* for images; each answer replaces the results on the page.               *)
(***************************************************************************)
EXTENDS OnlineList

CONSTANT MaxSearches

VARIABLES
    searches,   \* number of searches started: a search is known by its number
    underway,   \* the searches that have no answer yet
    results,    \* what the result list holds: results of searches, or 0 for a hint
    overtaken   \* history: a search or a reset came while one was under way

search == <<searches, underway, results, overtaken>>
vars   == <<online, search>>

Init == OnlineInit /\ searches = 0 /\ underway = {} /\ results = {} /\ overtaken = FALSE

\* setTabFocus("online"): the object is made at the first turn, its constructor
\* resets, and the list is reset in any case.
FocusOnline ==
    /\ focused < MaxFocus /\ focused' = focused + 1
    /\ Reset
    /\ UNCHANGED search

\* The search button with a word in the box: getImageData.
SearchFor ==
    /\ searches < MaxSearches
    /\ searches' = searches + 1
    /\ underway' = underway \cup {searches + 1}
    /\ results' = {0}
    /\ overtaken' = (overtaken \/ underway # {})
    /\ UNCHANGED online

\* The button that clears the box and the results.
SearchReset ==
    /\ results # {}
    /\ results' = {}
    /\ overtaken' = (overtaken \/ underway # {})
    /\ UNCHANGED <<online, searches, underway>>

\* setList replaces what is shown; an empty answer shows the hint to try again.
setList(n, found) == results' = IF found THEN {n} ELSE {0}

SearchAnswered(n) ==
    /\ n \in underway
    /\ underway' = underway \ {n}
    /\ \E found \in BOOLEAN : setList(n, found)
    /\ UNCHANGED <<online, searches, overtaken>>

Next ==
    \/ FocusOnline
    \/ OnlineStep /\ UNCHANGED search
    \/ SearchFor \/ SearchReset
    \/ \E n \in 1 .. MaxSearches : SearchAnswered(n)

Spec == Init /\ [][Next]_vars

TypeOK ==
    /\ OnlineTypeOK
    /\ searches \in 0 .. MaxSearches /\ underway \subseteq 1 .. searches
    /\ results \subseteq 0 .. searches

\* The results on the page are those of one search, and of the last one unless a
\* later search or a reset overtook its answer.
ResultsOfOneSearch ==
    /\ Cardinality(results) <= 1
    /\ ~overtaken => results \cap 1 .. MaxSearches \subseteq {searches}
=============================================================================
