------------------------------ MODULE EventBase ------------------------------
(* The events of the editor and of its ui objects (ueditor.all.js, EventBase). *)
(* fireEvent walks the live list of listeners from its end; a listener may add *)
(* and remove listeners and fire events, also its own, before it returns.      *)
EXTENDS Integers, Sequences

CONSTANTS Types,        \* event types
          Listeners,    \* functions that may be registered
          Handled,      \* types the object has an on... method for
          Firings,      \* the sequences of types passed to one call of fireEvent
          Results,      \* what they return: nothing, true, or another value
          MaxListeners, \* bound on the listeners registered for a type
          MaxDepth      \* bound on nested firings

VARIABLES
    allListeners,  \* the list of each type
    calls,         \* the calls of fireEvent under way, the innermost last
    answer         \* of the call that returned last: its result, the result of the
                   \* function it ran last, and whether it was stopped by true
vars == <<allListeners, calls, answer>>

(* One call: its types and the current one, the index k, the listener or handler *)
(* that runs and the result so far.  For the properties: the list when the type  *)
(* was begun, who was called for it, what was taken from the list meanwhile and  *)
(* the result of the function that was run last.                                 *)
Call(types) == [types |-> types, i |-> 0, k |-> 0, running |-> "none", r |-> "undefined",
                start |-> <<>>, called |-> <<>>, removed |-> {}, last |-> "undefined", state |-> "walk"]
Answer(c) == [r |-> c.r, last |-> c.last, state |-> c.state]
NoAnswer == Answer([Call(<<>>) EXCEPT !.state = "none"])

Init == /\ allListeners = [t \in Types |-> <<>>]
        /\ calls = <<>> /\ answer = NoAnswer

Top == IF calls = <<>> THEN Call(<<>>) ELSE calls[Len(calls)]
SetTop(c) == calls' = [calls EXCEPT ![Len(calls)] = c]
TypeOf(c) == c.types[c.i]

(* The functions in a list *)
Members(list) == {list[n] : n \in DOMAIN list}

(* Scripts run when no event is fired, and in a listener that was called *)
Scripting == calls = <<>> \/ Top.running # "none"

AddListener(t, l) ==
    /\ Scripting /\ Len(allListeners[t]) < MaxListeners
    /\ allListeners' = [allListeners EXCEPT ![t] = Append(@, l)]
    /\ UNCHANGED <<calls, answer>>

(* removeItem, over the first n places of the array *)
RemoveItem(array, item) ==
    LET kept[n \in 0..Len(array)] ==
            IF n = 0 THEN <<>>
            ELSE IF array[n] = item THEN kept[n - 1] ELSE Append(kept[n - 1], array[n])
    IN  kept[Len(array)]
RemoveListener(t, l) ==
    /\ Scripting /\ l \in Members(allListeners[t])
    /\ allListeners' = [allListeners EXCEPT ![t] = RemoveItem(@, l)]
    /\ calls' = [n \in DOMAIN calls |->
                    IF calls[n].i > 0 /\ TypeOf(calls[n]) = t
                    THEN [calls[n] EXCEPT !.removed = @ \cup {l}] ELSE calls[n]]
    /\ UNCHANGED answer

FireEvent(types) ==
    /\ Scripting /\ Len(calls) < MaxDepth
    /\ calls' = Append(calls, Call(types)) /\ answer' = NoAnswer
    /\ UNCHANGED allListeners

Return(c) == calls' = SubSeq(calls, 1, Len(calls) - 1) /\ answer' = Answer(c)

(* The next type of the call, whose list is taken from its end *)
NextType ==
    /\ calls # <<>> /\ Top.running = "none" /\ Top.state = "walk" /\ Top.i < Len(Top.types)
    /\ LET list == allListeners[Top.types[Top.i + 1]]
       IN  SetTop([Top EXCEPT !.i = @ + 1, !.k = Len(list), !.start = list, !.called = <<>>,
                              !.removed = {}, !.state = "type"])
    /\ UNCHANGED <<allListeners, answer>>

(* The listener at k - 1, if one is left there; after the last one the on... method *)
VisitUpward ==
    /\ calls # <<>> /\ Top.running = "none" /\ Top.state = "type" /\ Top.k > 0
    /\ LET list == allListeners[TypeOf(Top)]
           at == Len(Top.start) - Top.k + 1
           found == at \in DOMAIN list
       IN  SetTop([Top EXCEPT !.k = @ - 1, !.running = IF found THEN list[at] ELSE "none",
                              !.called = IF found THEN Append(@, list[at]) ELSE @])
    /\ UNCHANGED <<allListeners, answer>>
Visit ==
    /\ calls # <<>> /\ Top.running = "none" /\ Top.state = "type" /\ Top.k > 0
    /\ LET k == Top.k - 1
           list == allListeners[TypeOf(Top)]
           found == k + 1 \in DOMAIN list
       IN  SetTop([Top EXCEPT !.k = k, !.running = IF found THEN list[k + 1] ELSE "none",
                              !.called = IF found THEN Append(@, list[k + 1]) ELSE @])
    /\ UNCHANGED <<allListeners, answer>>
OnMethod ==
    /\ calls # <<>> /\ Top.running = "none" /\ Top.state = "type" /\ Top.k <= 0
    /\ SetTop([Top EXCEPT !.state = "walk",
                          !.running = IF TypeOf(Top) \in Handled THEN "on" ELSE "none"])
    /\ UNCHANGED <<allListeners, answer>>

(* A listener returns; true ends the whole call, the on... method overrides the result *)
Keep(c, result) == IF result # "undefined" THEN [c EXCEPT !.r = result] ELSE c
ListenerReturns(result) ==
    /\ calls # <<>> /\ Top.running \notin {"none", "on"}
    /\ LET c == [Top EXCEPT !.running = "none", !.last = result]
       IN  IF result = "true" THEN Return([c EXCEPT !.r = "true", !.state = "stopped"])
           ELSE SetTop(Keep(c, result)) /\ UNCHANGED answer
    /\ UNCHANGED allListeners
OnReturns(result) ==
    /\ calls # <<>> /\ Top.running = "on"
    /\ SetTop([Top EXCEPT !.running = "none", !.r = result, !.last = result])
    /\ UNCHANGED <<allListeners, answer>>
Finish ==
    /\ calls # <<>> /\ Top.running = "none" /\ Top.state = "walk" /\ Top.i = Len(Top.types)
    /\ Return([Top EXCEPT !.state = "done"]) /\ UNCHANGED allListeners

Next == \/ \E t \in Types, l \in Listeners : AddListener(t, l) \/ RemoveListener(t, l)
        \/ \E types \in Firings : FireEvent(types)
        \/ NextType \/ Visit \/ OnMethod \/ Finish
        \/ \E result \in Results : ListenerReturns(result) \/ OnReturns(result)
Spec == Init /\ [][Next]_vars

----------------------------------------------------------------------------
(* The state has its type. *)
TypeOK ==
    /\ allListeners \in [Types -> UNION {[1..n -> Listeners] : n \in 0..MaxListeners}]
    /\ \A n \in DOMAIN calls : /\ calls[n].k \in 0..MaxListeners
                               /\ calls[n].running \in Listeners \cup {"none", "on"}
                               /\ calls[n].r \in Results \cup {"undefined"}

(* The calls whose current type has been walked to its end *)
Walked == {calls[n] : n \in {n \in DOMAIN calls : calls[n].i > 0 /\ calls[n].k = 0 /\ calls[n].state = "walk"}}

(* While nobody removes one, each listener that was registered when the event  *)
(* was fired runs once for every registration, the newest first, and those     *)
(* added meanwhile are not run (fireEvent walks the live array by an index).   *)
EachOnceInOrder == \A c \in Walked : c.removed = {} =>
    /\ Len(c.called) = Len(c.start)
    /\ \A n \in DOMAIN c.called : c.called[n] = c.start[Len(c.start) + 1 - n]

(* Whatever listeners do to the list, also in nested events, no listener that  *)
(* was registered at the start and not removed is passed over; it may run      *)
(* twice when one before it is removed.                                        *)
NobodyIsSkipped ==
    \A c \in Walked : Members(c.start) \ c.removed \subseteq Members(c.called)

(* A call that is not ended by true returns what its functions returned last,  *)
(* leaving out those that returned nothing, also over several types.           *)
ResultIsLastValue ==
    answer.state = "done" /\ answer.last # "undefined" => answer.r = answer.last
=============================================================================
