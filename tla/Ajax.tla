-------------------------------- MODULE Ajax --------------------------------
(* UE.ajax (ueditor.all.js): requests with XMLHttpRequest and with a script   *)
(* (JSONP).  A timer races the answer; both kinds tell the caller by          *)
(* onsuccess and onerror.  Urls, data and headers are left out.               *)
EXTENDS Integers, FiniteSets

CONSTANTS Requests,   \* requests that may be made
          Jsonp,      \* those with dataType 'jsonp'
          TimeOut     \* JSONP requests with the option timeOut

VARIABLES req  \* the requests, records as in NoReq
vars == <<req>>

NoReq == [readyState |-> 0,     \* of the XMLHttpRequest
          net |-> "idle",       \* what the browser does: "idle", "waits", "over"
          timer |-> FALSE, timeIsOut |-> FALSE,
          script |-> FALSE,     \* the script tag is in the document
          callback |-> FALSE,   \* the global function of the request exists
          success |-> 0, error |-> 0]
MaxCalls == 2
Init == req = [r \in Requests |-> NoReq]

Told(x) == x.success + x.error
Becomes(r, x) == req' = [req EXCEPT ![r] = x]
Success(x) == [x EXCEPT !.success = @ + 1]
Fail(x) == [x EXCEPT !.error = @ + 1]
Waits(r) == req[r].net = "waits"

(* doAjax: the request is opened and sent, and its timer runs *)
DoAjax(r) ==
    /\ r \notin Jsonp /\ req[r].net = "idle"
    /\ Becomes(r, [NoReq EXCEPT !.readyState = 1, !.net = "waits", !.timer = TRUE])

(* onreadystatechange: nothing before 4, then one of the callbacks *)
OnReadyState(x, ok) == IF ~x.timeIsOut /\ ok THEN Success(x) ELSE Fail(x)
Headers(r) ==
    /\ r \notin Jsonp /\ Waits(r) /\ req[r].readyState < 3
    /\ Becomes(r, [req[r] EXCEPT !.readyState = @ + 1])
Answer(r, ok) ==
    /\ r \notin Jsonp /\ Waits(r)
    /\ Becomes(r, OnReadyState([req[r] EXCEPT !.readyState = 4, !.net = "over"], ok))

(* The timer aborts a request that is not done; abort runs onreadystatechange *)
AbortToo(x) == Fail(OnReadyState([x EXCEPT !.readyState = 0, !.net = "over", !.timeIsOut = TRUE], FALSE))
Abort(x) == OnReadyState([x EXCEPT !.readyState = 0, !.net = "over", !.timeIsOut = TRUE], FALSE)
Timer(r) ==
    /\ r \notin Jsonp /\ req[r].timer
    /\ LET x == [req[r] EXCEPT !.timer = FALSE]
       IN  Becomes(r, IF x.readyState # 4 THEN Abort(x) ELSE x)

(* doJsonp: a script tag and a global function; the timer runs with timeOut only *)
DoJsonp(r) ==
    /\ r \in Jsonp /\ req[r].net = "idle"
    /\ Becomes(r, [NoReq EXCEPT !.net = "waits", !.script = TRUE, !.callback = TRUE, !.timer = r \in TimeOut])

(* getCallBack: after it was told the request removes its tag and its function *)
Finally(x) == [x EXCEPT !.script = FALSE, !.callback = FALSE]
Called(x) == Finally(Success([x EXCEPT !.timer = FALSE]))
Failed(x) == Finally(Fail(x))

(* The script runs and calls its function, if that still exists; or it does not *)
(* call it; or it cannot be loaded, which is told even when its tag is gone.    *)
ScriptCalls(r) ==
    /\ r \in Jsonp /\ Waits(r)
    /\ LET x == [req[r] EXCEPT !.net = "over"] IN Becomes(r, IF x.callback THEN Called(x) ELSE x)
ScriptIsSilent(r) == r \in Jsonp /\ Waits(r) /\ Becomes(r, [req[r] EXCEPT !.net = "over"])
ScriptFails(r) == r \in Jsonp /\ Waits(r) /\ Becomes(r, Failed([req[r] EXCEPT !.net = "over"]))
JsonpTimer(r) == r \in Jsonp /\ req[r].timer /\ Becomes(r, Failed([req[r] EXCEPT !.timer = FALSE]))

Next == \E r \in Requests :
            \/ DoAjax(r) \/ Headers(r) \/ (\E ok \in BOOLEAN : Answer(r, ok)) \/ Timer(r)
            \/ DoJsonp(r) \/ ScriptCalls(r) \/ ScriptIsSilent(r) \/ ScriptFails(r) \/ JsonpTimer(r)
(* Timers fire *)
Fairness == \A r \in Requests : WF_vars(Timer(r))
Spec == Init /\ [][Next]_vars /\ Fairness

----------------------------------------------------------------------------
(* The state has its type. *)
TypeOK ==
    \A r \in Requests : /\ req[r].readyState \in 0..4 /\ req[r].net \in {"idle", "waits", "over"}
                        /\ req[r].success \in 0..1 /\ req[r].error \in 0..MaxCalls

(* A caller is told once, however the answer, its headers and the timer cross. *)
(* Excepted: a JSONP request with timeOut whose script fails, which is told by *)
(* its timer as well.  After success nothing is reported as failed, also with  *)
(* timeOut.                                                                    *)
ToldOnce == \A r \in Requests : /\ r \notin TimeOut => Told(req[r]) <= 1
                                /\ req[r].success > 0 => req[r].error = 0

(* A JSONP request that was told leaves neither its tag nor its function.      *)
NothingIsLeft == \A r \in Jsonp : Told(req[r]) > 0 => ~req[r].script /\ ~req[r].callback

(* Every request of an XMLHttpRequest is told in the end, also by a server     *)
(* that never answers.                                                         *)
AlwaysTold == \A r \in Requests \ Jsonp : (req[r].net # "idle") ~> (Told(req[r]) = 1)

=============================================================================
