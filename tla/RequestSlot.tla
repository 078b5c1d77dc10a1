---------------------------- MODULE RequestSlot ----------------------------
(***************************************************************************)
(* The request layer of the iOS client.  Every page fills in the url and   *)
(* the parameters of one shared object, UserRequestToo, and then calls its *)
(* statrrequestgetwith, which reads both again, signs the parameters and   *)
(* hands them on.  Pages do so on the main thread; the refresh at launch   *)
(* and after a login does so on a background queue.  Nothing locks.        *)
(***************************************************************************)
EXTENDS Naturals, Sequences, FiniteSets

CONSTANTS Main,        \* the main thread
          Blocks,      \* background blocks, each run once
          Kinds,       \* kinds of requests that the main thread makes
          Unsigned,    \* the kinds with RegistNewUser, LoginUrl, RegistTelCode
          ParamsFirst, \* the kinds whose page sets the parameters first
          MaxMain,     \* bound: requests of the main thread
          None         \* nil

Threads == {Main} \cup Blocks
List(n) == IF n = 1 THEN "friends" ELSE "groups"

\* A request is named by its thread, its number there and its kind.
Requests == [by : {Main}, no : 1 .. MaxMain, kind : Kinds]
              \cup {[by |-> b, no |-> n, kind |-> List(n)] : b \in Blocks, n \in 1 .. 2}

\* A dictionary of parameters: whose it is, and the signature it carries, which
\* names the owner of the dictionary that was hashed.
Dicts == [of : Requests, token : Requests \cup {None}]

VARIABLES up,            \* the process runs
          networkError,  \* WQAsiNetworkHandler.networkError
          rquesturl, params,   \* the shared object
          pc, cur, made,       \* per thread: next statement, request, requests made
          hacstr, dic, url,    \* per thread: locals of statrrequestgetwith
          sent,          \* netWorkItem: the last request given to the network, if any
          burst          \* history: requests since the object was last at rest

vars == <<up, networkError, rquesturl, params, pc, cur, made, hacstr, dic, url, sent, burst>>

Steps == {"idle", "second", "check", "hash", "copy", "store", "readurl", "handover"}

TypeOK ==
    /\ up \in BOOLEAN
    /\ networkError \in BOOLEAN
    /\ rquesturl \in Requests \cup {None}
    /\ params \in Dicts \cup {None}
    /\ pc \in [Threads -> Steps]
    /\ cur \in [Threads -> Requests \cup {None}]
    /\ made \in [Threads -> Nat]
    /\ hacstr \in [Threads -> Requests \cup {None}]
    /\ dic \in [Threads -> Dicts \cup {None}]
    /\ url \in [Threads -> Requests \cup {None}]
    /\ sent \subseteq [req : Requests, url : Requests, params : Dicts, burst : SUBSET Requests]
    /\ burst \subseteq Requests

Init ==
    /\ up = TRUE
    /\ networkError = FALSE
    /\ rquesturl = None
    /\ params = None
    /\ pc = [t \in Threads |-> "idle"]
    /\ cur = [t \in Threads |-> None]
    /\ made = [t \in Threads |-> 0]
    /\ hacstr = [t \in Threads |-> None]
    /\ dic = [t \in Threads |-> None]
    /\ url = [t \in Threads |-> None]
    /\ sent = {}
    /\ burst = {}

Busy == {t \in Threads : pc[t] # "idle"}
Fresh(r) == [of |-> r, token |-> None]

SetParamsOnce(r) == UNCHANGED rquesturl /\ params' = IF params = None THEN Fresh(r) ELSE params

SetUrl(r) == rquesturl' = r /\ UNCHANGED params
SetParams(r) == params' = Fresh(r) /\ UNCHANGED rquesturl

-----------------------------------------------------------------------------
(* A page or the refresh fills in the object                               *)

\* The first assignment of a request: the url, or the parameters where the
\* page sets them first.
Start(t, r) ==
    /\ up /\ pc[t] = "idle"
    /\ IF r.kind \in ParamsFirst THEN SetParams(r) ELSE SetUrl(r)
    /\ pc' = [pc EXCEPT ![t] = "second"]
    /\ cur' = [cur EXCEPT ![t] = r]
    /\ made' = [made EXCEPT ![t] = r.no]
    /\ burst' = IF Busy = {} THEN {r} ELSE burst \cup {r}
    /\ UNCHANGED <<up, networkError, hacstr, dic, url, sent>>

StartPage(k) ==
    /\ made[Main] < MaxMain
    /\ Start(Main, [by |-> Main, no |-> made[Main] + 1, kind |-> k])

\* insertAndSaveFriendandgroup, then insertGroup
StartRefresh(b) ==
    /\ made[b] < 2
    /\ Start(b, [by |-> b, no |-> made[b] + 1, kind |-> List(made[b] + 1)])

Second(t) ==
    /\ up /\ pc[t] = "second"
    /\ IF cur[t].kind \in ParamsFirst THEN SetUrl(cur[t]) ELSE SetParams(cur[t])
    /\ pc' = [pc EXCEPT ![t] = "check"]
    /\ UNCHANGED <<up, networkError, cur, made, hacstr, dic, url, sent, burst>>

-----------------------------------------------------------------------------
(* statrrequestgetwith                                                     *)

CheckUrl(t) ==
    /\ up /\ pc[t] = "check"
    /\ pc' = [pc EXCEPT ![t] = IF rquesturl.kind \in Unsigned THEN "readurl" ELSE "hash"]
    /\ UNCHANGED <<up, networkError, rquesturl, params, cur, made, hacstr, dic, url, sent, burst>>

HashParams(t) ==
    /\ up /\ pc[t] = "hash"
    /\ hacstr' = [hacstr EXCEPT ![t] = params.of]
    /\ pc' = [pc EXCEPT ![t] = "copy"]
    /\ UNCHANGED <<up, networkError, rquesturl, params, cur, made, dic, url, sent, burst>>

CopyParams(t) ==
    /\ up /\ pc[t] = "copy"
    /\ dic' = [dic EXCEPT ![t] = [params EXCEPT !.token = hacstr[t]]]
    /\ pc' = [pc EXCEPT ![t] = "store"]
    /\ UNCHANGED <<up, networkError, rquesturl, params, cur, made, hacstr, url, sent, burst>>

StoreParams(t) ==
    /\ up /\ pc[t] = "store"
    /\ params' = dic[t]
    /\ pc' = [pc EXCEPT ![t] = "readurl"]
    /\ UNCHANGED <<up, networkError, rquesturl, cur, made, hacstr, dic, url, sent, burst>>

ReadUrl(t) ==
    /\ up /\ pc[t] = "readurl"
    /\ url' = [url EXCEPT ![t] = rquesturl]
    /\ pc' = [pc EXCEPT ![t] = "handover"]
    /\ UNCHANGED <<up, networkError, rquesturl, params, cur, made, hacstr, dic, sent, burst>>

\* The statement ends: the locals are gone, the shared object keeps its values.
Return(t) ==
    /\ pc' = [pc EXCEPT ![t] = "idle"]
    /\ cur' = [cur EXCEPT ![t] = None]
    /\ hacstr' = [hacstr EXCEPT ![t] = None]
    /\ dic' = [dic EXCEPT ![t] = None]
    /\ url' = [url EXCEPT ![t] = None]
    /\ UNCHANGED <<up, networkError, rquesturl, params, made, burst>>

\* conURL starts a request for the url that was read and the parameters of now;
\* its blocks are the caller's.
HandOver(t) ==
    /\ up /\ pc[t] = "handover"
    /\ ~networkError
    /\ sent' = {[req |-> cur[t], url |-> url[t], params |-> params, burst |-> burst]}
    /\ Return(t)

\* conURL calls the failure block and creates no item.
Refused(t) ==
    /\ up /\ pc[t] = "handover"
    /\ networkError
    /\ UNCHANGED sent
    /\ Return(t)

-----------------------------------------------------------------------------
(* Environment                                                             *)

\* The reachability block
StatusChange ==
    /\ up
    /\ networkError' = ~networkError
    /\ UNCHANGED <<up, rquesturl, params, pc, cur, made, hacstr, dic, url, sent, burst>>

\* The properties are nonatomic: a thread that reads a value another thread is
\* replacing may touch a released object, which ends the process.
RaceCrash ==
    /\ up /\ Cardinality(Busy) > 1
    /\ up' = FALSE
    /\ UNCHANGED <<networkError, rquesturl, params, pc, cur, made, hacstr, dic, url, sent, burst>>

Next ==
    \/ \E k \in Kinds : StartPage(k)
    \/ \E b \in Blocks : StartRefresh(b)
    \/ \E t \in Threads :
          Second(t) \/ CheckUrl(t) \/ HashParams(t) \/ CopyParams(t) \/ StoreParams(t)
            \/ ReadUrl(t) \/ HandOver(t) \/ Refused(t)
    \/ StatusChange
    \/ RaceCrash

Spec == Init /\ [][Next]_vars

-----------------------------------------------------------------------------
(* Properties                                                              *)

\* A request that no other one overlapped goes out with its own url and
\* parameters, signed over exactly these unless its url is one of the three
\* that need no signature: nothing that earlier requests left in the shared
\* object gets into it.
AloneIsOwn ==
    \A m \in sent : m.burst = {m.req} =>
        /\ m.url = m.req
        /\ m.params.of = m.req
        /\ m.params.token = IF m.req.kind \in Unsigned THEN None ELSE m.req

\* Requests that overlap can be mixed up, but only within one burst: the url,
\* the parameters and the signature of whatever is sent stem from requests made
\* since the object was last at rest, never from an older one.
MixedOnlyWithinBurst ==
    \A m \in sent :
        /\ m.url \in m.burst
        /\ m.params.of \in m.burst
        /\ m.params.token \in m.burst \cup {None}
=============================================================================
