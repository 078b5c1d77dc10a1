------------------------------- MODULE Gateway -------------------------------
(***************************************************************************)
(* From EOSUtils through the node server to the chain.  A Java thread posts *)
(* a JSON body and blocks; the server collects the body, has eosjs sign and *)
(* push one contract action, and answers with the transaction.             *)
(*                                                                         *)
(* HttpUtils, eosjs and the chain are not part of the repository: they are  *)
(* modelled from how EOSUtils and the server use them.                     *)
(***************************************************************************)
EXTENDS Ledger, Sequences

CONSTANTS Calls,      \* the calls of EOSUtils
          Kinds,      \* the operations they may be for
          Data,       \* the arguments they may carry
          BodyLen,    \* bytes in a request body
          CharEnds,   \* offsets in the body at which a character ends
          MaxHead     \* bound: blocks produced

\* "key" is EOSKey, "other" a path that route does not know.
AllKinds == Actions \cup {"key", "other"}

ASSUME KindsAssumption == Kinds \subseteq AllKinds
ASSUME BodyAssumption ==
    /\ BodyLen \in Nat \ {0}
    /\ CharEnds \subseteq 1..BodyLen
    /\ BodyLen \in CharEnds
ASSUME HeadAssumption == MaxHead \in Nat

VARIABLES java,     \* java[c]: the calling thread: idle, waiting, done
          kind,     \* kind[c]: the operation
          arg,      \* arg[c]: its arguments
          ret,      \* ret[c]: what the call returned
          gw,       \* gw[c]: how far the server is with the request
          bytes,    \* bytes[c]: bytes of the body received
          text,     \* text[c]: the decoded text, intact or garbled
          obj,      \* the globals trans, redenv and egggame: whose object
          push,     \* push[c]: the transaction on its way to the chain
          tx,       \* tx[c]: the signed transaction
          resp,     \* resp[c]: what the server wrote into c's response
          up,       \* the server process runs
          head,     \* counts changes of the header that eosjs gives a transaction now
          tables    \* the tables of the contracts

vars == <<java, kind, arg, ret, gw, bytes, text, obj, push, tx, resp, up, head,
          tables>>
jvars == <<java, kind, arg, ret>>
nvars == <<gw, bytes, text, obj, resp, up>>
cvars == <<push, tx, head, tables>>

None == "none"

\* What the id of a transaction is compared with: nothing yet, null, a key pair.
NotId(k) == [head |-> 0, kind |-> k, data |-> None, text |-> None]
NoTx == NotId("none")
Null == NotId("null")
Keys == NotId("keys")
Globals == {"trans", "redenv", "egggame"}

\* The global variable the handler of an action assigns its object to.
GlobalOf(k) == IF k = "transfer" THEN "trans"
               ELSE IF k \in {"send", "recv"} THEN "redenv" ELSE "egggame"

Init ==
    /\ java = [c \in Calls |-> "idle"]
    /\ kind = [c \in Calls |-> None]
    /\ arg = [c \in Calls |-> None]
    /\ ret = [c \in Calls |-> NoTx]
    /\ gw = [c \in Calls |-> "none"]
    /\ bytes = [c \in Calls |-> 0]
    /\ text = [c \in Calls |-> "intact"]
    /\ obj = [g \in Globals |-> None]
    /\ push = [c \in Calls |-> "none"]
    /\ tx = [c \in Calls |-> NoTx]
    /\ resp = [c \in Calls |-> NoTx]
    /\ up = TRUE
    /\ head = 0
    /\ tables = EmptyTables

----------------------------------------------------------------------------
(***************************************************************************)
(* The Java side.                                                          *)
(***************************************************************************)

\* EOSUtils.transfer, sendRed, recvRed, eggCreate, eggBet, eggSettlement, EOSKey:
\* post the arguments and wait.
Post(c, k, d) ==
    /\ java[c] = "idle"
    /\ java' = [java EXCEPT ![c] = "waiting"]
    /\ kind' = [kind EXCEPT ![c] = k]
    /\ arg' = [arg EXCEPT ![c] = d]
    /\ UNCHANGED <<ret, nvars, cvars>>

\* HttpUtils reads the response and the method returns the id in it.
JavaReturn(c) ==
    /\ java[c] = "waiting" /\ resp[c] # NoTx
    /\ java' = [java EXCEPT ![c] = "done"]
    /\ ret' = [ret EXCEPT ![c] = resp[c]]
    /\ UNCHANGED <<kind, arg, nvars, cvars>>

\* An IOException (refused, reset, timed out) is printed and null returned.
JavaGivesUp(c) ==
    /\ java[c] = "waiting"
    /\ java' = [java EXCEPT ![c] = "done"]
    /\ ret' = [ret EXCEPT ![c] = Null]
    /\ UNCHANGED <<kind, arg, nvars, cvars>>

----------------------------------------------------------------------------
(***************************************************************************)
(* The node server.                                                        *)
(***************************************************************************)

\* onRequest and route: an unknown path is never answered.
Route(c) ==
    /\ up /\ java[c] = "waiting" /\ gw[c] = "none"
    /\ gw' = [gw EXCEPT ![c] = CASE kind[c] = "other" -> "silent"
                                 [] kind[c] = "key" -> "keygen"
                                 [] OTHER -> "receiving"]
    /\ UNCHANGED <<bytes, text, obj, resp, up, jvars, cvars>>

\* createkey: the keys are written when randomKey resolves.
CreateKey(c) ==
    /\ up /\ gw[c] = "keygen"
    /\ gw' = [gw EXCEPT ![c] = "replied"]
    /\ resp' = [resp EXCEPT ![c] = Keys]
    /\ UNCHANGED <<bytes, text, obj, up, jvars, cvars>>

\* on 'data': body += chunk decodes each chunk by itself, so a character whose
\* bytes lie in two chunks is replaced.  A chunk is n more bytes of the body; it
\* may still be in flight when the caller has gone.
Chunk(c, n) ==
    /\ up /\ gw[c] = "receiving"
    /\ bytes[c] + n <= BodyLen
    /\ bytes' = [bytes EXCEPT ![c] = @ + n]
    /\ text' = [text EXCEPT ![c] = IF bytes[c] + n \in CharEnds THEN @ ELSE "garbled"]
    /\ UNCHANGED <<gw, obj, resp, up, jvars, cvars>>

\* on 'end': parse, make the object, keep it in a global, hand it the response,
\* and ask eosjs for the contract.
End(c) ==
    /\ up /\ gw[c] = "receiving" /\ bytes[c] = BodyLen
    /\ gw' = [gw EXCEPT ![c] = "contract"]
    /\ obj' = [obj EXCEPT ![GlobalOf(kind[c])] = c]
    /\ UNCHANGED <<bytes, text, resp, up, jvars, cvars>>

\* The header refers to the last irreversible block, and the expiry counts from the
\* time of the head block: the same action signed under the same header is the same
\* transaction.
Sign(c) == [head |-> head, kind |-> kind[c], data |-> arg[c], text |-> text[c]]

\* eos.contract resolved: the contract method signs and pushes the action.
ContractReady(c) ==
    /\ up /\ gw[c] = "contract"
    /\ gw' = [gw EXCEPT ![c] = "pushing"]
    /\ tx' = [tx EXCEPT ![c] = Sign(c)]
    /\ push' = [push EXCEPT ![c] = "sent"]
    /\ UNCHANGED <<bytes, text, obj, resp, up, head, tables, jvars>>

\* Mutant: res is reached through the global the handler assigned.
ResponseOfGlobal(c) == obj[GlobalOf(kind[c])]

\* setRes keeps the response in a variable of the object that sends the action,
\* which the callback closes over.
ResponseOf(c) == c

\* Mutant: the callback logs the result and does not end the response.
ReplyNotEnded(c) ==
    /\ up /\ gw[c] = "pushing" /\ push[c] = "accepted"
    /\ gw' = [gw EXCEPT ![c] = "replied"]
    /\ UNCHANGED <<bytes, text, obj, resp, up, jvars, cvars>>

\* .then: the result is written to the response.
Reply(c) ==
    /\ up /\ gw[c] = "pushing" /\ push[c] = "accepted"
    /\ gw' = [gw EXCEPT ![c] = "replied"]
    /\ resp' = [resp EXCEPT ![ResponseOf(c)] = tx[c]]
    /\ UNCHANGED <<bytes, text, obj, up, jvars, cvars>>

\* Mutant: a failed push is tried again.
PushFailsRetry(c) ==
    /\ up /\ gw[c] = "pushing"
    /\ push[c] \in {"rejected", "accepted"}
    /\ gw' = [gw EXCEPT ![c] = "contract"]
    /\ UNCHANGED <<bytes, text, obj, resp, up, jvars, cvars>>

\* The push is rejected, or its answer lost: there is no catch, and nothing is
\* written to the response.
PushFails(c) ==
    /\ up /\ gw[c] = "pushing"
    /\ push[c] \in {"rejected", "accepted"}
    /\ gw' = [gw EXCEPT ![c] = "silent"]
    /\ UNCHANGED <<bytes, text, obj, resp, up, jvars, cvars>>

\* eos.contract is rejected: no catch either.
ContractFails(c) ==
    /\ up /\ gw[c] = "contract"
    /\ gw' = [gw EXCEPT ![c] = "silent"]
    /\ UNCHANGED <<bytes, text, obj, resp, up, jvars, cvars>>

\* JSON.parse throws in some handler (a body that is not JSON), which ends the
\* process and with it every open request.
ParseThrows ==
    /\ up
    /\ up' = FALSE
    /\ gw' = [c \in Calls |-> IF gw[c] \in {"none", "replied"} THEN gw[c] ELSE "dead"]
    /\ UNCHANGED <<bytes, text, obj, resp, jvars, cvars>>

\* index.js: the server is started again, with fresh globals.
Start ==
    /\ ~up
    /\ up' = TRUE
    /\ obj' = [g \in Globals |-> None]
    /\ UNCHANGED <<gw, bytes, text, resp, jvars, cvars>>

----------------------------------------------------------------------------
(***************************************************************************)
(* The chain.                                                              *)
(***************************************************************************)

RowsOf(ts) == UNION {ts[t] : t \in Tables}

\* The transaction is new: its action runs.
Accept(c) ==
    /\ push[c] = "sent"
    /\ \A r \in RowsOf(tables) : r.tx # tx[c]
    /\ tables' = Emplace(tables, tx[c], c)
    /\ push' = [push EXCEPT ![c] = "accepted"]
    /\ UNCHANGED <<tx, head, jvars, nvars>>

\* Lost on the way, a duplicate, expired, or refused for another reason.
Reject(c) ==
    /\ push[c] = "sent"
    /\ push' = [push EXCEPT ![c] = "rejected"]
    /\ UNCHANGED <<tx, head, tables, jvars, nvars>>

NewBlock ==
    /\ head < MaxHead
    /\ head' = head + 1
    /\ UNCHANGED <<push, tx, tables, jvars, nvars>>

----------------------------------------------------------------------------
Progress(c) ==
    \/ Route(c) \/ CreateKey(c) \/ \E n \in 1..BodyLen : Chunk(c, n)
    \/ End(c) \/ ContractReady(c) \/ ContractFails(c)
    \/ Reply(c) \/ PushFails(c) \/ Accept(c) \/ Reject(c)
    \/ JavaReturn(c)

Next ==
    \/ \E c \in Calls :
          \/ \E k \in Kinds, d \in Data : Post(c, k, d)
          \/ Progress(c)
          \/ JavaGivesUp(c)
    \/ ParseThrows \/ Start \/ NewBlock

Spec == Init /\ [][Next]_vars

\* The event loop runs every ready callback, eosjs settles every promise and the
\* socket delivers what was written; nobody has to start the server again.
Fairness == \A c \in Calls : WF_vars(Progress(c))

FairSpec == Spec /\ Fairness

----------------------------------------------------------------------------
(***************************************************************************)
(* Properties.                                                             *)
(***************************************************************************)

Txs == [head : 0..MaxHead, kind : Actions, data : Data, text : {"intact", "garbled"}]
Rows == [id : Nat, data : Data, text : {"none", "intact", "garbled"}, tx : Txs, call : Calls]

\* The variables hold what the code keeps in them.
TypeOK ==
    /\ java \in [Calls -> {"idle", "waiting", "done"}]
    /\ kind \in [Calls -> Kinds \cup {None}]
    /\ arg \in [Calls -> Data \cup {None}]
    /\ ret \in [Calls -> Txs \cup {NoTx, Null, Keys}]
    /\ gw \in [Calls -> {"none", "keygen", "receiving", "contract", "pushing",
                         "replied", "silent", "dead"}]
    /\ bytes \in [Calls -> 0..BodyLen]
    /\ text \in [Calls -> {"intact", "garbled"}]
    /\ obj \in [Globals -> Calls \cup {None}]
    /\ push \in [Calls -> {"none", "sent", "accepted", "rejected"}]
    /\ tx \in [Calls -> Txs \cup {NoTx}]
    /\ resp \in [Calls -> Txs \cup {NoTx, Keys}]
    /\ up \in BOOLEAN
    /\ head \in 0..MaxHead
    /\ tables \in [Tables -> SUBSET Rows]

IsId(v) == v \notin {NoTx, Null, Keys}

\* Whatever requests are open beside it, a call that returns a transaction id
\* returns the id of its own action, and the row of that action, with the call's
\* arguments, is in the table of the call's operation.
AnswerIsOwn ==
    \A c \in Calls : IsId(ret[c]) =>
        /\ ret[c] = tx[c]
        /\ \E r \in tables[TableOf[kind[c]]] :
              r.call = c /\ r.tx = ret[c] /\ r.data = arg[c]

\* The server never pushes a call twice: over every crash, lost answer and caller
\* that gave up, a call has at most one row, and so has a transaction.
RecordedAtMostOnce ==
    \A r, s \in RowsOf(tables) : (r.call = s.call \/ r.tx = s.tx) => r = s

\* The tables are a log: no step removes or changes a row, and a new row has the
\* next key, above every key of its table.
AppendOnly ==
    [][\A t \in Tables :
          /\ tables[t] \subseteq tables'[t]
          /\ \A r \in tables'[t] \ tables[t], s \in tables[t] : s.id < r.id]_vars

\* A caller whose request the server has begun to receive is answered, unless it
\* gave up itself, the push failed, or the process died: no request is lost
\* between the callbacks.
RoutedIsAnswered ==
    \A c \in Calls :
        gw[c] \in {"receiving", "keygen"}
            ~> (java[c] = "done" \/ gw[c] \in {"silent", "dead"})

\* The category of a game and the name in a bet or settlement are stored as they
\* were sent.
TextStoredAsSent == \A r \in RowsOf(tables) : r.text # "garbled"

\* What the caller sees of a call, and which calls have a row: the service that
\* RecordService promises.  Key requests record nothing and are not its calls.
Outcome ==
    [c \in Calls |->
        IF kind[c] = "key" \/ java[c] = "idle" THEN "idle"
        ELSE IF java[c] = "waiting" THEN "pending"
        ELSE IF ret[c] = Null THEN "unknown" ELSE "ok"]

Service == INSTANCE RecordService WITH
    outcome <- Outcome, recorded <- {r.call : r \in RowsOf(tables)}

\* The Java, node and contract code together implement RecordService.
ImplementsService == Service!SSpec
=============================================================================
