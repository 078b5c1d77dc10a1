--------------------------- MODULE Gateway_proofs ---------------------------
(***************************************************************************)
(* Proofs about Gateway, for every set of calls, operations and arguments,  *)
(* every length of a body and every number of blocks.                       *)
(***************************************************************************)
EXTENDS Gateway, TLAPS

(***************************************************************************)
(* The inductive invariant.  AnswerIsOwn and RecordedAtMostOnce say nothing *)
(* of calls that have not returned; what keeps them true is how far a call  *)
(* has come (CallsStaged: nothing is pushed before the contract is there,   *)
(* and what is pushed is the call's own action), that only a finished       *)
(* handler wrote a response (AnswersOwn), and that rows and accepted pushes *)
(* correspond (RowsTrue).                                                   *)
(***************************************************************************)
CallsStaged ==
    \A c \in Calls :
        /\ java[c] = "idle" => gw[c] = "none"
        /\ java[c] # "idle" => kind[c] \in Kinds /\ arg[c] \in Data
        /\ gw[c] \in {"none", "keygen", "receiving", "contract"} => push[c] = "none"
        /\ gw[c] \in {"receiving", "contract", "pushing"} => kind[c] \in Actions
        /\ gw[c] = "keygen" => kind[c] = "key"
        /\ push[c] # "none" => /\ kind[c] \in Actions /\ arg[c] \in Data /\ tx[c] \in Txs
                               /\ tx[c].kind = kind[c] /\ tx[c].data = arg[c]

AnswersOwn ==
    \A c \in Calls :
        /\ resp[c] # NoTx => gw[c] = "replied"
        /\ resp[c] = Keys => kind[c] = "key"
        /\ resp[c] \in {NoTx, Keys} \/ (push[c] = "accepted" /\ resp[c] = tx[c])
        /\ ret[c] \in {NoTx, Null} \/ (ret[c] = resp[c] /\ java[c] = "done")
        /\ java[c] = "done" => ret[c] # NoTx

RowsTrue ==
    /\ \A t \in Tables : \A r \in tables[t] :
          /\ push[r.call] = "accepted" /\ t = TableOf[kind[r.call]]
          /\ r.tx = tx[r.call] /\ r.data = arg[r.call]
    /\ \A c \in Calls : push[c] = "accepted" =>
          \E r \in tables[TableOf[kind[c]]] : r.call = c

\* The keys in use are those below the next key: the table is a log without gaps.
KeysContiguous ==
    \A t \in Tables :
        /\ AvailablePrimaryKey(tables[t]) \in Nat
        /\ {r.id : r \in tables[t]} = 0..(AvailablePrimaryKey(tables[t]) - 1)

GatewayInv ==
    TypeOK /\ CallsStaged /\ AnswersOwn /\ RowsTrue /\ KeysContiguous /\ RecordedAtMostOnce

----------------------------------------------------------------------------
(***************************************************************************)
(* Ids, tables and keys.                                                   *)
(***************************************************************************)

\* No transaction is taken for "nothing yet", for null or for a key pair.
LEMMA IdsDistinct ==
    /\ NoTx # Null /\ NoTx # Keys /\ Null # Keys
    /\ \A x \in Txs : x # NoTx /\ x # Null /\ x # Keys
<1>1. NoTx.kind = "none" /\ Null.kind = "null" /\ Keys.kind = "keys"
  BY DEF NoTx, Null, Keys, NotId
<1>2. \A x \in Txs : x.kind \in Actions
  BY DEF Txs
<1>3. "none" \notin Actions /\ "null" \notin Actions /\ "keys" \notin Actions
  BY DEF Actions
<1> QED BY <1>1, <1>2, <1>3

LEMMA TableOfAction == \A a \in Actions : TableOf[a] \in Tables
  BY DEF Tables

\* available_primary_key counts on: the key after the row that takes the next key.
LEMMA NextKey ==
    ASSUME NEW rows, NEW n \in Nat, NEW row, row.id = n,
           {r.id : r \in rows} = 0..(n - 1)
    PROVE  /\ AvailablePrimaryKey(rows \cup {row}) = n + 1
           /\ {r.id : r \in rows \cup {row}} = 0..n
<1> DEFINE ids == {r.id : r \in rows \cup {row}}
<1>1. ids = 0..n
  <2>1. ids = {r.id : r \in rows} \cup {n}
    OBVIOUS
  <2>2. (0..(n - 1)) \cup {n} = 0..n
    OBVIOUS
  <2> QED BY <2>1, <2>2
<1>2. Max(0..n) = n
  <2>1. n \in 0..n /\ \A y \in 0..n : n >= y
    OBVIOUS
  <2>2. \A x \in 0..n : (\A y \in 0..n : x >= y) => x = n
    OBVIOUS
  <2> QED BY <2>1, <2>2 DEF Max
<1>3. AvailablePrimaryKey(rows \cup {row}) = Max(ids) + 1
  BY DEF AvailablePrimaryKey
<1> QED BY <1>1, <1>2, <1>3

LEMMA InitGateway == Init => GatewayInv
<1> SUFFICES ASSUME Init PROVE GatewayInv
  OBVIOUS
<1>1. TypeOK
  BY BodyAssumption, HeadAssumption DEF Init, TypeOK, EmptyTables, Globals
<1>2. CallsStaged /\ AnswersOwn
  BY IdsDistinct DEF Init, CallsStaged, AnswersOwn
<1>3. \A t \in Tables : tables[t] = {}
  BY DEF Init, EmptyTables
<1>4. RowsTrue /\ RecordedAtMostOnce
  BY <1>3 DEF Init, RowsTrue, RecordedAtMostOnce, RowsOf
<1>5. KeysContiguous
  <2>1. AvailablePrimaryKey({}) = 0
    BY DEF AvailablePrimaryKey
  <2>2. {r.id : r \in {}} = 0..(0 - 1)
    OBVIOUS
  <2> QED BY <1>3, <2>1, <2>2 DEF KeysContiguous
<1> QED BY <1>1, <1>2, <1>4, <1>5 DEF GatewayInv

----------------------------------------------------------------------------
(***************************************************************************)
(* The steps of the callers.                                               *)
(***************************************************************************)

\* Steps that leave the pushes and the tables alone.
LEMMA RowsFrame ==
    ASSUME GatewayInv, UNCHANGED <<push, tx, tables>>,
           \A c \in Calls : push[c] # "none" => kind'[c] = kind[c] /\ arg'[c] = arg[c]
    PROVE  RowsTrue' /\ KeysContiguous' /\ RecordedAtMostOnce'
<1>1. \A t \in Tables : \A r \in tables[t] : r.call \in Calls
  BY DEF GatewayInv, TypeOK, Rows
<1>2. RowsTrue'
  BY <1>1 DEF GatewayInv, RowsTrue
<1>3. KeysContiguous' /\ RecordedAtMostOnce'
  BY DEF GatewayInv, KeysContiguous, RecordedAtMostOnce
<1> QED BY <1>2, <1>3

LEMMA PostStep ==
    ASSUME GatewayInv, NEW c \in Calls, NEW k \in Kinds, NEW d \in Data, Post(c, k, d)
    PROVE  GatewayInv'
<1>1. /\ java[c] = "idle" /\ java' = [java EXCEPT ![c] = "waiting"]
      /\ kind' = [kind EXCEPT ![c] = k] /\ arg' = [arg EXCEPT ![c] = d]
      /\ UNCHANGED <<ret, gw, bytes, text, obj, resp, up, push, tx, head, tables>>
  BY DEF Post, nvars, cvars
<1>2. TypeOK /\ CallsStaged /\ AnswersOwn
  BY DEF GatewayInv
<1>3. TypeOK'
  BY <1>1, <1>2 DEF TypeOK
<1>4. /\ gw[c] = "none" /\ push[c] = "none" /\ resp[c] = NoTx
      /\ java'[c] = "waiting" /\ kind'[c] = k /\ arg'[c] = d
      /\ \A b \in Calls : b # c => /\ java'[b] = java[b] /\ kind'[b] = kind[b]
                                   /\ arg'[b] = arg[b]
  BY <1>1, <1>2 DEF CallsStaged, AnswersOwn, TypeOK
<1>5. CallsStaged'
  BY <1>1, <1>2, <1>4 DEF CallsStaged
<1>6. AnswersOwn'
  BY <1>1, <1>2, <1>4, IdsDistinct DEF AnswersOwn
<1>7. RowsTrue' /\ KeysContiguous' /\ RecordedAtMostOnce'
  BY <1>1, <1>4, RowsFrame
<1> QED BY <1>3, <1>5, <1>6, <1>7 DEF GatewayInv

LEMMA ReturnSteps ==
    ASSUME GatewayInv, NEW c \in Calls, JavaReturn(c) \/ JavaGivesUp(c)
    PROVE  GatewayInv'
<1>1. PICK v \in {resp[c], Null} : v # NoTx /\ ret' = [ret EXCEPT ![c] = v]
  BY IdsDistinct DEF JavaReturn, JavaGivesUp
<1>2. /\ java[c] = "waiting" /\ java' = [java EXCEPT ![c] = "done"]
      /\ UNCHANGED <<kind, arg, gw, bytes, text, obj, resp, up, push, tx, head, tables>>
  BY DEF JavaReturn, JavaGivesUp, nvars, cvars
<1>3. TypeOK /\ CallsStaged /\ AnswersOwn
  BY DEF GatewayInv
<1>4. TypeOK'
  BY <1>1, <1>2, <1>3 DEF TypeOK
<1>5. /\ java'[c] = "done" /\ ret'[c] = v
      /\ \A b \in Calls : b # c => java'[b] = java[b] /\ ret'[b] = ret[b]
  BY <1>1, <1>2, <1>3 DEF TypeOK
<1>6. CallsStaged'
  BY <1>2, <1>3, <1>5 DEF CallsStaged
<1>7. AnswersOwn'
  BY <1>1, <1>2, <1>3, <1>5 DEF AnswersOwn
<1>8. RowsTrue' /\ KeysContiguous' /\ RecordedAtMostOnce'
  BY <1>2, RowsFrame
<1> QED BY <1>4, <1>6, <1>7, <1>8 DEF GatewayInv

----------------------------------------------------------------------------
(***************************************************************************)
(* The steps of the server.                                                *)
(***************************************************************************)

\* A handler moves on without writing a response.
LEMMA HandlerMoves ==
    ASSUME GatewayInv, NEW c \in Calls,
           NEW g \in {"keygen", "receiving", "contract", "silent"},
           gw' = [gw EXCEPT ![c] = g], java[c] # "idle", gw[c] # "replied",
           g \in {"keygen", "receiving", "contract"} => push[c] = "none",
           g \in {"receiving", "contract"} => kind[c] \in Actions,
           g = "keygen" => kind[c] = "key",
           bytes' \in [Calls -> 0..BodyLen],
           text' \in [Calls -> {"intact", "garbled"}],
           obj' \in [Globals -> Calls \cup {None}],
           UNCHANGED <<java, kind, arg, ret, resp, up, push, tx, head, tables>>
    PROVE  GatewayInv'
<1>1. TypeOK /\ CallsStaged /\ AnswersOwn
  BY DEF GatewayInv
<1>2. TypeOK'
  BY <1>1 DEF TypeOK
<1>3. gw'[c] = g /\ \A b \in Calls : b # c => gw'[b] = gw[b]
  BY <1>1 DEF TypeOK
<1>4. CallsStaged'
  BY <1>1, <1>3 DEF CallsStaged
<1>5. AnswersOwn'
  BY <1>1, <1>3 DEF AnswersOwn
<1>6. RowsTrue' /\ KeysContiguous' /\ RecordedAtMostOnce'
  BY RowsFrame
<1> QED BY <1>2, <1>4, <1>5, <1>6 DEF GatewayInv

LEMMA RouteStep ==
    ASSUME GatewayInv, NEW c \in Calls, Route(c)
    PROVE  GatewayInv'
<1>1. /\ java[c] = "waiting" /\ gw[c] = "none"
      /\ UNCHANGED <<bytes, text, obj, resp, up, java, kind, arg, ret, push, tx, head, tables>>
  BY DEF Route, jvars, cvars
<1>2. /\ kind[c] \in Kinds /\ push[c] = "none"
      /\ bytes \in [Calls -> 0..BodyLen] /\ text \in [Calls -> {"intact", "garbled"}]
      /\ obj \in [Globals -> Calls \cup {None}]
  BY <1>1 DEF GatewayInv, CallsStaged, TypeOK
<1>3. kind[c] \in Actions \/ kind[c] = "key" \/ kind[c] = "other"
  BY <1>2, KindsAssumption DEF AllKinds
<1>4. CASE kind[c] = "other"
  <2>1. gw' = [gw EXCEPT ![c] = "silent"]
    BY <1>4 DEF Route
  <2> QED BY <1>1, <1>2, <2>1, HandlerMoves
<1>5. CASE kind[c] = "key"
  <2>1. gw' = [gw EXCEPT ![c] = "keygen"]
    BY <1>5 DEF Route
  <2> QED BY <1>1, <1>2, <1>5, <2>1, HandlerMoves
<1>6. CASE kind[c] \in Actions
  <2>1. kind[c] # "key" /\ kind[c] # "other"
    BY <1>6 DEF Actions
  <2>2. gw' = [gw EXCEPT ![c] = "receiving"]
    BY <2>1 DEF Route
  <2> QED BY <1>1, <1>2, <1>6, <2>2, HandlerMoves
<1> QED BY <1>3, <1>4, <1>5, <1>6

LEMMA BodySteps ==
    ASSUME GatewayInv, NEW c \in Calls, (\E n \in 1..BodyLen : Chunk(c, n)) \/ End(c)
    PROVE  GatewayInv'
<1>1. /\ gw[c] = "receiving"
      /\ UNCHANGED <<resp, up, java, kind, arg, ret, push, tx, head, tables>>
  BY DEF Chunk, End, jvars, cvars
<1>2. /\ kind[c] \in Actions /\ push[c] = "none" /\ java[c] # "idle"
      /\ gw \in [Calls -> {"none", "keygen", "receiving", "contract", "pushing",
                           "replied", "silent", "dead"}]
      /\ bytes \in [Calls -> 0..BodyLen] /\ text \in [Calls -> {"intact", "garbled"}]
      /\ obj \in [Globals -> Calls \cup {None}]
  BY <1>1 DEF GatewayInv, CallsStaged, TypeOK
<1>3. ASSUME NEW n \in 1..BodyLen, Chunk(c, n) PROVE GatewayInv'
  <2>1. bytes' \in [Calls -> 0..BodyLen]
    BY <1>2, <1>3, BodyAssumption DEF Chunk
  <2>2. text' \in [Calls -> {"intact", "garbled"}]
    BY <1>2, <1>3 DEF Chunk
  <2>3. gw' = [gw EXCEPT ![c] = "receiving"] /\ UNCHANGED obj
    BY <1>1, <1>2, <1>3 DEF Chunk
  <2> QED BY <1>1, <1>2, <2>1, <2>2, <2>3, HandlerMoves
<1>4. CASE End(c)
  <2>1. gw' = [gw EXCEPT ![c] = "contract"] /\ UNCHANGED <<bytes, text>>
    BY <1>4 DEF End
  <2>2. GlobalOf(kind[c]) \in Globals
    BY DEF GlobalOf, Globals
  <2>3. obj' \in [Globals -> Calls \cup {None}]
    BY <1>2, <1>4, <2>2 DEF End
  <2> QED BY <1>1, <1>2, <2>1, <2>3, HandlerMoves
<1> QED BY <1>3, <1>4

LEMMA FailSteps ==
    ASSUME GatewayInv, NEW c \in Calls, PushFails(c) \/ ContractFails(c)
    PROVE  GatewayInv'
<1>1. /\ gw[c] \in {"pushing", "contract"} /\ gw' = [gw EXCEPT ![c] = "silent"]
      /\ UNCHANGED <<bytes, text, obj, resp, up, java, kind, arg, ret, push, tx, head, tables>>
  BY DEF PushFails, ContractFails, jvars, cvars
<1>2. /\ java[c] # "idle" /\ gw[c] # "replied"
      /\ bytes \in [Calls -> 0..BodyLen] /\ text \in [Calls -> {"intact", "garbled"}]
      /\ obj \in [Globals -> Calls \cup {None}]
  BY <1>1 DEF GatewayInv, CallsStaged, TypeOK
<1> QED BY <1>1, <1>2, HandlerMoves

\* The contract is there: the call's own action is signed and pushed, once.
LEMMA SignStep ==
    ASSUME GatewayInv, NEW c \in Calls, ContractReady(c)
    PROVE  GatewayInv'
<1>1. /\ gw[c] = "contract" /\ gw' = [gw EXCEPT ![c] = "pushing"]
      /\ tx' = [tx EXCEPT ![c] = Sign(c)] /\ push' = [push EXCEPT ![c] = "sent"]
      /\ UNCHANGED <<bytes, text, obj, resp, up, head, tables, java, kind, arg, ret>>
  BY DEF ContractReady, jvars
<1>2. TypeOK /\ CallsStaged /\ AnswersOwn /\ RowsTrue
  BY DEF GatewayInv
<1>3. kind[c] \in Actions /\ push[c] = "none" /\ java[c] # "idle" /\ arg[c] \in Data
  BY <1>1, <1>2 DEF CallsStaged
<1>4. Sign(c) \in Txs /\ Sign(c).kind = kind[c] /\ Sign(c).data = arg[c]
  BY <1>2, <1>3 DEF Sign, Txs, TypeOK
<1>5. TypeOK'
  BY <1>1, <1>2, <1>4 DEF TypeOK
<1>6. /\ gw'[c] = "pushing" /\ push'[c] = "sent" /\ tx'[c] = Sign(c)
      /\ \A b \in Calls : b # c => gw'[b] = gw[b] /\ push'[b] = push[b] /\ tx'[b] = tx[b]
  BY <1>1, <1>2 DEF TypeOK
<1>7. CallsStaged'
  BY <1>1, <1>2, <1>3, <1>4, <1>6 DEF CallsStaged
<1>8. AnswersOwn'
  BY <1>1, <1>2, <1>3, <1>6 DEF AnswersOwn
<1>9. \A t \in Tables : \A r \in tables[t] : r.call \in Calls /\ r.call # c
  BY <1>2, <1>3 DEF TypeOK, Rows, RowsTrue
<1>10. RowsTrue'
  BY <1>1, <1>2, <1>6, <1>9 DEF RowsTrue
<1>11. KeysContiguous' /\ RecordedAtMostOnce'
  BY <1>1 DEF GatewayInv, KeysContiguous, RecordedAtMostOnce
<1> QED BY <1>5, <1>7, <1>8, <1>10, <1>11 DEF GatewayInv

\* A response is written: the keys, or the call's own transaction.
LEMMA ReplySteps ==
    ASSUME GatewayInv, NEW c \in Calls, Reply(c) \/ CreateKey(c)
    PROVE  GatewayInv'
<1>1. /\ gw[c] \in {"pushing", "keygen"} /\ gw' = [gw EXCEPT ![c] = "replied"]
      /\ UNCHANGED <<bytes, text, obj, up, java, kind, arg, ret, push, tx, head, tables>>
  BY DEF Reply, CreateKey, jvars, cvars
<1>2. PICK v \in {tx[c], Keys} :
        /\ resp' = [resp EXCEPT ![c] = v]
        /\ \/ v = Keys /\ gw[c] = "keygen"
           \/ v = tx[c] /\ gw[c] = "pushing" /\ push[c] = "accepted"
  <2>1. CASE Reply(c)
    <3>1. /\ resp' = [resp EXCEPT ![c] = tx[c]] /\ gw[c] = "pushing" /\ push[c] = "accepted"
      BY <2>1 DEF Reply, ResponseOf
    <3> QED BY <3>1
  <2>2. CASE CreateKey(c)
    <3>1. resp' = [resp EXCEPT ![c] = Keys] /\ gw[c] = "keygen"
      BY <2>2 DEF CreateKey
    <3> QED BY <3>1
  <2> QED BY <2>1, <2>2
<1>3. TypeOK /\ CallsStaged /\ AnswersOwn
  BY DEF GatewayInv
<1>4. /\ java[c] # "idle" /\ gw[c] # "replied"
      /\ v = Keys => kind[c] = "key"
      /\ v # Keys => push[c] = "accepted" /\ v = tx[c]
      /\ v \in Txs \cup {Keys}
  <2>1. CASE v = Keys /\ gw[c] = "keygen"
    BY <1>3, <2>1 DEF CallsStaged
  <2>2. CASE v = tx[c] /\ gw[c] = "pushing" /\ push[c] = "accepted"
    BY <1>3, <2>2, IdsDistinct DEF CallsStaged
  <2> QED BY <1>2, <2>1, <2>2
<1>5. TypeOK'
  BY <1>1, <1>2, <1>3, <1>4 DEF TypeOK
<1>6. /\ gw'[c] = "replied" /\ resp'[c] = v
      /\ \A b \in Calls : b # c => gw'[b] = gw[b] /\ resp'[b] = resp[b]
  BY <1>1, <1>2, <1>3 DEF TypeOK
<1>7. CallsStaged'
  BY <1>1, <1>3, <1>4, <1>6 DEF CallsStaged
<1>8. ret[c] \in {NoTx, Null}
  BY <1>3, <1>4 DEF AnswersOwn
<1>9. AnswersOwn'
  BY <1>1, <1>3, <1>4, <1>6, <1>8 DEF AnswersOwn
<1>10. RowsTrue' /\ KeysContiguous' /\ RecordedAtMostOnce'
  BY <1>1, RowsFrame
<1> QED BY <1>5, <1>7, <1>9, <1>10 DEF GatewayInv

\* The process dies with its open requests, or is started again.
LEMMA ProcessSteps ==
    ASSUME GatewayInv, ParseThrows \/ Start
    PROVE  GatewayInv'
<1>1. /\ UNCHANGED <<bytes, text, resp, java, kind, arg, ret, push, tx, head, tables>>
      /\ up' \in BOOLEAN
  BY DEF ParseThrows, Start, jvars, cvars
<1>2. TypeOK /\ CallsStaged /\ AnswersOwn
  BY DEF GatewayInv
<1>3. /\ \A b \in Calls : \/ gw'[b] = gw[b]
                          \/ gw'[b] = "dead" /\ gw[b] \notin {"none", "replied"}
      /\ gw' \in [Calls -> {"none", "keygen", "receiving", "contract", "pushing",
                            "replied", "silent", "dead"}]
  BY <1>2 DEF ParseThrows, Start, TypeOK
<1>4. obj' \in [Globals -> Calls \cup {None}]
  BY <1>2 DEF ParseThrows, Start, TypeOK
<1>5. TypeOK'
  BY <1>1, <1>2, <1>3, <1>4 DEF TypeOK
<1>6. CallsStaged'
  BY <1>1, <1>2, <1>3 DEF CallsStaged
<1>7. AnswersOwn'
  BY <1>1, <1>2, <1>3 DEF AnswersOwn
<1>8. RowsTrue' /\ KeysContiguous' /\ RecordedAtMostOnce'
  BY <1>1, RowsFrame
<1> QED BY <1>5, <1>6, <1>7, <1>8 DEF GatewayInv

----------------------------------------------------------------------------
(***************************************************************************)
(* The steps of the chain.                                                 *)
(***************************************************************************)

\* The row the action stores, and the table it goes to.
LEMMA EmplacedRow ==
    ASSUME GatewayInv, NEW c \in Calls, push[c] = "sent", tables' = Emplace(tables, tx[c], c)
    PROVE  LET t == TableOf[kind[c]]
               row == Row(tables[t], tx[c], c)
           IN /\ t \in Tables /\ row \in Rows
              /\ row.id = AvailablePrimaryKey(tables[t])
              /\ row.call = c /\ row.tx = tx[c] /\ row.data = arg[c]
              /\ tables'[t] = tables[t] \cup {row}
              /\ \A s \in Tables : s # t => tables'[s] = tables[s]
              /\ tables' \in [Tables -> SUBSET Rows]
<1> DEFINE t == TableOf[kind[c]]
           row == Row(tables[t], tx[c], c)
<1>1. /\ kind[c] \in Actions /\ arg[c] \in Data /\ tx[c] \in Txs
      /\ tx[c].kind = kind[c] /\ tx[c].data = arg[c]
  BY DEF GatewayInv, CallsStaged
<1>2. t \in Tables
  BY <1>1, TableOfAction
<1>3. /\ AvailablePrimaryKey(tables[t]) \in Nat /\ tables \in [Tables -> SUBSET Rows]
  BY <1>2 DEF GatewayInv, KeysContiguous, TypeOK
<1>4. tx[c].text \in {"intact", "garbled"}
  BY <1>1 DEF Txs
<1>5. (IF StoresText(tx[c].kind) THEN tx[c].text ELSE "none") \in {"none", "intact", "garbled"}
  BY <1>4
<1>6. /\ row \in Rows /\ row.id = AvailablePrimaryKey(tables[t])
      /\ row.call = c /\ row.tx = tx[c] /\ row.data = arg[c]
  BY <1>1, <1>3, <1>5 DEF Row, Rows
<1>7. tables' = [tables EXCEPT ![t] = @ \cup {row}]
  BY <1>1 DEF Emplace
<1> HIDE DEF row, t
<1>8. /\ tables'[t] = tables[t] \cup {row}
      /\ \A s \in Tables : s # t => tables'[s] = tables[s]
      /\ tables' \in [Tables -> SUBSET Rows]
  BY <1>2, <1>3, <1>6, <1>7
<1> QED BY <1>2, <1>6, <1>8 DEF row, t

LEMMA AcceptStep ==
    ASSUME GatewayInv, NEW c \in Calls, Accept(c)
    PROVE  GatewayInv'
<1> DEFINE t == TableOf[kind[c]]
           row == Row(tables[t], tx[c], c)
<1>1. /\ push[c] = "sent" /\ push' = [push EXCEPT ![c] = "accepted"]
      /\ tables' = Emplace(tables, tx[c], c)
      /\ \A r \in RowsOf(tables) : r.tx # tx[c]
      /\ UNCHANGED <<tx, head, java, kind, arg, ret, gw, bytes, text, obj, resp, up>>
  BY DEF Accept, jvars, nvars
<1>2. TypeOK /\ CallsStaged /\ AnswersOwn /\ RowsTrue
  BY DEF GatewayInv
<1>3. /\ t \in Tables /\ row \in Rows
      /\ row.id = AvailablePrimaryKey(tables[t])
      /\ row.call = c /\ row.tx = tx[c] /\ row.data = arg[c]
      /\ tables'[t] = tables[t] \cup {row}
      /\ \A s \in Tables : s # t => tables'[s] = tables[s]
      /\ tables' \in [Tables -> SUBSET Rows]
  BY <1>1, EmplacedRow
<1> HIDE DEF row
<1>4. TypeOK'
  BY <1>1, <1>2, <1>3 DEF TypeOK
<1>5. push'[c] = "accepted" /\ \A b \in Calls : b # c => push'[b] = push[b]
  BY <1>1, <1>2 DEF TypeOK
<1>6. CallsStaged'
  BY <1>1, <1>2, <1>5 DEF CallsStaged
<1>7. AnswersOwn'
  BY <1>1, <1>2, <1>5 DEF AnswersOwn
<1>8. \A s \in Tables : \A r \in tables[s] : r.call \in Calls /\ r.call # c
  BY <1>1, <1>2 DEF TypeOK, Rows, RowsTrue
<1>9. \A s \in Tables : \A r \in tables'[s] : r \in tables[s] \/ (s = t /\ r = row)
  BY <1>3
<1>10. RowsTrue'
  <2>1. ASSUME NEW s \in Tables, NEW r \in tables'[s]
        PROVE  /\ push'[r.call] = "accepted" /\ s = TableOf[kind[r.call]]
               /\ r.tx = tx[r.call] /\ r.data = arg[r.call]
    <3>1. CASE r \in tables[s]
      BY <1>2, <1>5, <1>8, <3>1 DEF RowsTrue
    <3>2. CASE s = t /\ r = row
      BY <1>3, <1>5, <3>2
    <3> QED BY <1>9, <3>1, <3>2
  <2>2. ASSUME NEW b \in Calls, push'[b] = "accepted"
        PROVE  \E r \in tables'[TableOf[kind[b]]] : r.call = b
    <3>1. CASE b = c
      BY <1>3, <3>1
    <3>2. CASE b # c
      <4>1. PICK r \in tables[TableOf[kind[b]]] : r.call = b
        BY <1>2, <1>5, <2>2, <3>2 DEF RowsTrue
      <4>2. TableOf[kind[b]] \in Tables
        BY <1>2, <1>5, <2>2, <3>2, TableOfAction DEF CallsStaged
      <4>3. r \in tables'[TableOf[kind[b]]]
        BY <1>3, <4>1, <4>2
      <4> QED BY <4>1, <4>3
    <3> QED BY <3>1, <3>2
  <2> QED BY <1>1, <2>1, <2>2 DEF RowsTrue
<1>11. KeysContiguous'
  <2> SUFFICES ASSUME NEW s \in Tables
               PROVE  /\ AvailablePrimaryKey(tables'[s]) \in Nat
                      /\ {r.id : r \in tables'[s]} = 0..(AvailablePrimaryKey(tables'[s]) - 1)
    BY DEF KeysContiguous
  <2>1. CASE s # t
    BY <1>3, <2>1 DEF GatewayInv, KeysContiguous
  <2>2. CASE s = t
    <3> DEFINE n == AvailablePrimaryKey(tables[t])
    <3>1. n \in Nat /\ {r.id : r \in tables[t]} = 0..(n - 1)
      BY <1>3 DEF GatewayInv, KeysContiguous
    <3>2. row.id = n
      BY <1>3
    <3> HIDE DEF n
    <3>3. /\ AvailablePrimaryKey(tables[t] \cup {row}) = n + 1
          /\ {r.id : r \in tables[t] \cup {row}} = 0..n
      BY <3>1, <3>2, NextKey
    <3>4. n + 1 \in Nat /\ (n + 1) - 1 = n
      BY <3>1
    <3> QED BY <1>3, <2>2, <3>3, <3>4
  <2> QED BY <2>1, <2>2
<1>12. RecordedAtMostOnce'
  <2>1. \A r \in RowsOf(tables)' : r = row \/ r \in RowsOf(tables)
    BY <1>9 DEF RowsOf
  <2>2. \A r \in RowsOf(tables) : r.call # row.call /\ r.tx # row.tx
    BY <1>1, <1>3, <1>8 DEF RowsOf
  <2> SUFFICES ASSUME NEW r \in RowsOf(tables)', NEW s \in RowsOf(tables)',
                      r.call = s.call \/ r.tx = s.tx
               PROVE  r = s
    BY DEF RecordedAtMostOnce
  <2>3. CASE r \in RowsOf(tables) /\ s \in RowsOf(tables)
    BY <2>3 DEF GatewayInv, RecordedAtMostOnce
  <2> QED BY <2>1, <2>2, <2>3
<1> QED BY <1>4, <1>6, <1>7, <1>10, <1>11, <1>12 DEF GatewayInv

LEMMA RejectStep ==
    ASSUME GatewayInv, NEW c \in Calls, Reject(c)
    PROVE  GatewayInv'
<1>1. /\ push[c] = "sent" /\ push' = [push EXCEPT ![c] = "rejected"]
      /\ UNCHANGED <<tx, head, tables, java, kind, arg, ret, gw, bytes, text, obj, resp, up>>
  BY DEF Reject, jvars, nvars
<1>2. TypeOK /\ CallsStaged /\ AnswersOwn /\ RowsTrue
  BY DEF GatewayInv
<1>3. TypeOK'
  BY <1>1, <1>2 DEF TypeOK
<1>4. push'[c] = "rejected" /\ \A b \in Calls : b # c => push'[b] = push[b]
  BY <1>1, <1>2 DEF TypeOK
<1>5. CallsStaged' /\ AnswersOwn'
  BY <1>1, <1>2, <1>4 DEF CallsStaged, AnswersOwn
<1>6. \A t \in Tables : \A r \in tables[t] : r.call \in Calls /\ r.call # c
  BY <1>1, <1>2 DEF TypeOK, Rows, RowsTrue
<1>7. RowsTrue'
  BY <1>1, <1>2, <1>4, <1>6 DEF RowsTrue
<1>8. KeysContiguous' /\ RecordedAtMostOnce'
  BY <1>1 DEF GatewayInv, KeysContiguous, RecordedAtMostOnce
<1> QED BY <1>3, <1>5, <1>7, <1>8 DEF GatewayInv

LEMMA BlockStep ==
    ASSUME GatewayInv, NewBlock
    PROVE  GatewayInv'
<1>1. /\ head < MaxHead /\ head' = head + 1
      /\ UNCHANGED <<push, tx, tables, java, kind, arg, ret, gw, bytes, text, obj, resp, up>>
  BY DEF NewBlock, jvars, nvars
<1>2. TypeOK'
  BY <1>1, HeadAssumption DEF GatewayInv, TypeOK
<1>3. CallsStaged' /\ AnswersOwn'
  BY <1>1 DEF GatewayInv, CallsStaged, AnswersOwn
<1>4. RowsTrue' /\ KeysContiguous' /\ RecordedAtMostOnce'
  BY <1>1, RowsFrame
<1> QED BY <1>2, <1>3, <1>4 DEF GatewayInv

LEMMA StutterGateway == GatewayInv /\ UNCHANGED vars => GatewayInv'
<1> SUFFICES ASSUME GatewayInv, UNCHANGED vars PROVE GatewayInv'
  OBVIOUS
<1>1. TypeOK' /\ CallsStaged' /\ AnswersOwn'
  BY DEF vars, GatewayInv, TypeOK, CallsStaged, AnswersOwn
<1>2. RowsTrue' /\ KeysContiguous' /\ RecordedAtMostOnce'
  BY RowsFrame DEF vars
<1> QED BY <1>1, <1>2 DEF GatewayInv

LEMMA NextGateway == GatewayInv /\ [Next]_vars => GatewayInv'
<1> SUFFICES ASSUME GatewayInv, [Next]_vars PROVE GatewayInv'
  OBVIOUS
<1>1. ASSUME NEW c \in Calls, Progress(c) PROVE GatewayInv'
  BY <1>1, RouteStep, ReplySteps, BodySteps, SignStep, FailSteps, AcceptStep, RejectStep,
     ReturnSteps DEF Progress
<1>2. ASSUME NEW c \in Calls, JavaGivesUp(c) PROVE GatewayInv'
  BY <1>2, ReturnSteps
<1>3. CASE ParseThrows \/ Start \/ NewBlock
  BY <1>3, ProcessSteps, BlockStep
<1> QED BY <1>1, <1>2, <1>3, PostStep, StutterGateway DEF Next

THEOREM GatewayInvariant == Spec => []GatewayInv
  BY InitGateway, NextGateway, PTL DEF Spec

\* Type correctness of the callers, the server and the chain.
THEOREM GatewayTypes == Spec => []TypeOK
  BY GatewayInvariant, PTL DEF GatewayInv

\* A call that returned an id returned its own, and its row is in the right table.
LEMMA InvAnswer == GatewayInv => AnswerIsOwn
<1> SUFFICES ASSUME GatewayInv, NEW c \in Calls, IsId(ret[c])
             PROVE  /\ ret[c] = tx[c]
                    /\ \E r \in tables[TableOf[kind[c]]] :
                          r.call = c /\ r.tx = ret[c] /\ r.data = arg[c]
  BY DEF AnswerIsOwn
<1>1. push[c] = "accepted" /\ ret[c] = tx[c]
  BY DEF GatewayInv, AnswersOwn, IsId
<1>2. PICK r \in tables[TableOf[kind[c]]] : r.call = c
  BY <1>1 DEF GatewayInv, RowsTrue
<1>3. TableOf[kind[c]] \in Tables
  BY <1>1, TableOfAction DEF GatewayInv, CallsStaged
<1>4. r.tx = tx[c] /\ r.data = arg[c]
  BY <1>2, <1>3 DEF GatewayInv, RowsTrue
<1> QED BY <1>1, <1>2, <1>4

\* Whatever requests are open beside it, a call that returns an id returns the id
\* of its own action, recorded with its own arguments.
THEOREM AnswersAreOwn == Spec => []AnswerIsOwn
  BY GatewayInvariant, InvAnswer, PTL

\* Over crashes, lost answers and callers that gave up, no call and no transaction
\* has two rows.
THEOREM AtMostOnce == Spec => []RecordedAtMostOnce
  BY GatewayInvariant, PTL DEF GatewayInv

----------------------------------------------------------------------------
(***************************************************************************)
(* The tables are logs.                                                    *)
(***************************************************************************)

\* Only the chain writes the tables.
LEMMA TablesWritten ==
    ASSUME [Next]_vars
    PROVE  UNCHANGED tables \/ \E c \in Calls : Accept(c)
<1>1. ASSUME NEW c \in Calls, Progress(c)
      PROVE  UNCHANGED tables \/ Accept(c)
  BY <1>1 DEF Progress, Route, CreateKey, Chunk, End, ContractReady, ContractFails,
              Reply, PushFails, Reject, JavaReturn, cvars
<1>2. CASE \E c \in Calls : \/ \E k \in Kinds, d \in Data : Post(c, k, d)
                            \/ JavaGivesUp(c)
  BY <1>2 DEF Post, JavaGivesUp, cvars
<1>3. CASE ParseThrows \/ Start \/ NewBlock \/ UNCHANGED vars
  BY <1>3 DEF ParseThrows, Start, NewBlock, cvars, vars
<1> QED BY <1>1, <1>2, <1>3 DEF Next

LEMMA AppendStep ==
    ASSUME GatewayInv, [Next]_vars, NEW t \in Tables
    PROVE  /\ tables[t] \subseteq tables'[t]
           /\ \A r \in tables'[t] \ tables[t], s \in tables[t] : s.id < r.id
<1>1. CASE UNCHANGED tables
  BY <1>1
<1>2. ASSUME NEW c \in Calls, Accept(c)
      PROVE  /\ tables[t] \subseteq tables'[t]
             /\ \A r \in tables'[t] \ tables[t], s \in tables[t] : s.id < r.id
  <2> DEFINE u == TableOf[kind[c]]
             row == Row(tables[u], tx[c], c)
             n == AvailablePrimaryKey(tables[u])
  <2>1. /\ u \in Tables /\ row.id = n /\ tables'[u] = tables[u] \cup {row}
        /\ \A s \in Tables : s # u => tables'[s] = tables[s]
    BY <1>2, EmplacedRow DEF Accept
  <2>2. n \in Nat /\ {r.id : r \in tables[u]} = 0..(n - 1)
    BY <2>1 DEF GatewayInv, KeysContiguous
  <2> HIDE DEF row, n
  <2>3. \A s \in tables[u] : s.id \in 0..(n - 1)
    BY <2>2
  <2>4. \A s \in tables[u] : s.id < row.id
    BY <2>1, <2>2, <2>3
  <2> QED BY <2>1, <2>4
<1> QED BY <1>1, <1>2, TablesWritten

\* No step removes or changes a row, and a new row's key is above all others.
THEOREM TablesAppend == Spec => AppendOnly
<1>1. GatewayInv /\ [Next]_vars =>
        [\A t \in Tables :
           /\ tables[t] \subseteq tables'[t]
           /\ \A r \in tables'[t] \ tables[t], s \in tables[t] : s.id < r.id]_vars
  BY AppendStep
<1> QED BY <1>1, GatewayInvariant, PTL DEF Spec, AppendOnly

----------------------------------------------------------------------------
(***************************************************************************)
(* The refinement of RecordService.  A post is the abstract Call, the chain  *)
(* accepting the transaction is Record, and the two ways the Java method     *)
(* returns are ReturnId and ReturnNull; every other step, and every step of  *)
(* a key request, leaves the abstract state alone.                           *)
(***************************************************************************)
Recorded == {r.call : r \in RowsOf(tables)}

\* What the caller sees, case by case.
LEMMA OutcomeAt ==
    ASSUME NEW c \in Calls
    PROVE  /\ kind[c] = "key" \/ java[c] = "idle" => Outcome[c] = "idle"
           /\ kind[c] # "key" /\ java[c] = "waiting" => Outcome[c] = "pending"
           /\ kind[c] # "key" /\ java[c] = "done" =>
                Outcome[c] = IF ret[c] = Null THEN "unknown" ELSE "ok"
  BY DEF Outcome

LEMMA RecordedIffAccepted ==
    ASSUME GatewayInv, NEW c \in Calls
    PROVE  c \in Recorded <=> push[c] = "accepted"
<1>1. ASSUME push[c] = "accepted" PROVE c \in Recorded
  <2>1. TableOf[kind[c]] \in Tables
    BY <1>1, TableOfAction DEF GatewayInv, CallsStaged
  <2>2. PICK r \in tables[TableOf[kind[c]]] : r.call = c
    BY <1>1 DEF GatewayInv, RowsTrue
  <2> QED BY <2>1, <2>2 DEF Recorded, RowsOf
<1>2. ASSUME c \in Recorded PROVE push[c] = "accepted"
  BY <1>2 DEF Recorded, RowsOf, GatewayInv, RowsTrue
<1> QED BY <1>1, <1>2

LEMMA InitService == Init => Service!SInit
<1> SUFFICES ASSUME Init PROVE Service!SInit
  OBVIOUS
<1>1. Outcome = [c \in Calls |-> "idle"]
  BY DEF Init, Outcome
<1>2. {r.call : r \in RowsOf(tables)} = {}
  BY DEF Init, RowsOf, EmptyTables
<1> QED BY <1>1, <1>2 DEF Service!SInit

\* The abstract state changes at one call only.
LEMMA OutcomeExcept ==
    ASSUME NEW c \in Calls,
           \A b \in Calls : b # c => /\ java'[b] = java[b] /\ kind'[b] = kind[b]
                                     /\ ret'[b] = ret[b]
    PROVE  Outcome' = [Outcome EXCEPT ![c] = Outcome'[c]]
  BY DEF Outcome

LEMMA RecordedFrame ==
    ASSUME UNCHANGED tables
    PROVE  Recorded' = Recorded
  BY DEF Recorded, RowsOf

\* Every step of the code is a step of the service or leaves it alone.
LEMMA ServiceStep ==
    ASSUME GatewayInv, [Next]_vars
    PROVE  [Service!SNext]_Service!svars
<1> USE DEF Recorded
<1>1. TypeOK /\ CallsStaged /\ AnswersOwn
  BY DEF GatewayInv
<1>2. CASE UNCHANGED <<java, kind, ret, tables>>
  <2>1. Outcome' = Outcome
    BY <1>2 DEF Outcome
  <2> QED BY <1>2, <2>1, RecordedFrame DEF Service!svars
<1>3. ASSUME NEW c \in Calls, NEW k \in Kinds, NEW d \in Data, Post(c, k, d)
      PROVE  [Service!SNext]_Service!svars
  <2>1. /\ java[c] = "idle" /\ java' = [java EXCEPT ![c] = "waiting"]
        /\ kind' = [kind EXCEPT ![c] = k] /\ UNCHANGED <<ret, tables>>
    BY <1>3 DEF Post, cvars
  <2>2. /\ java'[c] = "waiting" /\ kind'[c] = k
        /\ \A b \in Calls : b # c => /\ java'[b] = java[b] /\ kind'[b] = kind[b]
                                     /\ ret'[b] = ret[b]
    BY <1>1, <2>1 DEF TypeOK
  <2>3. Outcome' = [Outcome EXCEPT ![c] = Outcome'[c]] /\ Outcome[c] = "idle"
    BY <2>1, <2>2, OutcomeExcept, OutcomeAt
  <2>4. Recorded' = Recorded
    BY <2>1, RecordedFrame
  <2>5. Outcome'[c] = IF k = "key" THEN "idle" ELSE "pending"
    BY <2>2 DEF Outcome
  <2>6. CASE k = "key"
    <3>1. Outcome' = Outcome
      BY <2>3, <2>5, <2>6 DEF Outcome
    <3> QED BY <2>4, <3>1 DEF Service!svars
  <2>7. CASE k # "key"
    <3>1. Outcome' = [Outcome EXCEPT ![c] = "pending"]
      BY <2>3, <2>5, <2>7
    <3>2. Service!Call(c)
      BY <2>3, <2>4, <3>1 DEF Service!Call
    <3> QED BY <3>2 DEF Service!SNext
  <2> QED BY <2>6, <2>7
<1>4. ASSUME NEW c \in Calls, JavaReturn(c) \/ JavaGivesUp(c)
      PROVE  [Service!SNext]_Service!svars
  <2>1. /\ java[c] = "waiting" /\ java' = [java EXCEPT ![c] = "done"]
        /\ UNCHANGED <<kind, tables>>
    BY <1>4 DEF JavaReturn, JavaGivesUp, cvars
  <2>2. /\ \/ ret' = [ret EXCEPT ![c] = Null]
           \/ ret' = [ret EXCEPT ![c] = resp[c]] /\ resp[c] # NoTx
    BY <1>4 DEF JavaReturn, JavaGivesUp
  <2>3. /\ java'[c] = "done"
        /\ \A b \in Calls : b # c => /\ java'[b] = java[b] /\ kind'[b] = kind[b]
                                     /\ ret'[b] = ret[b]
    BY <1>1, <2>1, <2>2 DEF TypeOK
  <2>4. Recorded' = Recorded /\ Outcome' = [Outcome EXCEPT ![c] = Outcome'[c]]
    BY <2>1, <2>3, OutcomeExcept, RecordedFrame
  <2>5. CASE kind[c] = "key"
    <3>1. Outcome'[c] = "idle" /\ Outcome[c] = "idle"
      BY <2>1, <2>5 DEF Outcome
    <3>2. Outcome' = Outcome
      BY <2>4, <3>1 DEF Outcome
    <3> QED BY <2>4, <3>2 DEF Service!svars
  <2>6. CASE kind[c] # "key" /\ ret' = [ret EXCEPT ![c] = Null]
    <3>1. ret'[c] = Null
      BY <1>1, <2>6 DEF TypeOK
    <3>2. Outcome'[c] = "unknown" /\ Outcome[c] = "pending"
      BY <2>1, <2>3, <2>6, <3>1 DEF Outcome
    <3>3. Service!ReturnNull(c)
      BY <2>4, <3>2 DEF Service!ReturnNull
    <3> QED BY <3>3 DEF Service!SNext
  <2>7. CASE kind[c] # "key" /\ ret' = [ret EXCEPT ![c] = resp[c]] /\ resp[c] # NoTx
    <3>1. ret'[c] = resp[c]
      BY <1>1, <2>7 DEF TypeOK
    <3>2. push[c] = "accepted" /\ resp[c] = tx[c]
      BY <1>1, <2>7 DEF AnswersOwn
    <3>3. tx[c] \in Txs
      BY <1>1, <3>2 DEF CallsStaged
    <3>4. ret'[c] # Null
      BY <3>1, <3>2, <3>3, IdsDistinct
    <3>5. Outcome'[c] = "ok" /\ Outcome[c] = "pending"
      BY <2>1, <2>3, <2>7, <3>4 DEF Outcome
    <3>6. c \in Recorded
      BY <3>2, RecordedIffAccepted
    <3>7. Service!ReturnId(c)
      BY <2>4, <3>5, <3>6 DEF Service!ReturnId
    <3> QED BY <3>7 DEF Service!SNext
  <2> QED BY <2>2, <2>5, <2>6, <2>7
<1>5. ASSUME NEW c \in Calls, Accept(c) PROVE [Service!SNext]_Service!svars
  <2> DEFINE t == TableOf[kind[c]]
             row == Row(tables[t], tx[c], c)
  <2>1. push[c] = "sent" /\ UNCHANGED <<java, kind, ret>>
    BY <1>5 DEF Accept, jvars
  <2>2. /\ t \in Tables /\ row.call = c /\ tables'[t] = tables[t] \cup {row}
        /\ \A s \in Tables : s # t => tables'[s] = tables[s]
    BY <1>5, EmplacedRow DEF Accept
  <2> HIDE DEF row
  <2>3. RowsOf(tables)' = RowsOf(tables) \cup {row}
    BY <2>2 DEF RowsOf
  <2>4. Recorded' = Recorded \cup {c}
    BY <2>2, <2>3
  <2>5. c \notin Recorded
    BY <2>1, RecordedIffAccepted
  <2>6. /\ kind[c] \in Actions /\ kind[c] # "key" /\ java[c] \in {"waiting", "done"}
    <3>1. kind[c] \in Actions /\ java[c] # "idle"
      BY <1>1, <2>1 DEF CallsStaged
    <3>2. "key" \notin Actions
      BY DEF Actions
    <3> QED BY <1>1, <3>1, <3>2 DEF TypeOK
  <2>7. java[c] = "done" => ret[c] = Null
    <3>1. resp[c] = NoTx
      BY <1>1, <2>1, <2>6 DEF AnswersOwn
    <3> QED BY <1>1, <3>1 DEF AnswersOwn
  <2>8. Outcome[c] \in {"pending", "unknown"} /\ Outcome' = Outcome
    BY <2>1, <2>6, <2>7 DEF Outcome
  <2>9. Service!Record(c)
    BY <2>4, <2>5, <2>8 DEF Service!Record
  <2> QED BY <2>9 DEF Service!SNext
<1>6. ASSUME NEW c \in Calls, Progress(c)
      PROVE  UNCHANGED <<java, kind, ret, tables>> \/ Accept(c) \/ JavaReturn(c)
  BY <1>6 DEF Progress, Route, CreateKey, Chunk, End, ContractReady, ContractFails,
              Reply, PushFails, Reject, cvars, jvars
<1>7. CASE ParseThrows \/ Start \/ NewBlock \/ UNCHANGED vars
  BY <1>2, <1>7 DEF ParseThrows, Start, NewBlock, cvars, jvars, vars
<1> QED BY <1>2, <1>3, <1>4, <1>5, <1>6, <1>7 DEF Next

\* The Java, node and contract code together implement the service: a call that
\* returns an id has been recorded, no call is recorded twice, and only a call
\* that was made and did not get its id can still be recorded.
THEOREM Implementation == Spec => ImplementsService
<1>1. GatewayInv /\ [Next]_vars => [Service!SNext]_Service!svars
  BY ServiceStep
<1> QED BY <1>1, InitService, GatewayInvariant, PTL
        DEF Spec, ImplementsService, Service!SSpec

=============================================================================
