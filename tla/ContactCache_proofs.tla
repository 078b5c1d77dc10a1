------------------------ MODULE ContactCache_proofs ------------------------
(***************************************************************************)
(* Proofs about ContactCache, for both lists and for every set of accounts, *)
(* contacts and refreshes.                                                  *)
(***************************************************************************)
EXTENDS ContactCache, TLAPS

(***************************************************************************)
(* The inductive invariant.  SessionOK: nothing is under way in an app that *)
(* does not run or that nobody ever logged in to, which is why the database *)
(* is never opened without a userId.  OwnOK: once the table is the account's *)
(* own, so is everything that can still write it.  GoneOK: nothing that can  *)
(* still write a deleted contact knows it as the account's.  CalmOK: the     *)
(* table an undisturbed refresh is about to fill is empty.                   *)
(***************************************************************************)
SessionOK ==
    /\ ~running => /\ db = Closed /\ op = NoOp /\ page = NoPage
                   /\ \A r \in Reqs : req[r] = NoReq
                   /\ ~mine /\ gone = {} /\ last = NoReq
    /\ acct = Never => /\ db = Closed /\ op = NoOp /\ page = NoPage
                       /\ \A r \in Reqs : req[r] = NoReq
    /\ \A r \in Reqs : /\ Pending(r) => req[r].uid \in Users
                       /\ req[r].st = "inserting" => db \in Files
    /\ op.st # "none" => op.item \in Items /\ op.uid \in Users
    /\ page # NoPage => page.item \in Items

OwnOK ==
    mine => /\ db \in Files /\ acct \in Users
            /\ \A r \in Reqs : req[r].st \in {"sent", "answered", "inserting"}
                                  => req[r].uid \in {acct, Nobody}
            /\ op.owner \in {None, acct} /\ page.owner \in {None, acct}

GoneOK ==
    \A i \in gone :
        /\ db \in Files /\ acct \in Users /\ i \notin contacts[acct]
        /\ \A r \in Reqs : Pending(r) /\ req[r].uid = acct => i \notin req[r].data
        /\ page.item = i => page.owner # acct
        /\ op.item = i /\ op.kind = "rename" => op.owner # acct

CalmOK ==
    /\ last # NoReq => db \in Files
    /\ \A r \in Reqs : calm[r] /\ req[r].st = "inserting" => rows[db] = EmptyTable

CacheInv ==
    /\ TypeOK /\ SessionOK /\ OwnOK /\ GoneOK /\ CalmOK
    /\ OnlyOwnRows /\ DeletedStaysGone /\ UndisturbedRefreshExact

----------------------------------------------------------------------------
ReqRecords == [st : {"idle", "queued", "sent", "answered", "inserting"},
               uid : Files, data : SUBSET Items]
OpRecords == [st : {"none", "sent", "served", "timer"},
              kind : {None, "add", "delete", "rename"}, item : Items \cup {None},
              uid : Files, owner : Users \cup {None}]

\* The special userIds name no account, and no file is called closed.
LEMMA NamesDistinct ==
    /\ Nobody \notin Users /\ Never \notin Users /\ Closed \notin Users /\ None \notin Users
    /\ Nobody \in Files /\ Never \notin Files /\ Closed \notin Files /\ None \notin Files
  BY UsersAssumption DEF Files, Nobody, Never, Closed, None

LEMMA EmptyRecords ==
    /\ NoReq \in ReqRecords /\ NoReq.st = "idle" /\ NoReq.uid = Nobody /\ NoReq.data = {}
    /\ NoOp \in OpRecords /\ NoOp.st = "none" /\ NoOp.owner = None
    /\ NoOp.kind # "rename"
    /\ NoPage \in [item : Items \cup {None}, owner : Users \cup {None}]
    /\ NoPage.owner = None
    /\ NoReq \in [st : {"idle", "answered", "inserting"}, uid : Files, data : SUBSET Items]
    /\ EmptyTable \in [Items -> Users \cup {None}]
    /\ \A i \in Items : EmptyTable[i] = None
  BY NamesDistinct DEF NoReq, NoOp, NoPage, EmptyTable, ReqRecords, OpRecords, None

\* The database is used only after a login: dbQueue is on a file.
LEMMA DbIsFile ==
    ASSUME TypeOK, acct # Never
    PROVE  DbQueue(acct) \in Files /\ (db \in Files => DbQueue(acct) = db)
  BY NamesDistinct DEF TypeOK, DbQueue

LEMMA InitCache == Init => CacheInv
<1> SUFFICES ASSUME Init PROVE CacheInv
  OBVIOUS
<1> USE EmptyRecords, NamesDistinct DEF Init
<1>1. TypeOK
  BY DEF TypeOK, ReqRecords, OpRecords
<1>2. SessionOK /\ OwnOK /\ GoneOK /\ CalmOK
  BY DEF SessionOK, OwnOK, GoneOK, CalmOK, Pending
<1>3. OnlyOwnRows /\ DeletedStaysGone /\ UndisturbedRefreshExact
  BY DEF OnlyOwnRows, DeletedStaysGone, UndisturbedRefreshExact
<1> QED BY <1>1, <1>2, <1>3 DEF CacheInv

----------------------------------------------------------------------------
(***************************************************************************)
(* The app, the account and the session.                                   *)
(***************************************************************************)

\* A queued refresh names no account and lists nothing yet.
LEMMA QueuedRefresh ==
    ASSUME req \in [Reqs -> ReqRecords], NEW r \in Reqs, Queue(r)
    PROVE  /\ req' \in [Reqs -> ReqRecords] /\ req'[r].st = "queued"
           /\ \A s \in Reqs : s # r => req'[s] = req[s]
<1> DEFINE new == [NoReq EXCEPT !.st = "queued"]
<1>1. new \in ReqRecords /\ new.st = "queued"
  BY NamesDistinct DEF NoReq, ReqRecords
<1>2. req' = [req EXCEPT ![r] = new]
  BY DEF Queue
<1> HIDE DEF new
<1> QED BY <1>1, <1>2

LEMMA LaunchStep ==
    ASSUME CacheInv, Launch
    PROVE  CacheInv'
<1>1. /\ ~running /\ running' = TRUE
      /\ UNCHANGED <<acct, rows, op, page, contacts, mine, gone, calm, last, newest>>
      /\ db' = IF acct = Never THEN Closed ELSE acct
  BY DEF Launch, hist
<1>2. /\ TypeOK /\ SessionOK
      /\ op = NoOp /\ page = NoPage /\ (\A r \in Reqs : req[r] = NoReq)
      /\ ~mine /\ gone = {} /\ last = NoReq
  BY <1>1 DEF CacheInv, SessionOK
<1>3. /\ req' \in [Reqs -> ReqRecords]
      /\ acct = Never => UNCHANGED req
      /\ \A r \in Reqs : req'[r] = NoReq \/ req'[r].st = "queued"
  <2>1. req \in [Reqs -> ReqRecords]
    BY <1>2 DEF TypeOK, ReqRecords
  <2>2. CASE acct \in Users
    BY <1>2, <2>1, <2>2, QueuedRefresh, NamesDistinct DEF Launch
  <2>3. CASE acct \notin Users
    BY <1>2, <2>1, <2>3 DEF Launch
  <2> QED BY <2>2, <2>3
<1>4. TypeOK'
  BY <1>1, <1>2, <1>3 DEF TypeOK, ReqRecords
<1>5. \A r \in Reqs : req'[r].st \in {"idle", "queued"}
  BY <1>3, EmptyRecords
<1>6. SessionOK'
  BY <1>1, <1>2, <1>3, <1>5 DEF SessionOK, Pending
<1>7. OwnOK' /\ GoneOK' /\ CalmOK'
  BY <1>1, <1>2, <1>5 DEF OwnOK, GoneOK, CalmOK
<1>8. OnlyOwnRows' /\ DeletedStaysGone' /\ UndisturbedRefreshExact'
  BY <1>1, <1>2 DEF OnlyOwnRows, DeletedStaysGone, UndisturbedRefreshExact
<1> QED BY <1>4, <1>6, <1>7, <1>8 DEF CacheInv

LEMMA TerminateStep ==
    ASSUME CacheInv, Terminate
    PROVE  CacheInv'
<1>1. /\ running' = FALSE /\ db' = Closed /\ req' = [r \in Reqs |-> NoReq]
      /\ op' = NoOp /\ page' = NoPage /\ mine' = FALSE /\ gone' = {}
      /\ calm' = [s \in Reqs |-> FALSE] /\ last' = NoReq /\ newest' = {}
      /\ UNCHANGED <<acct, rows, contacts>>
  BY DEF Terminate, DisturbAll
<1>2. TypeOK'
  BY <1>1, EmptyRecords DEF CacheInv, TypeOK, ReqRecords, OpRecords
<1>3. SessionOK'
  BY <1>1, EmptyRecords DEF SessionOK, Pending
<1>4. OwnOK' /\ GoneOK' /\ CalmOK'
  BY <1>1 DEF OwnOK, GoneOK, CalmOK
<1>5. OnlyOwnRows' /\ DeletedStaysGone' /\ UndisturbedRefreshExact'
  BY <1>1 DEF OnlyOwnRows, DeletedStaysGone, UndisturbedRefreshExact
<1> QED BY <1>2, <1>3, <1>4, <1>5 DEF CacheInv

LEMMA LoginStep ==
    ASSUME CacheInv, NEW u \in Users, RequestLogin(u)
    PROVE  CacheInv'
<1>1. /\ running /\ acct' = u /\ page' = NoPage /\ mine' = FALSE /\ gone' = {}
      /\ UNCHANGED <<running, db, rows, op, contacts, calm, last, newest>>
  BY DEF RequestLogin
<1>2. TypeOK /\ SessionOK /\ req \in [Reqs -> ReqRecords]
  BY DEF CacheInv, TypeOK, ReqRecords
<1>3. PICK r \in Reqs : Queue(r)
  BY DEF RequestLogin
<1>4. /\ req' \in [Reqs -> ReqRecords] /\ req'[r].st = "queued"
      /\ \A s \in Reqs : s # r => req'[s] = req[s]
  BY <1>2, <1>3, QueuedRefresh
<1>6. acct' # Never /\ acct' \in Files
  BY <1>1, NamesDistinct DEF Files
<1>5. TypeOK'
  BY <1>1, <1>2, <1>4, <1>6, EmptyRecords DEF TypeOK, ReqRecords
<1>7. SessionOK'
  BY <1>1, <1>2, <1>4, <1>6 DEF SessionOK, Pending
<1>8. OwnOK' /\ GoneOK'
  BY <1>1 DEF OwnOK, GoneOK
<1>9. CalmOK'
  BY <1>1, <1>4 DEF CacheInv, CalmOK
<1>10. OnlyOwnRows' /\ DeletedStaysGone' /\ UndisturbedRefreshExact'
  BY <1>1 DEF CacheInv, OnlyOwnRows, DeletedStaysGone, UndisturbedRefreshExact
<1> QED BY <1>5, <1>7, <1>8, <1>9, <1>10 DEF CacheInv

LEMMA LogoutSteps ==
    ASSUME CacheInv, TuiChuAction \/ KickedOffline
    PROVE  CacheInv'
<1>1. /\ running /\ acct' = Nobody /\ db' = DbQueue(Nobody)
      /\ rows' = [rows EXCEPT ![DbQueue(Nobody)] = EmptyTable]
      /\ page' = NoPage /\ mine' = FALSE /\ gone' = {}
      /\ calm' = [s \in Reqs |-> FALSE] /\ last' = NoReq /\ newest' = {}
      /\ UNCHANGED <<running, req, op, contacts>>
  BY DEF TuiChuAction, KickedOffline, LoggedIn, ClearUserInfo, DisturbAll
<1>2. TypeOK /\ SessionOK
  BY DEF CacheInv
<1>3. db' \in Files
  BY <1>1, <1>2, NamesDistinct DEF TypeOK, DbQueue
<1>4. TypeOK'
  BY <1>1, <1>2, <1>3, EmptyRecords, NamesDistinct DEF TypeOK
<1>5. acct' # Never
  BY <1>1, NamesDistinct
<1>6. SessionOK'
  BY <1>1, <1>2, <1>3, <1>5 DEF SessionOK, Pending
<1>7. OwnOK' /\ GoneOK' /\ CalmOK'
  BY <1>1 DEF OwnOK, GoneOK, CalmOK
<1>8. OnlyOwnRows' /\ DeletedStaysGone' /\ UndisturbedRefreshExact'
  BY <1>1 DEF OnlyOwnRows, DeletedStaysGone, UndisturbedRefreshExact
<1> QED BY <1>4, <1>6, <1>7, <1>8 DEF CacheInv

----------------------------------------------------------------------------
(***************************************************************************)
(* A refresh.                                                              *)
(***************************************************************************)

\* A refresh moves on and does not write the table: if its answer is pending
\* afterwards, it lists what the server has for its account.
LEMMA RefreshMoves ==
    ASSUME CacheInv, NEW r \in Reqs, NEW new \in ReqRecords,
           req' = [req EXCEPT ![r] = new], running, acct # Never,
           new.st # "inserting", new.st \in {"sent"} => new.uid = acct,
           new.st = "answered" => /\ new.uid \in Users /\ new.data = contacts[new.uid]
                                  /\ mine => new.uid = acct,
           calm' \in [Reqs -> BOOLEAN], \A s \in Reqs : s # r => calm'[s] = calm[s],
           op' \in {op, NoOp},
           UNCHANGED <<acct, running, db, rows, page, contacts, mine, gone, last, newest>>
    PROVE  CacheInv'
<1>1. TypeOK /\ SessionOK /\ req \in [Reqs -> ReqRecords]
  BY DEF CacheInv, TypeOK, ReqRecords
<1>2. req'[r] = new /\ \A s \in Reqs : s # r => req'[s] = req[s]
  BY <1>1
<1>3. TypeOK'
  BY <1>1, EmptyRecords DEF TypeOK, ReqRecords, OpRecords
<1>4. SessionOK'
  BY <1>1, <1>2, EmptyRecords DEF SessionOK, Pending
<1>5. OwnOK'
  BY <1>1, <1>2, EmptyRecords DEF CacheInv, OwnOK, ReqRecords
<1>6. GoneOK'
  <2>1. \A i \in gone : i \notin contacts[acct]
    BY DEF CacheInv, GoneOK
  <2>2. \A s \in Reqs, i \in gone : Pending(s)' /\ req'[s].uid = acct => i \notin req'[s].data
    BY <1>2, <2>1 DEF CacheInv, GoneOK, Pending
  <2> QED BY <2>2, EmptyRecords DEF CacheInv, GoneOK
<1>7. CalmOK'
  BY <1>2 DEF CacheInv, CalmOK
<1>8. OnlyOwnRows' /\ DeletedStaysGone' /\ UndisturbedRefreshExact'
  BY DEF CacheInv, OnlyOwnRows, DeletedStaysGone, UndisturbedRefreshExact
<1> QED BY <1>3, <1>4, <1>5, <1>6, <1>7, <1>8 DEF CacheInv

\* A refresh is under way in a running app with a userId.
LEMMA RefreshRuns ==
    ASSUME CacheInv, NEW r \in Reqs, req[r].st # "idle"
    PROVE  running /\ acct # Never /\ acct \in Files
  BY EmptyRecords DEF CacheInv, SessionOK, TypeOK

LEMMA SendStep ==
    ASSUME CacheInv, NEW r \in Reqs, SendRefresh(r)
    PROVE  CacheInv'
<1>1. req[r].st = "queued" /\ req \in [Reqs -> ReqRecords] /\ calm \in [Reqs -> BOOLEAN]
  BY DEF SendRefresh, CacheInv, TypeOK, ReqRecords
<1>2. running /\ acct # Never /\ acct \in Files
  BY <1>1, RefreshRuns
<1> DEFINE new == [req[r] EXCEPT !.st = "sent", !.uid = acct]
<1>3. new \in ReqRecords /\ new.st = "sent" /\ new.uid = acct
  BY <1>1, <1>2 DEF ReqRecords
<1>4. req' = [req EXCEPT ![r] = new]
  BY <1>1 DEF SendRefresh
<1>5. UNCHANGED <<acct, running, db, rows, op, page, contacts, mine, gone, calm, last, newest>>
  BY DEF SendRefresh, hist
<1> HIDE DEF new
<1> QED BY <1>1, <1>2, <1>3, <1>4, <1>5, RefreshMoves

LEMMA AnswerStep ==
    ASSUME CacheInv, NEW r \in Reqs, ServerAnswers(r)
    PROVE  CacheInv'
<1>1. /\ req[r].st = "sent" /\ req[r].uid \in Users
      /\ req \in [Reqs -> ReqRecords] /\ calm \in [Reqs -> BOOLEAN]
      /\ contacts[req[r].uid] \in SUBSET Items
  BY DEF ServerAnswers, CacheInv, TypeOK, ReqRecords
<1>2. running /\ acct # Never
  BY <1>1, RefreshRuns
<1> DEFINE new == [req[r] EXCEPT !.st = "answered", !.data = contacts[req[r].uid]]
<1>3. /\ new \in ReqRecords /\ new.st = "answered" /\ new.uid = req[r].uid
      /\ new.data = contacts[new.uid]
  BY <1>1 DEF ReqRecords
<1>4. /\ req' = [req EXCEPT ![r] = new]
      /\ calm' \in [Reqs -> BOOLEAN] /\ \A s \in Reqs : s # r => calm'[s] = calm[s]
      /\ UNCHANGED <<acct, running, db, rows, op, page, contacts, mine, gone, last, newest>>
  BY <1>1 DEF ServerAnswers
<1>5. mine => new.uid = acct
  BY <1>1, <1>3, NamesDistinct DEF CacheInv, OwnOK
<1> HIDE DEF new
<1> QED BY <1>1, <1>2, <1>3, <1>4, <1>5, RefreshMoves

LEMMA FailStep ==
    ASSUME CacheInv, NEW r \in Reqs, RefreshFails(r)
    PROVE  CacheInv'
<1>1. /\ req[r].st # "idle" /\ req' = [req EXCEPT ![r] = NoReq]
      /\ calm' = [calm EXCEPT ![r] = FALSE] /\ calm \in [Reqs -> BOOLEAN]
      /\ UNCHANGED <<acct, running, db, rows, op, page, contacts, mine, gone, last, newest>>
  BY DEF RefreshFails, CacheInv, TypeOK
<1>2. running /\ acct # Never
  BY <1>1, RefreshRuns
<1>3. calm' \in [Reqs -> BOOLEAN] /\ \A s \in Reqs : s # r => calm'[s] = calm[s]
  BY <1>1
<1> QED BY <1>1, <1>2, <1>3, EmptyRecords, RefreshMoves

\* A contact was added: a refresh is sent at once.
LEMMA AddStep ==
    ASSUME CacheInv, NEW r \in Reqs, AddCallback(r)
    PROVE  CacheInv'
<1> DEFINE new == [NoReq EXCEPT !.st = "sent", !.uid = acct]
<1>1. /\ op.st = "served" /\ op' = NoOp /\ req' = [req EXCEPT ![r] = new]
      /\ calm' = [calm EXCEPT ![r] = FALSE] /\ calm \in [Reqs -> BOOLEAN]
      /\ UNCHANGED <<acct, running, db, rows, page, contacts, mine, gone, last, newest>>
  BY DEF AddCallback, CacheInv, TypeOK
<1>2. running /\ acct # Never /\ acct \in Files
  BY <1>1, EmptyRecords DEF CacheInv, SessionOK, TypeOK
<1>3. new \in ReqRecords /\ new.st = "sent" /\ new.uid = acct
  BY <1>2, NamesDistinct DEF NoReq, ReqRecords
<1>4. calm' \in [Reqs -> BOOLEAN] /\ \A s \in Reqs : s # r => calm'[s] = calm[s]
  BY <1>1
<1> HIDE DEF new
<1> QED BY <1>1, <1>2, <1>3, <1>4, RefreshMoves

\* The table is cleared.
LEMMA ClearStep ==
    ASSUME CacheInv, NEW r \in Reqs, RefreshCallback(r)
    PROVE  CacheInv'
<1> DEFINE f == DbQueue(acct)
           new == IF req[r].data = {} THEN NoReq ELSE [req[r] EXCEPT !.st = "inserting"]
<1>1. /\ req[r].st = "answered" /\ db' = f
      /\ rows' = [rows EXCEPT ![f] = EmptyTable]
      /\ req' = [req EXCEPT ![r] = new]
      /\ mine' = (req[r].uid = acct /\ (mine \/ NoStraggler(r)))
      /\ calm' = [s \in Reqs |-> s = r /\ calm[s] /\ req[r].data # {}]
      /\ last' = IF req[r].data = {} /\ calm[r] THEN req[r] ELSE NoReq
      /\ newest' = req[r].data
      /\ UNCHANGED <<acct, running, op, page, contacts, gone>>
  BY DEF RefreshCallback, Cleared, Disturb
<1>2. /\ TypeOK /\ SessionOK /\ req \in [Reqs -> ReqRecords] /\ req[r].uid \in Users
      /\ running /\ acct # Never
  BY <1>1, RefreshRuns DEF CacheInv, TypeOK, ReqRecords, SessionOK, Pending
<1>3. f \in Files /\ (db \in Files => f = db) /\ f # Closed
  BY <1>2, DbIsFile, NamesDistinct
<1> HIDE DEF f
<1>4. /\ new \in ReqRecords /\ new.st \in {"idle", "inserting"}
      /\ new.st = "inserting" => new.uid = req[r].uid /\ new.data = req[r].data
  BY <1>2, EmptyRecords DEF ReqRecords
<1> HIDE DEF new
<1>5. /\ req'[r] = new /\ \A s \in Reqs : s # r => req'[s] = req[s]
      /\ rows'[f] = EmptyTable /\ req' \in [Reqs -> ReqRecords]
  BY <1>1, <1>2, <1>3, <1>4 DEF TypeOK
<1>6. TypeOK'
  <2>1. rows' \in [Files -> [Items -> Users \cup {None}]]
    BY <1>1, <1>2, EmptyRecords DEF TypeOK
  <2>2. last' \in [st : {"idle", "answered", "inserting"}, uid : Files, data : SUBSET Items]
    <3>1. req[r] \in [st : {"idle", "answered", "inserting"}, uid : Files, data : SUBSET Items]
      BY <1>1, <1>2 DEF ReqRecords
    <3> QED BY <1>1, <3>1, EmptyRecords
  <2>3. calm' \in [Reqs -> BOOLEAN] /\ mine' \in BOOLEAN
    <3>1. mine' \in BOOLEAN
      BY <1>1, Zenon
    <3>2. calm' \in [Reqs -> BOOLEAN]
      BY <1>1
    <3> QED BY <3>1, <3>2
  <2> QED BY <1>1, <1>2, <1>3, <1>5, <2>1, <2>2, <2>3 DEF TypeOK, ReqRecords
<1>7. SessionOK'
  BY <1>1, <1>2, <1>3, <1>4, <1>5 DEF SessionOK, Pending
<1>8. OwnOK'
  <2> SUFFICES ASSUME mine'
               PROVE  /\ db' \in Files /\ acct' \in Users
                      /\ \A s \in Reqs : req'[s].st \in {"sent", "answered", "inserting"}
                                            => req'[s].uid \in {acct', Nobody}
                      /\ op'.owner \in {None, acct'} /\ page'.owner \in {None, acct'}
    BY DEF OwnOK
  <2>1. req[r].uid = acct /\ (mine \/ NoStraggler(r))
    BY <1>1
  <2>2. \A s \in Reqs \ {r} : req[s].st \in {"sent", "answered", "inserting"}
                                => req[s].uid \in {acct, Nobody}
    BY <2>1 DEF CacheInv, OwnOK, NoStraggler
  <2>3. op.owner \in {None, acct} /\ page.owner \in {None, acct}
    BY <2>1 DEF CacheInv, OwnOK, NoStraggler
  <2> QED BY <1>1, <1>2, <1>3, <1>4, <1>5, <2>1, <2>2, <2>3
<1>9. GoneOK'
  <2>1. gone # {} => f = db
    BY <1>3 DEF CacheInv, GoneOK
  <2>2. \A s \in Reqs, i \in gone : Pending(s)' /\ req'[s].uid = acct => i \notin req'[s].data
    BY <1>1, <1>4, <1>5 DEF CacheInv, GoneOK, Pending
  <2> QED BY <1>1, <2>1, <2>2 DEF CacheInv, GoneOK
<1>10. CalmOK'
  BY <1>1, <1>3, <1>5 DEF CalmOK
<1>11. \A i \in Items : rows'[db'][i] = None
  BY <1>1, <1>5, EmptyRecords
<1>12. OnlyOwnRows' /\ UndisturbedRefreshExact'
  BY <1>1, <1>11 DEF OnlyOwnRows, UndisturbedRefreshExact
<1>13. DeletedStaysGone'
  <2>1. \A i \in gone : i \in Items /\ acct \in Users
    BY <1>2 DEF CacheInv, GoneOK, TypeOK
  <2> QED BY <1>1, <1>11, <2>1, NamesDistinct DEF DeletedStaysGone
<1> QED BY <1>6, <1>7, <1>8, <1>9, <1>10, <1>12, <1>13 DEF CacheInv

\* The rows of a refresh are inserted.
LEMMA InsertStep ==
    ASSUME CacheInv, NEW r \in Reqs, InsertList(r)
    PROVE  CacheInv'
<1> DEFINE table == [i \in Items |-> IF i \in req[r].data THEN req[r].uid ELSE rows[db][i]]
<1>0. /\ TypeOK /\ SessionOK /\ req \in [Reqs -> ReqRecords]
      /\ req[r].st = "inserting" /\ req[r].uid \in Users /\ db \in Files
      /\ running /\ acct # Never
  BY RefreshRuns DEF InsertList, CacheInv, TypeOK, ReqRecords, SessionOK, Pending
<1>1. DbQueue(acct) = db
  BY <1>0, DbIsFile
<1>2. /\ db' = db /\ rows' = [rows EXCEPT ![db] = table]
      /\ req' = [req EXCEPT ![r] = NoReq]
      /\ calm' = [s \in Reqs |-> FALSE]
      /\ last' = IF calm[r] THEN req[r] ELSE NoReq
      /\ UNCHANGED <<acct, running, op, page, contacts, mine, gone, newest>>
  BY <1>0, <1>1 DEF InsertList, Inserted, Disturb, TypeOK
<1>3. table \in [Items -> Users \cup {None}]
  BY <1>0 DEF TypeOK
<1>4. /\ \A i \in Items : table[i] = IF i \in req[r].data THEN req[r].uid ELSE rows[db][i]
      /\ rows'[db] = table
  BY <1>0, <1>2 DEF TypeOK
<1> HIDE DEF table
<1>5. /\ req'[r] = NoReq /\ \A s \in Reqs : s # r => req'[s] = req[s]
      /\ req' \in [Reqs -> ReqRecords]
  BY <1>0, <1>2, EmptyRecords
<1>6. TypeOK'
  <2>1. last' \in [st : {"idle", "answered", "inserting"}, uid : Files, data : SUBSET Items]
    <3>1. req[r] \in [st : {"idle", "answered", "inserting"}, uid : Files, data : SUBSET Items]
      BY <1>0 DEF ReqRecords
    <3> QED BY <1>2, <3>1, EmptyRecords
  <2> QED BY <1>0, <1>2, <1>3, <1>5, <2>1 DEF TypeOK, ReqRecords
<1>7. SessionOK'
  BY <1>0, <1>2, <1>5, EmptyRecords DEF SessionOK, Pending
<1>8. OwnOK' /\ CalmOK'
  BY <1>0, <1>2, <1>5, EmptyRecords DEF CacheInv, OwnOK, CalmOK
<1>9. GoneOK'
  BY <1>2, <1>5, EmptyRecords DEF CacheInv, GoneOK, Pending
<1>10. OnlyOwnRows'
  <2>1. mine => req[r].uid = acct
    BY <1>0, NamesDistinct DEF CacheInv, OwnOK
  <2> QED BY <1>2, <1>4, <2>1 DEF CacheInv, OnlyOwnRows
<1>11. DeletedStaysGone'
  <2>1. ASSUME NEW i \in gone PROVE rows'[db][i] # acct
    <3>1. i \in Items /\ rows[db][i] # acct
      BY <1>0, <2>1 DEF CacheInv, TypeOK, DeletedStaysGone
    <3>2. req[r].uid = acct => i \notin req[r].data
      BY <1>0, <2>1 DEF CacheInv, GoneOK, Pending
    <3> QED BY <1>4, <3>1, <3>2
  <2> QED BY <1>2, <2>1 DEF DeletedStaysGone
<1>12. UndisturbedRefreshExact'
  <2>1. calm[r] => rows[db] = EmptyTable
    BY <1>0 DEF CacheInv, CalmOK
  <2> QED BY <1>2, <1>4, <2>1, EmptyRecords DEF UndisturbedRefreshExact
<1> QED BY <1>6, <1>7, <1>8, <1>9, <1>10, <1>11, <1>12 DEF CacheInv

----------------------------------------------------------------------------
(***************************************************************************)
(* The user's own requests.                                                *)
(***************************************************************************)

\* Pages and requests of the user change, the table does not.
LEMMA OpMoves ==
    ASSUME CacheInv, op' \in OpRecords,
           page' \in [item : Items \cup {None}, owner : Users \cup {None}],
           running, acct # Never,
           op'.st # "none" => op'.item \in Items /\ op'.uid \in Users,
           page' # NoPage => page'.item \in Items,
           mine => op'.owner \in {None, acct} /\ page'.owner \in {None, acct},
           \A i \in gone : /\ page'.item = i => page'.owner # acct
                           /\ op'.item = i /\ op'.kind = "rename" => op'.owner # acct,
           UNCHANGED <<acct, running, db, rows, req, contacts, mine, gone, calm, last, newest>>
    PROVE  CacheInv'
<1>1. TypeOK'
  BY DEF CacheInv, TypeOK, OpRecords
<1>2. SessionOK'
  BY DEF CacheInv, SessionOK, Pending
<1>3. OwnOK'
  BY DEF CacheInv, OwnOK
<1>4. GoneOK'
  BY DEF CacheInv, GoneOK, Pending
<1>5. CalmOK'
  BY DEF CacheInv, CalmOK
<1>6. OnlyOwnRows' /\ DeletedStaysGone' /\ UndisturbedRefreshExact'
  BY DEF CacheInv, OnlyOwnRows, DeletedStaysGone, UndisturbedRefreshExact
<1> QED BY <1>1, <1>2, <1>3, <1>4, <1>5, <1>6 DEF CacheInv

\* What the invariant says of the page and the request of the user.
LEMMA OpFacts ==
    ASSUME CacheInv
    PROVE  /\ op \in OpRecords
           /\ page \in [item : Items \cup {None}, owner : Users \cup {None}]
           /\ op.st # "none" => op.item \in Items /\ op.uid \in Users
           /\ page # NoPage => page.item \in Items
           /\ mine => op.owner \in {None, acct} /\ page.owner \in {None, acct}
           /\ \A i \in gone : /\ page.item = i => page.owner # acct
                              /\ op.item = i /\ op.kind = "rename" => op.owner # acct
           /\ op # NoOp \/ page # NoPage => running /\ acct # Never
           /\ \A i \in gone : acct \in Users /\ acct # None
<1>1. /\ op \in OpRecords
      /\ page \in [item : Items \cup {None}, owner : Users \cup {None}]
  BY DEF CacheInv, TypeOK, OpRecords
<1>2. /\ op.st # "none" => op.item \in Items /\ op.uid \in Users
      /\ page # NoPage => page.item \in Items
      /\ op # NoOp \/ page # NoPage => running /\ acct # Never
  BY DEF CacheInv, SessionOK
<1>3. mine => op.owner \in {None, acct} /\ page.owner \in {None, acct}
  BY DEF CacheInv, OwnOK
<1>4. \A i \in gone : /\ page.item = i => page.owner # acct
                      /\ op.item = i /\ op.kind = "rename" => op.owner # acct
                      /\ acct \in Users /\ acct # None
  BY NamesDistinct DEF CacheInv, GoneOK
<1> QED BY <1>1, <1>2, <1>3, <1>4

LEMMA PageSteps ==
    ASSUME CacheInv, (\E i \in Items : OpenPage(i)) \/ ClosePage
    PROVE  CacheInv'
<1>1. UNCHANGED <<acct, running, db, rows, req, op, contacts, mine, gone, calm, last, newest>>
  BY DEF OpenPage, ClosePage, hist
<1>2. CASE ClosePage
  <2>1. page # NoPage /\ page' = NoPage
    BY <1>2 DEF ClosePage
  <2> QED BY <1>1, <2>1, OpFacts, OpMoves, EmptyRecords
<1>3. ASSUME NEW i \in Items, OpenPage(i) PROVE CacheInv'
  <2>1. /\ running /\ acct \in Users /\ rows[DbQueue(acct)][i] # None
        /\ page' = [item |-> i, owner |-> rows[DbQueue(acct)][i]]
    BY <1>3 DEF OpenPage, LoggedIn
  <2>2. acct # Never /\ TypeOK
    BY <2>1, NamesDistinct DEF CacheInv
  <2>3. DbQueue(acct) \in Files /\ (db \in Files => DbQueue(acct) = db)
    BY <2>2, DbIsFile
  <2>4. /\ page' \in [item : Items \cup {None}, owner : Users \cup {None}]
        /\ page'.item = i /\ page'.owner = rows[DbQueue(acct)][i]
    BY <2>1, <2>2, <2>3 DEF TypeOK
  <2>5. mine => page'.owner \in {None, acct}
    BY <2>3, <2>4 DEF CacheInv, OwnOK, OnlyOwnRows
  <2>6. \A j \in gone : page'.item = j => page'.owner # acct
    BY <2>3, <2>4 DEF CacheInv, GoneOK, DeletedStaysGone
  <2> QED BY <1>1, <2>1, <2>2, <2>4, <2>5, <2>6, OpFacts, OpMoves
<1> QED BY <1>2, <1>3

LEMMA RequestSteps ==
    ASSUME CacheInv,
           \/ \E k \in {"delete", "rename"} : SendOp(k)
           \/ \E i \in Items : SendAdd(i)
           \/ OpFails
    PROVE  CacheInv'
<1>1. UNCHANGED <<acct, running, db, rows, req, page, contacts, mine, gone, calm, last, newest>>
  BY DEF SendOp, SendAdd, OpFails, hist
<1>2. ASSUME NEW k \in {"delete", "rename"}, SendOp(k) PROVE CacheInv'
  <2>1. /\ running /\ acct \in Users /\ page # NoPage
        /\ op' = [st |-> "sent", kind |-> k, item |-> page.item, uid |-> acct,
                  owner |-> page.owner]
    BY <1>2 DEF SendOp, LoggedIn
  <2>2. acct # Never /\ acct \in Files
    BY <2>1, NamesDistinct DEF Files
  <2>3. page.item \in Items /\ page.owner \in Users \cup {None}
    BY <2>1, OpFacts
  <2>4. /\ op' \in OpRecords /\ op'.item = page.item /\ op'.owner = page.owner
        /\ op'.uid = acct
    BY <2>1, <2>2, <2>3 DEF OpRecords
  <2> QED BY <1>1, <2>1, <2>2, <2>3, <2>4, OpFacts, OpMoves
<1>3. ASSUME NEW i \in Items, SendAdd(i) PROVE CacheInv'
  <2>1. /\ running /\ acct \in Users
        /\ op' = [NoOp EXCEPT !.st = "sent", !.kind = "add", !.item = i, !.uid = acct]
    BY <1>3 DEF SendAdd, LoggedIn
  <2>2. acct # Never /\ acct \in Files
    BY <2>1, NamesDistinct DEF Files
  <2>3. /\ op' \in OpRecords /\ op'.item = i /\ op'.uid = acct /\ op'.kind = "add"
        /\ op'.owner = None
    BY <2>1, <2>2 DEF OpRecords, NoOp
  <2> QED BY <1>1, <2>1, <2>2, <2>3, OpFacts, OpMoves
<1>4. CASE OpFails
  <2>1. op.st # "none" /\ op' = NoOp
    BY <1>4 DEF OpFails
  <2>2. op # NoOp
    BY <2>1, EmptyRecords
  <2> QED BY <1>1, <2>1, <2>2, OpFacts, OpMoves, EmptyRecords
<1> QED BY <1>2, <1>3, <1>4

\* The server's list of an account changes: what is gone from it and comes back is
\* no longer counted as gone.
LEMMA ListChanges ==
    ASSUME CacheInv, NEW u \in Users, NEW list \in SUBSET Items,
           contacts' = [contacts EXCEPT ![u] = list],
           gone' \subseteq gone, u = acct => gone' \cap list = {},
           op' \in OpRecords, op'.st = "none" <=> op.st = "none",
           op'.kind = op.kind, op'.item = op.item, op'.uid = op.uid, op'.owner = op.owner,
           op = NoOp => op' = NoOp,
           UNCHANGED <<acct, running, db, rows, req, page, mine, calm, last, newest>>
    PROVE  CacheInv'
<1>1. TypeOK'
  BY DEF CacheInv, TypeOK, OpRecords
<1>2. SessionOK'
  BY DEF CacheInv, SessionOK, Pending
<1>3. OwnOK'
  BY DEF CacheInv, OwnOK
<1>4. GoneOK'
  <2>1. \A i \in gone' : acct \in Users /\ i \notin contacts'[acct]
    BY DEF CacheInv, GoneOK, TypeOK
  <2> QED BY <2>1 DEF CacheInv, GoneOK, Pending
<1>5. CalmOK'
  BY DEF CacheInv, CalmOK
<1>6. OnlyOwnRows' /\ DeletedStaysGone' /\ UndisturbedRefreshExact'
  BY DEF CacheInv, OnlyOwnRows, DeletedStaysGone, UndisturbedRefreshExact
<1> QED BY <1>1, <1>2, <1>3, <1>4, <1>5, <1>6 DEF CacheInv

LEMMA ServedStep ==
    ASSUME CacheInv, OpServed
    PROVE  CacheInv'
<1> DEFINE u == op.uid
           list == CASE op.kind = "add" -> contacts[u] \cup {op.item}
                     [] op.kind = "delete" -> contacts[u] \ {op.item}
                     [] OTHER -> contacts[u]
<1>1. /\ op.st = "sent" /\ op' = [op EXCEPT !.st = "served"]
      /\ gone' = IF op.kind = "add" THEN gone \ {op.item} ELSE gone
      /\ UNCHANGED <<acct, running, db, rows, req, page, mine, calm, last, newest>>
  BY DEF OpServed
<1>2. op \in OpRecords /\ op.item \in Items /\ u \in Users
  BY <1>1, OpFacts
<1>3. contacts \in [Users -> SUBSET Items] /\ contacts[u] \in SUBSET Items
  BY <1>2 DEF CacheInv, TypeOK
<1>4. contacts' = [contacts EXCEPT ![u] = list]
  BY <1>3 DEF OpServed
<1>5. /\ list \in SUBSET Items /\ gone' \subseteq gone
      /\ list \subseteq contacts[u] \cup {op.item}
      /\ op.item \in list => op.kind = "add" \/ op.item \in contacts[u]
  BY <1>1, <1>2, <1>3
<1> HIDE DEF list
<1>6. u = acct => gone' \cap list = {}
  <2>1. \A i \in gone : i \notin contacts[acct]
    BY DEF CacheInv, GoneOK
  <2> QED BY <1>1, <1>5, <2>1
<1>7. /\ op' \in OpRecords /\ op'.st = "served" /\ op'.kind = op.kind
      /\ op'.item = op.item /\ op'.uid = op.uid /\ op'.owner = op.owner
  BY <1>1, <1>2 DEF OpRecords
<1>8. op # NoOp
  BY <1>1, EmptyRecords
<1> HIDE DEF u
<1> QED BY <1>1, <1>2, <1>4, <1>5, <1>6, <1>7, <1>8, ListChanges DEF u

LEMMA RemoteStep ==
    ASSUME CacheInv, NEW u \in Users, NEW i \in Items, RemoteChange(u, i)
    PROVE  CacheInv'
<1> DEFINE list == IF i \in contacts[u] THEN contacts[u] \ {i} ELSE contacts[u] \cup {i}
<1>1. /\ gone' = IF u = acct THEN gone \ {i} ELSE gone
      /\ UNCHANGED <<acct, running, db, rows, req, op, page, mine, calm, last, newest>>
  BY DEF RemoteChange
<1>2. contacts \in [Users -> SUBSET Items] /\ op \in OpRecords
  BY OpFacts DEF CacheInv, TypeOK
<1>3. contacts' = [contacts EXCEPT ![u] = list] /\ list \in SUBSET Items
  BY <1>2 DEF RemoteChange
<1>4. gone' \subseteq gone /\ (u = acct => gone' \cap list = {})
  BY <1>1 DEF CacheInv, GoneOK
<1> HIDE DEF list
<1> QED BY <1>1, <1>2, <1>3, <1>4, ListChanges

\* A row of the open file is written by the user's own request, which ends.
LEMMA WriteRow ==
    ASSUME CacheInv, op.st # "none", NEW v \in Users \cup {None},
           db' = DbQueue(acct),
           rows' = [rows EXCEPT ![DbQueue(acct)] = [@ EXCEPT ![op.item] = v]],
           op' = NoOp, page' \in {page, NoPage},
           mine => v \in {None, acct},
           gone' \subseteq gone \cup {op.item},
           \A i \in gone' : i = op.item =>
              /\ acct \in Users /\ v # acct /\ i \notin contacts[acct]
              /\ \A r \in Reqs : Pending(r) /\ req[r].uid = acct => i \notin req[r].data
              /\ page'.item = i => page'.owner # acct,
           calm' = [s \in Reqs |-> FALSE], last' = NoReq, newest' \subseteq newest,
           UNCHANGED <<acct, running, req, contacts, mine>>
    PROVE  CacheInv'
<1> DEFINE f == DbQueue(acct)
<1>1. /\ TypeOK /\ SessionOK /\ op # NoOp /\ op.item \in Items
      /\ running /\ acct # Never
  BY EmptyRecords, OpFacts DEF CacheInv
<1>2. f \in Files /\ (db \in Files => f = db)
  BY <1>1, DbIsFile
<1> HIDE DEF f
<1>3. /\ rows' \in [Files -> [Items -> Users \cup {None}]]
      /\ \A i \in Items : rows'[f][i] = IF i = op.item THEN v ELSE rows[f][i]
  BY <1>1, <1>2 DEF TypeOK, f
<1>4. db' = f
  BY DEF f
<1>5. TypeOK'
  BY <1>1, <1>2, <1>3, <1>4, EmptyRecords DEF TypeOK, OpRecords
<1>6. SessionOK'
  BY <1>1, <1>2, <1>4, EmptyRecords DEF SessionOK, Pending
<1>7. OwnOK'
  BY <1>2, <1>4, EmptyRecords DEF CacheInv, OwnOK
<1>8. GoneOK'
  <2> SUFFICES ASSUME NEW i \in gone'
               PROVE  /\ db' \in Files /\ acct' \in Users /\ i \notin contacts'[acct']
                      /\ \A r \in Reqs : Pending(r)' /\ req'[r].uid = acct' => i \notin req'[r].data
                      /\ page'.item = i => page'.owner # acct'
                      /\ op'.item = i /\ op'.kind = "rename" => op'.owner # acct'
    BY DEF GoneOK
  <2>1. op'.kind # "rename" /\ db' \in Files
    BY <1>2, <1>4, EmptyRecords
  <2>2. CASE i = op.item
    BY <2>1, <2>2 DEF Pending
  <2>3. CASE i \in gone
    <3>1. page'.item = i => page'.owner # acct
      BY <2>3, NamesDistinct, EmptyRecords DEF CacheInv, GoneOK
    <3> QED BY <2>1, <2>3, <3>1 DEF CacheInv, GoneOK, Pending
  <2> QED BY <2>2, <2>3
<1>9. CalmOK' /\ UndisturbedRefreshExact'
  BY DEF CalmOK, UndisturbedRefreshExact
<1>10. OnlyOwnRows'
  BY <1>2, <1>3, <1>4 DEF CacheInv, OnlyOwnRows, OwnOK
<1>11. DeletedStaysGone'
  <2>1. ASSUME NEW i \in gone' PROVE rows'[f][i] # acct
    <3>1. i \in Items
      BY <1>1, <2>1 DEF TypeOK
    <3>2. CASE i = op.item
      BY <1>3, <2>1, <3>1, <3>2
    <3>3. CASE i # op.item
      BY <1>2, <1>3, <2>1, <3>1, <3>3 DEF CacheInv, GoneOK, DeletedStaysGone
    <3> QED BY <3>2, <3>3
  <2> QED BY <1>4, <2>1 DEF DeletedStaysGone
<1> QED BY <1>5, <1>6, <1>7, <1>8, <1>9, <1>10, <1>11 DEF CacheInv

LEMMA DeleteRowStep ==
    ASSUME CacheInv, op.st # "none", DeleteRow
    PROVE  CacheInv'
<1>1. /\ db' = DbQueue(acct)
      /\ rows' = [rows EXCEPT ![DbQueue(acct)] = [@ EXCEPT ![op.item] = None]]
      /\ op' = NoOp /\ page' = NoPage
      /\ gone' = IF /\ op.item \notin contacts[op.uid] /\ acct = op.uid
                    /\ \A r \in Reqs : Pending(r) => op.item \notin req[r].data
                 THEN gone \cup {op.item} ELSE gone
      /\ calm' = [s \in Reqs |-> FALSE] /\ last' = NoReq
      /\ newest' = newest \ {op.item}
      /\ UNCHANGED <<acct, running, req, contacts, mine>>
  BY DEF DeleteRow, DeletedRow, DisturbAll
<1>2. op.uid \in Users /\ None \in Users \cup {None}
  BY OpFacts
<1>3. \A i \in gone' : i = op.item =>
        /\ acct \in Users /\ None # acct /\ i \notin contacts[acct]
        /\ \A r \in Reqs : Pending(r) /\ req[r].uid = acct => i \notin req[r].data
        /\ NoPage.owner # acct
  <2> SUFFICES ASSUME NEW i \in gone', i = op.item
               PROVE  /\ acct \in Users /\ None # acct /\ i \notin contacts[acct]
                      /\ \A r \in Reqs : Pending(r) /\ req[r].uid = acct => i \notin req[r].data
                      /\ NoPage.owner # acct
    OBVIOUS
  <2>1. CASE i \in gone
    BY <2>1, NamesDistinct, EmptyRecords DEF CacheInv, GoneOK
  <2>2. CASE i \notin gone
    BY <1>1, <1>2, <2>2, NamesDistinct, EmptyRecords
  <2> QED BY <2>1, <2>2
<1> QED BY <1>1, <1>2, <1>3, WriteRow

LEMMA DeleteSteps ==
    ASSUME CacheInv, DeleteCallback \/ DeleteTimer
    PROVE  CacheInv'
<1>1. CASE DeleteRow
  <2>1. op.st # "none"
    BY DEF DeleteCallback, DeleteTimer
  <2> QED BY <1>1, <2>1, DeleteRowStep
<1>2. CASE /\ op.st = "served" /\ op' = [op EXCEPT !.st = "timer"]
           /\ UNCHANGED <<acct, running, db, rows, req, page, contacts, hist>>
  <2>1. op \in OpRecords /\ op # NoOp
    BY <1>2, OpFacts, EmptyRecords
  <2>2. /\ op' \in OpRecords /\ op'.kind = op.kind /\ op'.item = op.item
        /\ op'.uid = op.uid /\ op'.owner = op.owner
    BY <1>2, <2>1 DEF OpRecords
  <2> QED BY <1>2, <2>1, <2>2, OpFacts, OpMoves DEF hist
<1> QED BY <1>1, <1>2 DEF DeleteCallback, DeleteTimer

\* The page's contact is written back.
LEMMA SaveStep ==
    ASSUME CacheInv, SaveLabel
    PROVE  CacheInv'
<1>1. /\ op.st # "none" /\ op.kind = "rename" /\ db' = DbQueue(acct) /\ op' = NoOp
      /\ calm' = [s \in Reqs |-> FALSE] /\ last' = NoReq
      /\ UNCHANGED <<acct, running, req, page, contacts, mine, gone, newest>>
  BY DEF SaveLabel, DisturbAll
<1>2. rows' = [rows EXCEPT ![DbQueue(acct)] = [@ EXCEPT ![op.item] = op.owner]]
  BY DEF SaveLabel
<1>3. op.owner \in Users \cup {None} /\ (mine => op.owner \in {None, acct})
  BY OpFacts DEF OpRecords
<1>4. \A i \in gone : i = op.item =>
        /\ acct \in Users /\ op.owner # acct /\ i \notin contacts[acct]
        /\ \A r \in Reqs : Pending(r) /\ req[r].uid = acct => i \notin req[r].data
        /\ page.item = i => page.owner # acct
  BY <1>1 DEF CacheInv, GoneOK
<1> QED BY <1>1, <1>2, <1>3, <1>4, WriteRow

LEMMA StutterCache == CacheInv /\ UNCHANGED vars => CacheInv'
<1> SUFFICES ASSUME CacheInv, UNCHANGED vars PROVE CacheInv'
  OBVIOUS
<1>1. UNCHANGED <<acct, running, db, rows, req, op, page, contacts, mine, gone, calm, last, newest>>
  BY DEF vars, hist
<1>2. TypeOK' /\ SessionOK'
  BY <1>1 DEF CacheInv, TypeOK, SessionOK, Pending
<1>3. OwnOK' /\ GoneOK' /\ CalmOK'
  BY <1>1 DEF CacheInv, OwnOK, GoneOK, CalmOK, Pending
<1>4. OnlyOwnRows' /\ DeletedStaysGone' /\ UndisturbedRefreshExact'
  BY <1>1 DEF CacheInv, OnlyOwnRows, DeletedStaysGone, UndisturbedRefreshExact
<1> QED BY <1>2, <1>3, <1>4 DEF CacheInv

LEMMA NextCache == CacheInv /\ [Next]_vars => CacheInv'
<1> SUFFICES ASSUME CacheInv, [Next]_vars PROVE CacheInv'
  OBVIOUS
<1>1. CASE \E r \in Reqs :
             \/ SendRefresh(r) \/ ServerAnswers(r) \/ RefreshFails(r)
             \/ RefreshCallback(r) \/ InsertList(r) \/ AddCallback(r)
  BY <1>1, SendStep, AnswerStep, FailStep, ClearStep, InsertStep, AddStep
<1>2. CASE Launch \/ Terminate \/ TuiChuAction \/ KickedOffline
  BY <1>2, LaunchStep, TerminateStep, LogoutSteps
<1>3. CASE \E i \in Items : OpenPage(i) \/ SendAdd(i)
  BY <1>3, PageSteps, RequestSteps
<1>4. CASE ClosePage \/ \E k \in {"delete", "rename"} : SendOp(k)
  BY <1>4, PageSteps, RequestSteps
<1>5. CASE OpServed \/ OpFails \/ DeleteCallback \/ DeleteTimer \/ SaveLabel
  BY <1>5, ServedStep, RequestSteps, DeleteSteps, SaveStep
<1> QED BY <1>1, <1>2, <1>3, <1>4, <1>5, LoginStep, RemoteStep, StutterCache DEF Next

THEOREM CacheInvariant == Spec => []CacheInv
  BY InitCache, NextCache, PTL DEF Spec

\* Type correctness: the database is never used before a userId exists.
THEOREM CacheTypes == Spec => []TypeOK
  BY CacheInvariant, PTL DEF CacheInv

\* Once a refresh of the account was applied with no straggler of the previous
\* account, every row of the open file is the account's own until it logs out.
THEOREM OwnRows == Spec => []OnlyOwnRows
  BY CacheInvariant, PTL DEF CacheInv

\* A deleted contact stays out of the table, unless an answer that lists it was
\* under way, until it is added again.
THEOREM DeletedGone == Spec => []DeletedStaysGone
  BY CacheInvariant, PTL DEF CacheInv

\* A refresh nothing interfered with leaves exactly the server's answer.
THEOREM RefreshExact == Spec => []UndisturbedRefreshExact
  BY CacheInvariant, PTL DEF CacheInv

----------------------------------------------------------------------------
(***************************************************************************)
(* Overlapping refreshes.  A contact of the answer the table was last cleared *)
(* for is there, or an insertion that brings it is still to come; and a page  *)
(* that is written back shows a contact of somebody.                          *)
(***************************************************************************)
Awaited(i) == \E r \in Reqs : req[r].st = "inserting" /\ i \in req[r].data

NewestOK ==
    /\ newest # {} => running /\ db # Closed
    /\ \A i \in newest : rows[db][i] # None \/ Awaited(i)
    /\ page # NoPage => page.owner # None
    /\ op.kind = "rename" => op.owner # None

NewestInv == CacheInv /\ NewestOK

LEMMA InitNewest == Init => NewestOK
  BY EmptyRecords DEF Init, NewestOK

\* Steps that write no row and end no insertion.
LEMMA NewestKept ==
    ASSUME NewestOK, UNCHANGED <<running, rows, newest>>, newest # {} => db' = db,
           \A r \in Reqs : req[r].st = "inserting" => req'[r] = req[r],
           page' # NoPage => page'.owner # None, op'.kind = "rename" => op'.owner # None
    PROVE  NewestOK'
  BY DEF NewestOK, Awaited

\* Once nothing is wanted, nothing is missing.
LEMMA NothingWanted ==
    ASSUME newest' = {}, NewestOK, page' \in {page, NoPage}, op' \in {op, NoOp}
    PROVE  NewestOK'
  BY EmptyRecords DEF NewestOK

LEMMA SessionNewest ==
    ASSUME NewestInv, Launch \/ Terminate \/ TuiChuAction \/ KickedOffline
                      \/ \E u \in Users : RequestLogin(u)
    PROVE  NewestOK'
<1>1. NewestOK /\ CacheInv
  BY DEF NewestInv
<1>2. CASE Terminate \/ TuiChuAction \/ KickedOffline
  <2>1. newest' = {} /\ page' = NoPage /\ op' \in {op, NoOp}
    BY <1>2 DEF Terminate, TuiChuAction, KickedOffline, ClearUserInfo
  <2> QED BY <1>1, <2>1, NothingWanted
<1>3. CASE Launch
  <2>1. newest = {} /\ UNCHANGED <<newest, page, op>>
    BY <1>1, <1>3 DEF Launch, NewestOK, hist
  <2> QED BY <1>1, <2>1, NothingWanted
<1>4. ASSUME NEW u \in Users, RequestLogin(u) PROVE NewestOK'
  <2>1. UNCHANGED <<running, db, rows, newest, op>> /\ page' = NoPage
    BY <1>4 DEF RequestLogin
  <2>2. req \in [Reqs -> ReqRecords]
    BY <1>1 DEF CacheInv, TypeOK, ReqRecords
  <2>3. PICK r \in Reqs : Queue(r)
    BY <1>4 DEF RequestLogin
  <2>4. \A s \in Reqs : req[s].st = "inserting" => req'[s] = req[s]
    BY <2>2, <2>3, QueuedRefresh DEF Queue, Free
  <2> QED BY <1>1, <2>1, <2>4, NewestKept DEF NewestOK
<1> QED BY <1>2, <1>3, <1>4

\* A refresh on its way to its answer, or given up before it.
LEMMA MovesNewest ==
    ASSUME NewestInv, NEW r \in Reqs,
           SendRefresh(r) \/ ServerAnswers(r) \/ RefreshFails(r) \/ AddCallback(r)
    PROVE  NewestOK'
<1>1. NewestOK /\ req \in [Reqs -> ReqRecords]
  BY DEF NewestInv, CacheInv, TypeOK, ReqRecords
<1>2. /\ req[r].st # "inserting" /\ \A s \in Reqs : s # r => req'[s] = req[s]
      /\ UNCHANGED <<running, db, rows, newest, page>> /\ op' \in {op, NoOp}
  BY <1>1 DEF SendRefresh, ServerAnswers, RefreshFails, AddCallback, Free, hist
<1>3. op'.kind = "rename" => op'.owner # None
  BY <1>1, <1>2, EmptyRecords DEF NewestOK
<1> QED BY <1>1, <1>2, <1>3, NewestKept DEF NewestOK

\* The table is cleared for an answer: its contacts are now to be inserted.
LEMMA ClearNewest ==
    ASSUME NewestInv, NEW r \in Reqs, RefreshCallback(r)
    PROVE  NewestOK'
<1>1. /\ NewestOK /\ CacheInv /\ req \in [Reqs -> ReqRecords]
      /\ req[r].st = "answered" /\ newest' = req[r].data
      /\ UNCHANGED <<running, page, op>> /\ db' = DbQueue(acct)
  BY DEF NewestInv, CacheInv, TypeOK, ReqRecords, RefreshCallback
<1>2. running /\ acct # Never /\ TypeOK
  BY <1>1, RefreshRuns DEF CacheInv
<1>3. db' # Closed
  BY <1>1, <1>2, DbIsFile, NamesDistinct
<1>4. ASSUME NEW i \in newest' PROVE Awaited(i)'
  <2>1. req' = [req EXCEPT ![r] = [@ EXCEPT !.st = "inserting"]]
    BY <1>1, <1>4 DEF RefreshCallback
  <2>2. req'[r].st = "inserting" /\ req'[r].data = req[r].data
    BY <1>1, <2>1 DEF ReqRecords
  <2> QED BY <1>1, <1>4, <2>2 DEF Awaited
<1> QED BY <1>1, <1>2, <1>3, <1>4 DEF NewestOK

\* An insertion brings its own rows and leaves those that are there.
LEMMA InsertNewest ==
    ASSUME NewestInv, NEW r \in Reqs, InsertList(r)
    PROVE  NewestOK'
<1>1. /\ NewestOK /\ TypeOK /\ req \in [Reqs -> ReqRecords] /\ SessionOK
      /\ req[r].st = "inserting" /\ UNCHANGED <<running, page, op, newest>>
  BY DEF NewestInv, CacheInv, TypeOK, ReqRecords, InsertList
<1>2. /\ acct # Never /\ req[r].uid \in Users /\ db \in Files
  BY <1>1, RefreshRuns DEF NewestInv, SessionOK, Pending
<1>3. DbQueue(acct) = db /\ db # Closed
  BY <1>1, <1>2, DbIsFile, NamesDistinct
<1>4. /\ db' = db /\ req' = [req EXCEPT ![r] = NoReq]
      /\ rows' = [rows EXCEPT ![db] = Inserted(rows[db], req[r])]
  BY <1>1, <1>2, <1>3 DEF InsertList, TypeOK
<1>5. \A i \in Items : rows'[db][i] = IF i \in req[r].data THEN req[r].uid ELSE rows[db][i]
  BY <1>1, <1>2, <1>4 DEF TypeOK, Inserted
<1>6. ASSUME NEW i \in newest PROVE rows'[db][i] # None \/ Awaited(i)'
  <2>1. i \in Items /\ req[r].uid # None
    BY <1>1, <1>2, NamesDistinct DEF TypeOK
  <2>2. CASE i \in req[r].data \/ rows[db][i] # None
    BY <1>5, <2>1, <2>2
  <2>3. CASE i \notin req[r].data /\ rows[db][i] = None
    <3>1. PICK s \in Reqs : req[s].st = "inserting" /\ i \in req[s].data
      BY <1>1, <2>3 DEF NewestOK, Awaited
    <3>2. req'[s] = req[s]
      BY <1>1, <1>4, <2>3, <3>1
    <3> QED BY <3>1, <3>2 DEF Awaited
  <2> QED BY <2>2, <2>3
<1> QED BY <1>1, <1>3, <1>4, <1>6 DEF NewestOK

\* The user's own requests: a page shows a contact of somebody, a contact that is
\* deleted is no longer wanted, and one that is written back is there.
LEMMA UserNewest ==
    ASSUME NewestInv,
           \/ ClosePage \/ \E i \in Items : OpenPage(i) \/ SendAdd(i)
           \/ \E k \in {"delete", "rename"} : SendOp(k)
           \/ OpServed \/ OpFails \/ DeleteCallback \/ DeleteTimer \/ SaveLabel
           \/ \E u \in Users, i \in Items : RemoteChange(u, i)
    PROVE  NewestOK'
<1>1. NewestOK /\ CacheInv /\ TypeOK /\ op \in OpRecords
  BY OpFacts DEF NewestInv, CacheInv
<1>2. CASE ClosePage \/ OpFails \/ \E u \in Users, i \in Items : RemoteChange(u, i)
  <2>1. UNCHANGED <<running, db, rows, req, newest>> /\ page' \in {page, NoPage} /\ op' \in {op, NoOp}
    BY <1>2 DEF ClosePage, OpFails, RemoteChange, hist
  <2>2. (page' # NoPage => page'.owner # None) /\ (op'.kind = "rename" => op'.owner # None)
    BY <1>1, <2>1, EmptyRecords DEF NewestOK
  <2> QED BY <1>1, <2>1, <2>2, NewestKept
<1>3. ASSUME NEW i \in Items, OpenPage(i) PROVE NewestOK'
  <2>1. UNCHANGED <<running, db, rows, req, newest, op>> /\ page'.owner # None
    BY <1>3 DEF OpenPage, hist
  <2> QED BY <1>1, <2>1, NewestKept DEF NewestOK
<1>4. CASE (\E i \in Items : SendAdd(i)) \/ (\E k \in {"delete", "rename"} : SendOp(k)) \/ OpServed
           \/ (op.st = "served" /\ op' = [op EXCEPT !.st = "timer"]
                 /\ UNCHANGED <<acct, running, db, rows, req, page, contacts, hist>>)
  <2>1. UNCHANGED <<running, db, rows, req, newest, page>>
    BY <1>4 DEF SendAdd, SendOp, OpServed, hist
  <2>2. op'.kind = "rename" => op'.owner # None
    <3>1. CASE \E i \in Items : SendAdd(i)
      BY <3>1 DEF SendAdd, NoOp
    <3>2. CASE \E k \in {"delete", "rename"} : SendOp(k)
      BY <1>1, <3>2 DEF SendOp, NewestOK
    <3>3. CASE op' = [op EXCEPT !.st = "served"] \/ op' = [op EXCEPT !.st = "timer"]
      BY <1>1, <3>3 DEF NewestOK, OpRecords
    <3> QED BY <1>4, <3>1, <3>2, <3>3 DEF OpServed
  <2> QED BY <1>1, <2>1, <2>2, NewestKept DEF NewestOK
<1>5. ASSUME op.st # "none", NEW v \in Users \cup {None}, UNCHANGED <<running, req>>,
             db' = DbQueue(acct),
             rows' = [rows EXCEPT ![DbQueue(acct)] = [@ EXCEPT ![op.item] = v]],
             newest' \subseteq newest, op.item \in newest' => v # None,
             op' = NoOp, page' \in {page, NoPage}
      PROVE  NewestOK'
  <2>1. op.item \in Items /\ acct # Never
    BY <1>1, <1>5, OpFacts, EmptyRecords
  <2>2. DbQueue(acct) \in Files /\ (db # Closed => DbQueue(acct) = db)
    BY <1>1, <2>1, DbIsFile DEF DbQueue
  <2>3. \A i \in Items : rows'[db'][i] = IF i = op.item THEN v ELSE rows[db'][i]
    BY <1>1, <1>5, <2>1, <2>2 DEF TypeOK
  <2>4. newest' \subseteq newest /\ (newest # {} => running /\ db' = db /\ db # Closed)
    BY <1>1, <1>5, <2>2 DEF NewestOK
  <2>5. ASSUME NEW i \in newest' PROVE rows'[db'][i] # None \/ Awaited(i)'
    <3>1. i \in newest /\ i \in Items /\ db' = db
      BY <1>1, <2>4, <2>5 DEF TypeOK
    <3>2. CASE i = op.item
      BY <1>5, <2>3, <2>5, <3>1, <3>2
    <3>3. CASE i # op.item
      <4>1. rows'[db'][i] = rows[db][i]
        BY <2>3, <3>1, <3>3
      <4>2. Awaited(i) => Awaited(i)'
        BY <1>5 DEF Awaited
      <4> QED BY <1>1, <3>1, <4>1, <4>2 DEF NewestOK
    <3> QED BY <3>2, <3>3
  <2>6. (page' # NoPage => page'.owner # None) /\ (op'.kind = "rename" => op'.owner # None)
    BY <1>1, <1>5, EmptyRecords DEF NewestOK
  <2> QED BY <1>5, <2>4, <2>5, <2>6 DEF NewestOK
<1>6. CASE (DeleteCallback \/ DeleteTimer) /\ DeleteRow
  <2>1. op.st # "none" /\ None \in Users \cup {None}
    BY <1>6 DEF DeleteCallback, DeleteTimer
  <2>2. /\ UNCHANGED <<running, req>> /\ db' = DbQueue(acct)
        /\ rows' = [rows EXCEPT ![DbQueue(acct)] = [@ EXCEPT ![op.item] = None]]
        /\ newest' = newest \ {op.item} /\ op' = NoOp /\ page' = NoPage
    BY <1>6 DEF DeleteRow, DeletedRow
  <2> QED BY <1>5, <2>1, <2>2
<1>7. CASE SaveLabel
  <2>1. op.st # "none" /\ op.kind = "rename" /\ op.owner \in Users \cup {None} /\ op.owner # None
    BY <1>1, <1>7 DEF SaveLabel, NewestOK, OpRecords
  <2>2. /\ UNCHANGED <<running, req, newest, page>> /\ db' = DbQueue(acct) /\ op' = NoOp
        /\ rows' = [rows EXCEPT ![DbQueue(acct)] = [@ EXCEPT ![op.item] = op.owner]]
    BY <1>7 DEF SaveLabel
  <2> QED BY <1>5, <2>1, <2>2
<1> QED BY <1>2, <1>3, <1>4, <1>6, <1>7 DEF DeleteCallback, DeleteTimer

LEMMA NextNewest == NewestInv /\ [Next]_vars => NewestInv'
<1> SUFFICES ASSUME NewestInv, [Next]_vars PROVE NewestInv'
  OBVIOUS
<1>1. CacheInv'
  BY NextCache DEF NewestInv
<1>2. NewestOK'
  <2>1. CASE UNCHANGED vars
    BY <2>1 DEF NewestInv, NewestOK, Awaited, vars, hist
  <2>2. CASE \E r \in Reqs : RefreshCallback(r) \/ InsertList(r) \/ SendRefresh(r) \/ ServerAnswers(r)
                             \/ RefreshFails(r) \/ AddCallback(r)
    BY <2>2, ClearNewest, InsertNewest, MovesNewest
  <2> QED BY <2>1, <2>2, SessionNewest, UserNewest DEF Next
<1> QED BY <1>1, <1>2 DEF NewestInv

\* However refreshes overlap, when nothing is left to insert the contacts of the answer the
\* table was last cleared for are all there, but those the user deleted since.
THEOREM NewestComplete == Spec => []NewestIsComplete
<1>1. Init => NewestInv
  BY InitCache, InitNewest DEF NewestInv
<1>2. NewestInv => NewestIsComplete
  BY DEF NewestInv, NewestOK, NewestIsComplete, Awaited
<1> QED BY <1>1, <1>2, NextNewest, PTL DEF Spec

=============================================================================
