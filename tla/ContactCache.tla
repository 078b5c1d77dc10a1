---------------------------- MODULE ContactCache ----------------------------
(***************************************************************************)
(* The contact cache of the iOS client: the friend table or the group table *)
(* of RCDataBaseManager (List says which), the refreshes of AppDelegate that *)
(* fill it from the server, and the pages that change a contact.            *)
(*                                                                         *)
(* A refresh clears the table in its callback on the main queue and queues  *)
(* the insertion on a background queue.  The database file is chosen once,  *)
(* by the userId that is set when the manager first needs it.               *)
(***************************************************************************)
EXTENDS Naturals

CONSTANTS Users,   \* the accounts that may log in on this phone
          Items,   \* contacts an account may have
          Reqs,    \* bound: refreshes under way at a time
          List     \* "friend" or "group"

ASSUME ListAssumption == List \in {"friend", "group"}

Nobody == ""        \* userId after a logout
Never == "nil"      \* userId before the first login
Closed == "closed"
None == "none"

\* No account has one of these for its userId.
ASSUME UsersAssumption == Users \cap {Nobody, Never, Closed, None} = {}

VARIABLES acct,      \* the userId of UserDefaults (RCLOUD_ID)
          running,   \* the app runs
          db,        \* the file _dbQueue is open on
          rows,      \* rows[f][i]: whose contact row i of file f is, None if absent
          req,       \* req[r]: a refresh
          op,        \* the request of the user that is under way
          page,      \* the contact whose page is open
          contacts   \* contacts[u]: the list the server keeps

\* History: mine, the table was last cleared by a refresh of acct with nothing of
\* another account left; gone, the contacts deleted with no older answer
\* under way; calm[r], nothing but r wrote the table since r's answer; last, the
\* answer of the refresh that was the last to write it, undisturbed; newest, the
\* contacts of the answer for which the table was last cleared, without those
\* that were deleted since.
VARIABLES mine, gone, calm, last, newest

hist == <<mine, gone, calm, last, newest>>
vars == <<acct, running, db, rows, req, op, page, contacts, hist>>

Files == Users \cup {Nobody}
NoReq == [st |-> "idle", uid |-> Nobody, data |-> {}]
NoOp == [st |-> "none", kind |-> None, item |-> None, uid |-> Nobody, owner |-> None]
NoPage == [item |-> None, owner |-> None]
EmptyTable == [i \in Items |-> None]

Init ==
    /\ acct = Never /\ running = FALSE /\ db = Closed
    /\ rows = [f \in Files |-> EmptyTable]
    /\ req = [r \in Reqs |-> NoReq]
    /\ op = NoOp /\ page = NoPage
    /\ contacts = [u \in Users |-> {}]
    /\ mine = FALSE /\ gone = {} /\ calm = [r \in Reqs |-> FALSE]
    /\ last = NoReq /\ newest = {}

\* dbQueue: the open file, or the file of the userId that is set now.
DbQueue(uid) == IF db = Closed THEN uid ELSE db

LoggedIn == running /\ acct \in Users
Free(r) == req[r].st = "idle"
Pending(r) == req[r].st \in {"answered", "inserting"}

\* History of a write to the table: by refresh r, as its last one or not, or by
\* something else.
Disturb(r, ends) ==
    /\ calm' = [s \in Reqs |-> s = r /\ calm[s] /\ ~ends]
    /\ last' = IF ends /\ calm[r] THEN req[r] ELSE NoReq
DisturbAll == calm' = [s \in Reqs |-> FALSE] /\ last' = NoReq

----------------------------------------------------------------------------
(***************************************************************************)
(* The app, the account and the session.                                   *)
(***************************************************************************)

\* The background block of didFinishLaunching and dismissLogin is queued.
Queue(r) == Free(r) /\ req' = [req EXCEPT ![r] = [NoReq EXCEPT !.st = "queued"]]

\* Mutant: the refresh is queued without looking whether anybody is logged in.
LaunchUnchecked ==
    /\ ~running
    /\ running' = TRUE
    /\ db' = IF acct = Never THEN Closed ELSE acct
    /\ \E r \in Reqs : Queue(r)
    /\ UNCHANGED <<acct, rows, op, page, contacts, hist>>

\* didFinishLaunching: shareInstance opens the file unless nobody ever logged in.
Launch ==
    /\ ~running
    /\ running' = TRUE
    /\ db' = IF acct = Never THEN Closed ELSE acct
    /\ IF acct \in Users THEN \E r \in Reqs : Queue(r) ELSE UNCHANGED req
    /\ UNCHANGED <<acct, rows, op, page, contacts, hist>>

\* The process ends: requests, queued blocks and the file handle are gone.
Terminate ==
    /\ running
    /\ running' = FALSE
    /\ db' = Closed
    /\ req' = [r \in Reqs |-> NoReq]
    /\ op' = NoOp /\ page' = NoPage
    /\ mine' = FALSE /\ gone' = {} /\ newest' = {} /\ DisturbAll
    /\ UNCHANGED <<acct, rows, contacts>>

\* requestLogin stores the userId and posts "remove", on which dismissLogin
\* queues a refresh.  An open file stays open.
RequestLogin(u) ==
    /\ running /\ acct \notin Users
    /\ acct' = u
    /\ page' = NoPage
    /\ \E r \in Reqs : Queue(r)
    /\ mine' = FALSE /\ gone' = {}
    /\ UNCHANGED <<running, db, rows, op, contacts, calm, last, newest>>

\* tuiChuAction and cleatuserinfomessage: the userId is emptied, then the table.
ClearUserInfo ==
    /\ acct' = Nobody
    /\ db' = DbQueue(Nobody)
    /\ rows' = [rows EXCEPT ![DbQueue(Nobody)] = EmptyTable]
    /\ page' = NoPage
    /\ mine' = FALSE /\ gone' = {} /\ newest' = {} /\ DisturbAll
    /\ UNCHANGED <<running, req, op, contacts>>

TuiChuAction == LoggedIn /\ ClearUserInfo

\* onRCIMConnectionStatusChanged: kicked by another device, or banned.
KickedOffline == LoggedIn /\ ClearUserInfo

----------------------------------------------------------------------------
(***************************************************************************)
(* A refresh: insertAndSaveFriendandgroup, insertGroup.                    *)
(***************************************************************************)

\* The queued block runs and names the account that is logged in now.
SendRefresh(r) ==
    /\ req[r].st = "queued"
    /\ req' = [req EXCEPT ![r].st = "sent", ![r].uid = acct]
    /\ UNCHANGED <<acct, running, db, rows, op, page, contacts, hist>>

ServerAnswers(r) ==
    /\ req[r].st = "sent" /\ req[r].uid \in Users
    /\ req' = [req EXCEPT ![r].st = "answered", ![r].data = contacts[req[r].uid]]
    /\ calm' = [calm EXCEPT ![r] = TRUE]
    /\ UNCHANGED <<acct, running, db, rows, op, page, contacts, mine, gone, last, newest>>

\* Another status, or the failure block: nothing is done.
RefreshFails(r) ==
    /\ req[r].st \in {"sent", "answered"}
    /\ req' = [req EXCEPT ![r] = NoReq]
    /\ calm' = [calm EXCEPT ![r] = FALSE]
    /\ UNCHANGED <<acct, running, db, rows, op, page, contacts, mine, gone, last, newest>>

\* No request of another account, and no page of its contacts, is left.
NoStraggler(r) ==
    /\ \A s \in Reqs \ {r} : req[s].st \in {"sent", "answered", "inserting"}
                                => req[s].uid \in {acct, Nobody}
    /\ {op.owner, page.owner} \subseteq {None, acct}

\* Mutant: the table is not cleared first.
ClearedNot(table) == table

\* clearFriendsData, clearGroupsData.
Cleared(table) == EmptyTable

\* The success block clears the table and queues the rows for insertion.
RefreshCallback(r) ==
    /\ req[r].st = "answered"
    /\ db' = DbQueue(acct)
    /\ rows' = [rows EXCEPT ![DbQueue(acct)] = Cleared(@)]
    /\ req' = [req EXCEPT ![r] = IF @.data = {} THEN NoReq
                                 ELSE [@ EXCEPT !.st = "inserting"]]
    /\ mine' = (req[r].uid = acct /\ (mine \/ NoStraggler(r)))
    /\ newest' = req[r].data
    /\ Disturb(r, req[r].data = {})
    /\ UNCHANGED <<acct, running, op, page, contacts, gone>>

\* Mutant: the insertion replaces what the table holds, and with it the rows of
\* another refresh.
Replaced(table, answer) == [i \in Items |-> IF i \in answer.data THEN answer.uid ELSE None]

\* REPLACE INTO: the rows of the answer, on top of what is there.
Inserted(table, answer) == [i \in Items |-> IF i \in answer.data THEN answer.uid ELSE table[i]]

\* insertFriendListToDB, insertGroupsToDB: one transaction of REPLACEs, on the
\* file that is open when the block runs.
InsertList(r) ==
    /\ req[r].st = "inserting"
    /\ db' = DbQueue(acct)
    /\ rows' = [rows EXCEPT ![DbQueue(acct)] = Inserted(@, req[r])]
    /\ req' = [req EXCEPT ![r] = NoReq]
    /\ Disturb(r, TRUE)
    /\ UNCHANGED <<acct, running, op, page, contacts, mine, gone, newest>>

----------------------------------------------------------------------------
(***************************************************************************)
(* The user's own requests, one at a time.                                 *)
(***************************************************************************)

\* A contact of the list shown by loadrequestlistdata is opened.
OpenPage(i) ==
    /\ LoggedIn /\ page = NoPage /\ op = NoOp
    /\ rows[DbQueue(acct)][i] # None
    /\ page' = [item |-> i, owner |-> rows[DbQueue(acct)][i]]
    /\ UNCHANGED <<acct, running, db, rows, req, op, contacts, hist>>

ClosePage ==
    /\ page # NoPage
    /\ page' = NoPage
    /\ UNCHANGED <<acct, running, db, rows, req, op, contacts, hist>>

\* deletefriend, ouTGroup, dissolutionGroup; noteSave and the group settings.
SendOp(kind) ==
    /\ LoggedIn /\ page # NoPage /\ op = NoOp
    /\ op' = [st |-> "sent", kind |-> kind, item |-> page.item, uid |-> acct,
              owner |-> page.owner]
    /\ UNCHANGED <<acct, running, db, rows, req, page, contacts, hist>>

\* addfriend, passaddGroup, cgreatGroupwith, sendJionGroup.
SendAdd(i) ==
    /\ LoggedIn /\ op = NoOp
    /\ op' = [NoOp EXCEPT !.st = "sent", !.kind = "add", !.item = i, !.uid = acct]
    /\ UNCHANGED <<acct, running, db, rows, req, page, contacts, hist>>

OpServed ==
    /\ op.st = "sent"
    /\ op' = [op EXCEPT !.st = "served"]
    /\ contacts' = [contacts EXCEPT ![op.uid] =
                      CASE op.kind = "add" -> @ \cup {op.item}
                        [] op.kind = "delete" -> @ \ {op.item}
                        [] OTHER -> @]
    /\ gone' = IF op.kind = "add" THEN gone \ {op.item} ELSE gone
    /\ UNCHANGED <<acct, running, db, rows, req, page, mine, calm, last, newest>>

OpFails ==
    /\ op.st \in {"sent", "served"}
    /\ op' = NoOp
    /\ UNCHANGED <<acct, running, db, rows, req, page, contacts, hist>>

\* addfriend and the others post UPDATE_GROUP_FRIEND: UpdateselfList sends a
\* refresh at once.
AddCallback(r) ==
    /\ op.st = "served" /\ op.kind = "add" /\ Free(r)
    /\ op' = NoOp
    /\ req' = [req EXCEPT ![r] = [NoReq EXCEPT !.st = "sent", !.uid = acct]]
    /\ calm' = [calm EXCEPT ![r] = FALSE]
    /\ UNCHANGED <<acct, running, db, rows, page, contacts, mine, gone, last, newest>>

\* Mutant: the page is closed and the row kept.
DeletedRowNot(table, i) == table

\* deleteFriendFromDB, deleteGroupToDB.
DeletedRow(table, i) == [table EXCEPT ![i] = None]

\* The row is deleted and the page popped.
DeleteRow ==
    /\ db' = DbQueue(acct)
    /\ rows' = [rows EXCEPT ![DbQueue(acct)] = DeletedRow(@, op.item)]
    /\ op' = NoOp /\ page' = NoPage
    /\ gone' = IF op.item \notin contacts[op.uid] /\ acct = op.uid
                  /\ \A r \in Reqs : Pending(r) => op.item \notin req[r].data
               THEN gone \cup {op.item} ELSE gone
    /\ newest' = newest \ {op.item}
    /\ DisturbAll
    /\ UNCHANGED <<acct, running, req, contacts, mine>>

\* A deleted friend's row goes at once, a group's after 1.5 s.
DeleteCallback ==
    /\ op.st = "served" /\ op.kind = "delete"
    /\ IF List = "friend" THEN DeleteRow
       ELSE /\ op' = [op EXCEPT !.st = "timer"]
            /\ UNCHANGED <<acct, running, db, rows, req, page, contacts, hist>>

DeleteTimer == op.st = "timer" /\ DeleteRow

\* savelabel, and the success block of the group settings: the page's contact is
\* written back (insertFriendToDB, insertGroupToDB) whatever the table holds now.
SaveLabel ==
    /\ op.st = "served" /\ op.kind = "rename"
    /\ db' = DbQueue(acct)
    /\ rows' = [rows EXCEPT ![DbQueue(acct)][op.item] = op.owner]
    /\ op' = NoOp
    /\ DisturbAll
    /\ UNCHANGED <<acct, running, req, page, contacts, mine, gone, newest>>

\* The other side befriends, invites, leaves or removes; no one tells this app.
RemoteChange(u, i) ==
    /\ contacts' = [contacts EXCEPT ![u] = IF i \in @ THEN @ \ {i} ELSE @ \cup {i}]
    /\ gone' = IF u = acct THEN gone \ {i} ELSE gone
    /\ UNCHANGED <<acct, running, db, rows, req, op, page, mine, calm, last, newest>>

----------------------------------------------------------------------------
Next ==
    \/ Launch \/ Terminate \/ TuiChuAction \/ KickedOffline
    \/ \E u \in Users : RequestLogin(u)
    \/ \E r \in Reqs :
         \/ SendRefresh(r) \/ ServerAnswers(r) \/ RefreshFails(r)
         \/ RefreshCallback(r) \/ InsertList(r) \/ AddCallback(r)
    \/ \E i \in Items : OpenPage(i) \/ SendAdd(i)
    \/ ClosePage \/ \E k \in {"delete", "rename"} : SendOp(k)
    \/ OpServed \/ OpFails \/ DeleteCallback \/ DeleteTimer \/ SaveLabel
    \/ \E u \in Users, i \in Items : RemoteChange(u, i)

Spec == Init /\ [][Next]_vars

----------------------------------------------------------------------------
(***************************************************************************)
(* Properties.                                                             *)
(***************************************************************************)

\* The variables hold what the code keeps in them; in particular the database is
\* never used before a userId exists.
TypeOK ==
    /\ acct \in Files \cup {Never}
    /\ running \in BOOLEAN
    /\ db \in Files \cup {Closed}
    /\ rows \in [Files -> [Items -> Users \cup {None}]]
    /\ req \in [Reqs -> [st : {"idle", "queued", "sent", "answered", "inserting"},
                         uid : Files, data : SUBSET Items]]
    /\ op \in [st : {"none", "sent", "served", "timer"},
               kind : {None, "add", "delete", "rename"}, item : Items \cup {None},
               uid : Files, owner : Users \cup {None}]
    /\ page \in [item : Items \cup {None}, owner : Users \cup {None}]
    /\ contacts \in [Users -> SUBSET Items]
    /\ mine \in BOOLEAN /\ gone \subseteq Items /\ calm \in [Reqs -> BOOLEAN]
    /\ last \in [st : {"idle", "answered", "inserting"}, uid : Files, data : SUBSET Items]
    /\ newest \subseteq Items

\* Whose contacts a user sees: once a refresh of the account has been applied
\* with no request of the previous account under way, every row of the open
\* file is the account's own until it logs out.
OnlyOwnRows ==
    mine => \A i \in Items : rows[db][i] \in {acct, None}

\* A contact the user deleted does not come back by itself: unless an answer
\* that still lists it was under way, it stays out of the table until it is
\* added again.
DeletedStaysGone ==
    \A i \in gone : rows[db][i] # acct

\* A refresh that nothing else interfered with leaves exactly the list the
\* server answered.
UndisturbedRefreshExact ==
    last # NoReq =>
        \A i \in Items : rows[db][i] = IF i \in last.data THEN last.uid ELSE None

\* Overlapping refreshes clear and insert in turns, and the insertions come in any order.
\* The table may then hold more than any one answer, but when nothing is left to insert,
\* the contacts of the answer it was last cleared for are all there.
NewestIsComplete ==
    (\A r \in Reqs : req[r].st # "inserting") => \A i \in newest : rows[db][i] # None

\* After a logout the tables of the open file are empty.
LogoutDeletesData ==
    running /\ acct = Nobody => db # Closed /\ rows[db] = EmptyTable
=============================================================================
