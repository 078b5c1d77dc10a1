---------------------------- MODULE RedEnvelope ----------------------------
(***************************************************************************)
(* Red envelopes: a sender fills in the form of the iOS client, the server *)
(* keeps the packet and splits it with Red.generateRedValue, and the        *)
(* members of the conversation claim their shares by tapping the message.   *)
(*                                                                         *)
(* Amounts of money are counted in the smallest unit of the Java code (four *)
(* decimals, ROUND_DOWN); an amount typed in the form is a whole number of  *)
(* coins, Unit smallest units each.                                        *)
(*                                                                         *)
(* RedService is not part of the repository: RecvRed and CreateRed model it *)
(* from how RedController and the client use it.                           *)
(***************************************************************************)
EXTENDS Integers, FiniteSets, Sequences, SequencesExt, Functions

CONSTANTS Packets,   \* red envelopes that may be sent
          Users,     \* members of the conversation
          Taps,      \* claim requests the clients may issue
          Unit,      \* smallest units in one coin (10000 in the code)
          Amounts,   \* whole coins a sender may type, 0 for an empty field
          Sizes      \* numbers of shares a sender may type, 0 for empty

ASSUME UnitAssumption == Unit \in Nat \ {0}
ASSUME AmountsAssumption == Amounts \subseteq Nat
ASSUME SizesAssumption == Sizes \subseteq Nat
ASSUME UsersAssumption == IsFiniteSet(Users) /\ Users # {}

VARIABLES form,     \* the send form: who has it open, and its fields
          pkt,      \* the packets the server knows
          taken,    \* taken[p]: the users whose share of p is recorded
          share,    \* share[p][u]: the share recorded for u, 0 if none
          tap,      \* tap[t]: the claim request t, at its server and client end
          win,      \* win[u]: the envelope views on u's screen, topmost last
          coming,   \* coming[u]: views that shareviewShow is about to put there, next first
          red,      \* red[u]: the view the controller property "red" refers to
          detail    \* detail[u]: what the last detail page of u showed

vars == <<form, pkt, taken, share, tap, win, coming, red, detail>>

Kinds == {"single", "group"}
None == "none"
NoForm == [open |-> FALSE, user |-> None, to |-> None, kind |-> "single",
           amount |-> 0, count |-> 0, enabled |-> FALSE]
NoPacket == [st |-> "unsent", kind |-> "single", from |-> None, to |-> None,
             total |-> 0, size |-> 0, balance |-> 0, left |-> 0]
NoRequest == [cli |-> "idle", srv |-> "none", u |-> None, p |-> None,
              status |-> "none", amt |-> 0]
NoDetail == [p |-> None, amt |-> 0]

Init ==
    /\ form = NoForm
    /\ pkt = [p \in Packets |-> NoPacket]
    /\ taken = [p \in Packets |-> {}]
    /\ share = [p \in Packets |-> [u \in Users |-> 0]]
    /\ tap = [t \in Taps |-> NoRequest]
    /\ win = [u \in Users |-> <<>>]
    /\ coming = [u \in Users |-> <<>>]
    /\ red = [u \in Users |-> None]
    /\ detail = [u \in Users |-> NoDetail]

----------------------------------------------------------------------------
(***************************************************************************)
(* Sending.                                                                *)
(***************************************************************************)

\* viewDidLoad: the page shows "0.00" and the button is disabled.  (Bound: the
\* form is opened only while a packet is left to send.)
ViewDidLoad(u, to, kind) ==
    /\ ~form.open
    /\ \E p \in Packets : pkt[p].st = "unsent"
    /\ form' = [NoForm EXCEPT !.open = TRUE, !.user = u, !.to = to, !.kind = kind]
    /\ UNCHANGED <<pkt, taken, share, tap, win, coming, red, detail>>

\* In a private chat there is no count field and only an edit of the amount
\* re-evaluates the button; in a group every edit does.
SendEnabled(kind, amount, count) ==
    IF kind = "single" THEN amount # 0 ELSE amount # 0 /\ count # 0

TextFieldDidChange(amount, count) ==
    /\ form.open
    /\ form.kind = "single" => count = 0
    /\ form' = [form EXCEPT !.amount = amount, !.count = count,
                            !.enabled = SendEnabled(form.kind, amount, count)]
    /\ UNCHANGED <<pkt, taken, share, tap, win, coming, red, detail>>

\* The button posts the packet and pops the page.  A single envelope carries no
\* count: it has one share.
BeginSendRedMessage(p) ==
    /\ form.open /\ form.enabled
    /\ pkt[p].st = "unsent"
    /\ LET size == IF form.kind = "single" THEN 1 ELSE form.count
           total == Unit * form.amount
       IN pkt' = [pkt EXCEPT ![p] =
                    [st |-> "posted", kind |-> form.kind, from |-> form.user,
                     to |-> form.to, total |-> total, size |-> size,
                     balance |-> total, left |-> size]]
    /\ form' = NoForm
    /\ UNCHANGED <<taken, share, tap, win, coming, red, detail>>

\* sendSingle / sendMulti reach RedService, which stores the packet and puts
\* the message into the conversation.
CreateRed(p) ==
    /\ pkt[p].st = "posted"
    /\ pkt' = [pkt EXCEPT ![p].st = "open"]
    /\ UNCHANGED <<form, taken, share, tap, win, coming, red, detail>>

\* The post is lost; the sender sees an alert and nothing else happens.
SendFails(p) ==
    /\ pkt[p].st = "posted"
    /\ pkt' = [pkt EXCEPT ![p].st = "lost"]
    /\ UNCHANGED <<form, taken, share, tap, win, coming, red, detail>>

----------------------------------------------------------------------------
(***************************************************************************)
(* Claiming, server side.                                                  *)
(***************************************************************************)

\* Mutants of generateRedValue: the bound included, the mean rounded up with the
\* bound included, and the mean not doubled.
GenerateRedValueInclusive(total, count) ==
    IF count = 1 THEN {total} ELSE 1..((total \div count) * 2)
GenerateRedValueRoundUp(total, count) ==
    IF count = 1 THEN {total} ELSE 1..(((total + count - 1) \div count) * 2)
GenerateRedValueSingleMean(total, count) ==
    IF count = 1 THEN {total} ELSE 1..((total \div count) - 1)

\* Red.generateRedValue: the values the call can return.  nextDouble is below
\* one, so the floored product is below max; a zero is drawn again, and when
\* max is zero every draw is zero: the set is empty and the loop never ends.
GenerateRedValue(total, count) ==
    IF count = 1 THEN {total}
    ELSE LET max == (total \div count) * 2
         IN {money \in 0..(max - 1) : money # 0}

\* What the service is taken to do, since 5001 makes the client say "you have had
\* this one already": it knows whose share is recorded.
AlreadyClaimed(p, u) == u \in taken[p]

\* Mutant: the share is recorded but not taken off the balance.
GrantKeepsBalance(p, u, money) ==
    /\ pkt' = [pkt EXCEPT ![p].left = @ - 1]
    /\ taken' = [taken EXCEPT ![p] = @ \cup {u}]
    /\ share' = [share EXCEPT ![p][u] = money]

Paid(r, money) == [r EXCEPT !.balance = @ - money, !.left = @ - 1]

Grant(p, u, money) ==
    /\ pkt' = [pkt EXCEPT ![p] = Paid(@, money)]
    /\ taken' = [taken EXCEPT ![p] = @ \cup {u}]
    /\ share' = [share EXCEPT ![p][u] = money]

\* The answer to a request: a status and, with "200", the share.
Served(r, status, amt) ==
    [r EXCEPT !.srv = "served", !.status = status, !.amt = amt]
Answered(t, status, amt) == [tap EXCEPT ![t] = Served(@, status, amt)]

\* recvSingle / recvMulti: 5001 for a user who already has a share, 5002 when
\* nothing is left, else a share is drawn and recorded.
RecvRed(t) ==
    /\ tap[t].srv = "queued"
    /\ LET p == tap[t].p
           u == tap[t].u
           values == GenerateRedValue(pkt[p].balance, pkt[p].left)
       IN \/ /\ AlreadyClaimed(p, u)
             /\ tap' = Answered(t, "5001", 0)
             /\ UNCHANGED <<pkt, taken, share>>
          \/ /\ ~AlreadyClaimed(p, u) /\ pkt[p].left = 0
             /\ tap' = Answered(t, "5002", 0)
             /\ UNCHANGED <<pkt, taken, share>>
          \/ /\ ~AlreadyClaimed(p, u) /\ pkt[p].left # 0
             /\ \E money \in values :
                  Grant(p, u, money) /\ tap' = Answered(t, "200", money)
          \/ /\ ~AlreadyClaimed(p, u) /\ pkt[p].left # 0 /\ values = {}
             /\ tap' = [tap EXCEPT ![t].srv = "stuck"]
             /\ UNCHANGED <<pkt, taken, share>>
    /\ UNCHANGED <<form, win, coming, red, detail>>

\* The request is lost on its way to the server.
RequestLost(t) ==
    /\ tap[t].srv = "queued"
    /\ tap' = [tap EXCEPT ![t].srv = "lost"]
    /\ UNCHANGED <<form, pkt, taken, share, win, coming, red, detail>>

----------------------------------------------------------------------------
(***************************************************************************)
(* Claiming, client side.                                                  *)
(***************************************************************************)

\* Who sees the message of packet p: both ends of a private chat, all of a group.
Sees(u, p) == pkt[p].kind = "single" => u \in {pkt[p].from, pkt[p].to}

\* didTapMessageCell, getaredenvelope, getGroupelope: the message can be tapped
\* when no envelope view covers it, again and again while requests are under
\* way; the sender of a single envelope gets an alert and no request.
DidTapMessageCell(t, u, p) ==
    /\ tap[t].cli = "idle"
    /\ pkt[p].st = "open" /\ Sees(u, p)
    /\ win[u] = <<>>
    /\ ~(pkt[p].kind = "single" /\ u = pkt[p].from)
    /\ tap' = [tap EXCEPT ![t] = [cli |-> "waiting", srv |-> "queued", u |-> u,
                                  p |-> p, status |-> "none", amt |-> 0]]
    /\ UNCHANGED <<form, pkt, taken, share, win, coming, red, detail>>

\* Mutant: the view that there is already stays self.red.
ShowAnswerKeepsRed(t) ==
    /\ tap[t].cli = "waiting" /\ tap[t].srv = "served"
    /\ tap' = [tap EXCEPT ![t].cli = IF tap[t].status = "200" THEN "have" ELSE "no"]
    /\ coming' = [coming EXCEPT ![tap[t].u] = Append(@, t)]
    /\ red' = [red EXCEPT ![tap[t].u] = IF @ = None THEN t ELSE @]
    /\ UNCHANGED <<form, pkt, taken, share, win, detail>>

\* The success block: a new view, for a share or for the reason there is none,
\* becomes self.red, and shareviewShow begins to show it.
ShowAnswer(t) ==
    /\ tap[t].cli = "waiting" /\ tap[t].srv = "served"
    /\ tap' = [tap EXCEPT ![t].cli = IF tap[t].status = "200" THEN "have" ELSE "no"]
    /\ coming' = [coming EXCEPT ![tap[t].u] = Append(@, t)]
    /\ red' = [red EXCEPT ![tap[t].u] = t]
    /\ UNCHANGED <<form, pkt, taken, share, win, detail>>

\* 0.2 s later, the same for every view, it is put on top of the window, even if it
\* was cancelled before.
ShareviewShow(u) ==
    /\ coming[u] # <<>>
    /\ win' = [win EXCEPT ![u] = Append(@, Head(coming[u]))]
    /\ coming' = [coming EXCEPT ![u] = Tail(@)]
    /\ UNCHANGED <<form, pkt, taken, share, tap, red, detail>>

\* The failure block: no network, the 30 s time-out or a lost answer.  The
\* server may still serve the request.
ClaimFails(t) ==
    /\ tap[t].cli = "waiting"
    /\ tap' = [tap EXCEPT ![t].cli = "failed"]
    /\ UNCHANGED <<form, pkt, taken, share, win, coming, red, detail>>

\* removeFromSuperview: a view is on the screen at most once.
Without(s, t) ==
    IF \E i \in DOMAIN s : s[i] = t
    THEN RemoveAt(s, CHOOSE i \in DOMAIN s : s[i] = t)
    ELSE s
Top(u) == Last(win[u])

\* pushRedmessageview cancels the view self.red refers to, which need not be
\* the one that was opened, and pushes the detail page.
PushRedMessageView(u, p, amt) ==
    /\ win' = [win EXCEPT ![u] = Without(@, red[u])]
    /\ detail' = [detail EXCEPT ![u] = [p |-> p, amt |-> amt]]

\* Mutant: the page is filled from self.red, not from the view's own answer.
OpenRedStale(u) ==
    /\ win[u] # <<>> /\ tap[Top(u)].cli = "have"
    /\ PushRedMessageView(u, tap[red[u]].p, tap[red[u]].amt)
    /\ UNCHANGED <<form, pkt, taken, share, tap, coming, red>>

\* openred on a view with a share.
OpenRed(u) ==
    /\ win[u] # <<>> /\ tap[Top(u)].cli = "have"
    /\ PushRedMessageView(u, tap[Top(u)].p, tap[Top(u)].amt)
    /\ UNCHANGED <<form, pkt, taken, share, tap, coming, red>>

\* chectredmessage on a view without one: the view cancels itself and asks
\* the server for the details (receiveRedmessage).
ChectRedMessage(u) ==
    /\ win[u] # <<>> /\ tap[Top(u)].cli = "no"
    /\ tap' = [tap EXCEPT ![Top(u)].cli = "asking"]
    /\ win' = [win EXCEPT ![u] = Without(@, Top(u))]
    /\ UNCHANGED <<form, pkt, taken, share, coming, red, detail>>

\* canleclick: the close button of the topmost view.
CanleClick(u) ==
    /\ win[u] # <<>>
    /\ win' = [win EXCEPT ![u] = Without(@, Top(u))]
    /\ UNCHANGED <<form, pkt, taken, share, tap, coming, red, detail>>

\* The details arrive (single, multi of RedController), or the request fails.
ReceiveRedMessage(t) ==
    /\ tap[t].cli = "asking"
    /\ tap' = [tap EXCEPT ![t].cli = "closed"]
    /\ \/ PushRedMessageView(tap[t].u, tap[t].p, share[tap[t].p][tap[t].u])
       \/ UNCHANGED <<win, detail>>
    /\ UNCHANGED <<form, pkt, taken, share, coming, red>>

----------------------------------------------------------------------------
Next ==
    \/ \E u, v \in Users, k \in Kinds : u # v /\ ViewDidLoad(u, v, k)
    \/ \E a \in Amounts, n \in Sizes \cup {0} : TextFieldDidChange(a, n)
    \/ \E p \in Packets : BeginSendRedMessage(p) \/ CreateRed(p) \/ SendFails(p)
    \/ \E t \in Taps : \/ RecvRed(t) \/ RequestLost(t)
                       \/ ShowAnswer(t) \/ ClaimFails(t) \/ ReceiveRedMessage(t)
    \/ \E t \in Taps, u \in Users, p \in Packets : DidTapMessageCell(t, u, p)
    \/ \E u \in Users : ShareviewShow(u) \/ OpenRed(u) \/ ChectRedMessage(u) \/ CanleClick(u)

Spec == Init /\ [][Next]_vars

----------------------------------------------------------------------------
(***************************************************************************)
(* Properties.                                                             *)
(***************************************************************************)

Forms == [open : BOOLEAN, user : Users \cup {None}, to : Users \cup {None},
          kind : Kinds, amount : Nat, count : Nat, enabled : BOOLEAN]
PacketRecords ==
    [st : {"unsent", "posted", "open", "lost"}, kind : Kinds,
     from : Users \cup {None}, to : Users \cup {None},
     total : Nat, size : Nat, balance : Nat, left : Nat]
Requests ==
    [cli : {"idle", "waiting", "have", "no", "failed", "asking", "closed"},
     srv : {"none", "queued", "served", "stuck", "lost"},
     u : Users \cup {None}, p : Packets \cup {None},
     status : {"none", "200", "5001", "5002"}, amt : Nat]

\* A request that left its client names a user and an open packet (part of the
\* inductive invariant).
RequestsOK ==
    \A t \in Taps :
        /\ tap[t].cli # "idle" => tap[t].srv # "none"
        /\ tap[t].srv # "none" => /\ tap[t].u \in Users /\ tap[t].p \in Packets
                                 /\ pkt[tap[t].p].st = "open"

\* The send button is enabled only for the amount and count that are filled in
\* (part of the inductive invariant).
FormOK == form.open /\ form.enabled => SendEnabled(form.kind, form.amount, form.count)

\* The types of the books: in particular no balance is ever overdrawn, although
\* generateRedValue draws up to twice the mean share.
TypeOK ==
    /\ form \in Forms
    /\ pkt \in [Packets -> PacketRecords]
    /\ taken \in [Packets -> SUBSET Users]
    /\ share \in [Packets -> [Users -> Nat]]
    /\ tap \in [Taps -> Requests]
    /\ win \in [Users -> Seq(Taps)] /\ coming \in [Users -> Seq(Taps)]
    /\ red \in [Users -> Taps \cup {None}]
    /\ detail \in [Users -> [p : Packets \cup {None}, amt : Nat]]

\* generateRedValue never starves a later claimer: while shares are left, the
\* balance covers one smallest unit for each of them, provided the packet had
\* that much to begin with; and the last share empties the packet.
EveryShareFunded ==
    \A p \in Packets :
        /\ pkt[p].total >= pkt[p].size => pkt[p].balance >= pkt[p].left
        /\ pkt[p].left = 0 => pkt[p].balance = 0

\* The redraw loop of generateRedValue ends (a non-zero draw exists) for every
\* claim on a packet worth at least one smallest unit per share.
StuckOnlyIfScarce ==
    \A t \in Taps :
        tap[t].srv = "stuck" => pkt[tap[t].p].total < pkt[tap[t].p].size

\* The books balance: what was recorded for the users and what remains is what
\* was put in, and the shares left are those nobody has.
Conservation ==
    \A p \in Packets :
        /\ SumFunction(share[p]) + pkt[p].balance = pkt[p].total
        /\ Cardinality(taken[p]) + pkt[p].left = pkt[p].size
        /\ \A u \in Users : (share[p][u] # 0) <=> (u \in taken[p])

\* What the client tells its user stays true: "5001" (already claimed) only to a
\* user with a share, "5002" (all claimed) only for an exhausted packet of which
\* the user has nothing, and a detail page shows the recorded share.
ClientToldTruth ==
    /\ \A t \in Taps :
         /\ tap[t].status = "5001" => tap[t].u \in taken[tap[t].p]
         /\ tap[t].status = "5002" => /\ pkt[tap[t].p].left = 0
                                      /\ tap[t].u \notin taken[tap[t].p]
    /\ \A u \in Users : detail[u].p # None => detail[u].amt = share[detail[u].p][u]

\* The views on a screen are a stack: although pushRedmessageview closes whatever
\* self.red refers to, which answers to other taps replace while views are open, on
\* their way or closed by hand, no view is ever taken from under another one.
ViewsStack ==
    [][\A u \in Users :
         \/ win'[u] = win[u]
         \/ \E t \in Taps : win'[u] = Append(win[u], t)
         \/ win[u] # <<>> /\ win'[u] = Front(win[u])]_vars
=============================================================================
