----------------------------- MODULE WebLogin ------------------------------
(***************************************************************************)
(* The login page of the web front end (js/login.js): the verification     *)
(* code and its countdown, and the button that the answer to the request   *)
(* for a code puts on the page, "register" or "log in".                    *)
(***************************************************************************)
EXTENDS Naturals, Sequences, FiniteSets, SequenceTheorems, TLAPS

CONSTANTS Phones,      \* numbers that match the page's pattern
          Malformed,   \* other texts in the field, which is not empty
          CountFrom,   \* seconds of the countdown, 60 in the code
          MaxAsks,     \* bound: requests for a code
          MaxSubmits,  \* bound: sign-ins and sign-ups
          None

VARIABLES page,        \* "login", or "index" once window.location was set
          tel,         \* #phoneNumber (None: empty)
          disabled,    \* the attribute of .get_verification
          timers,      \* running intervals in the order of their next tick: num of each
          option,      \* the button in #user_option: None, "register" or "login"
          handlers,    \* click handlers bound to it
          asks,        \* requests for a code in flight
          submits,     \* sign-ins and sign-ups in flight
          asked, nsub, \* counters against the bounds
          registered,  \* the server's accounts
          calm, last   \* history: the last request for a code was the only one, and its number

vars == <<page, tel, disabled, timers, option, handlers, asks, submits,
          asked, nsub, registered, calm, last>>

Options == {"register", "login"}
Texts == Phones \cup Malformed

TypeOK ==
    /\ page \in {"login", "index"}
    /\ tel \in Texts \cup {None}
    /\ disabled \in BOOLEAN
    /\ timers \in Seq(0 .. CountFrom)
    /\ option \in Options \cup {None}
    /\ handlers \in Nat
    /\ asks \subseteq [id : 1 .. MaxAsks, tel : Phones, isReg : Options \cup {None}]
    /\ submits \subseteq [id : 1 .. MaxSubmits, tel : Texts, kind : Options, ok : BOOLEAN, served : BOOLEAN]
    /\ asked \in 0 .. MaxAsks /\ nsub \in 0 .. MaxSubmits
    /\ registered \subseteq Texts
    /\ calm \in BOOLEAN /\ last \in Phones \cup {None}

Init ==
    /\ page = "login" /\ tel = None
    /\ disabled = FALSE /\ timers = <<>>
    /\ option = None /\ handlers = 0
    /\ asks = {} /\ submits = {}
    /\ asked = 0 /\ nsub = 0
    /\ registered \in SUBSET Phones
    /\ calm = TRUE /\ last = None

Type(p) ==
    /\ page = "login" /\ p # tel
    /\ tel' = p
    /\ UNCHANGED <<page, disabled, timers, option, handlers, asks, submits, asked, nsub, registered, calm, last>>

-----------------------------------------------------------------------------
(* The code and its countdown                                              *)

\* An interval starts: its first tick is a second away, after one tick of every
\* other interval.  The button is still enabled.
CountDown == timers' = Append(timers, CountFrom)

\* clickVerify with a number that matches; otherwise it only shows an alert.
ClickVerify ==
    /\ page = "login" /\ ~disabled
    /\ tel \in Phones /\ asked < MaxAsks
    /\ asked' = asked + 1
    /\ asks' = asks \cup {[id |-> asked + 1, tel |-> tel, isReg |-> None]}
    /\ CountDown
    /\ calm' = (asks = {}) /\ last' = tel
    /\ UNCHANGED <<page, tel, disabled, option, handlers, submits, nsub, registered>>

Tick ==
    /\ page = "login" /\ timers # <<>>
    /\ IF Head(timers) = 0
       THEN disabled' = FALSE /\ timers' = Tail(timers)
       ELSE disabled' = TRUE /\ timers' = Append(Tail(timers), Head(timers) - 1)
    /\ UNCHANGED <<page, tel, option, handlers, asks, submits, asked, nsub, registered, calm, last>>

\* login/tel looks the number up.
ServeAsk(r) ==
    /\ r \in asks /\ r.isReg = None
    /\ asks' = (asks \ {r}) \cup
                 {[r EXCEPT !.isReg = IF r.tel \in registered THEN "login" ELSE "register"]}
    /\ UNCHANGED <<page, tel, disabled, timers, option, handlers, submits, asked, nsub, registered, calm, last>>

\* Mutant: the new button is put beside the old one and bound as well.
AnswerBindsAgain(r) ==
    /\ page = "login" /\ r \in asks /\ r.isReg # None
    /\ asks' = asks \ {r}
    /\ option' = r.isReg
    /\ handlers' = IF option = r.isReg THEN handlers + 1 ELSE 1
    /\ UNCHANGED <<page, tel, disabled, timers, submits, asked, nsub, registered, calm, last>>

\* The success callback replaces the content of #user_option and binds the new
\* button.
AskAnswered(r) ==
    /\ page = "login" /\ r \in asks /\ r.isReg # None
    /\ asks' = asks \ {r}
    /\ option' = r.isReg
    /\ handlers' = 1
    /\ UNCHANGED <<page, tel, disabled, timers, submits, asked, nsub, registered, calm, last>>

\* No error callback; an answer without data throws before the button is set.
AskFails(r) ==
    /\ page = "login" /\ r \in asks
    /\ asks' = asks \ {r}
    /\ calm' = FALSE
    /\ UNCHANGED <<page, tel, disabled, timers, option, handlers, submits, asked, nsub, registered, last>>

-----------------------------------------------------------------------------
(* loginVerify and registerVerify                                          *)

\* Every bound handler makes a request when the number, of whatever form, and the
\* code, which the user may type at any time, are not empty; otherwise it alerts.
Submit ==
    /\ page = "login" /\ option # None
    /\ tel # None
    /\ nsub + handlers <= MaxSubmits
    /\ submits' = submits \cup {[id |-> nsub + i, tel |-> tel, kind |-> option, ok |-> FALSE, served |-> FALSE] :
                                 i \in 1 .. handlers}
    /\ nsub' = nsub + handlers
    /\ UNCHANGED <<page, tel, disabled, timers, option, handlers, asks, asked, registered, calm, last>>

\* login/signin takes an account, login/signup creates one; either may refuse
\* the code.
ServeSubmit(s, right) ==
    /\ s \in submits /\ ~s.served
    /\ LET ok == right /\ ((s.tel \in registered) <=> (s.kind = "login"))
       IN  /\ submits' = (submits \ {s}) \cup {[s EXCEPT !.served = TRUE, !.ok = ok]}
           /\ registered' = IF ok THEN registered \cup {s.tel} ELSE registered
    /\ UNCHANGED <<page, tel, disabled, timers, option, handlers, asks, asked, nsub, calm, last>>

\* Status 200 leaves the page; anything else shows the message.
SubmitAnswered(s) ==
    /\ page = "login" /\ s \in submits /\ s.served
    /\ submits' = submits \ {s}
    /\ page' = IF s.ok THEN "index" ELSE page
    /\ UNCHANGED <<tel, disabled, timers, option, handlers, asks, asked, nsub, registered, calm, last>>

SubmitFails(s) ==
    /\ page = "login" /\ s \in submits
    /\ submits' = submits \ {s}
    /\ UNCHANGED <<page, tel, disabled, timers, option, handlers, asks, asked, nsub, registered, calm, last>>

Next ==
    \/ \E p \in Texts \cup {None} : Type(p)
    \/ ClickVerify \/ Tick \/ Submit
    \/ \E r \in asks : ServeAsk(r) \/ AskAnswered(r) \/ AskFails(r)
    \/ \E s \in submits :
          \/ \E right \in BOOLEAN : ServeSubmit(s, right)
          \/ SubmitAnswered(s)
          \/ SubmitFails(s)

\* The browser runs a due interval callback.
Spec == Init /\ [][Next]_vars /\ WF_vars(Tick)

-----------------------------------------------------------------------------
(* Properties                                                              *)

\* While a countdown shows a number of seconds, from its first tick to its last,
\* the button is disabled and no code is asked for, although several countdowns
\* started in the same second share the button and each enables it when it ends.
CountdownBlocks == (timers # <<>> /\ Head(timers) \in 1 .. (CountFrom - 1)) => asked' = asked

\* A click on the button sends one request, however often codes were asked for:
\* the handler is bound to the new button and the old one is gone.
OneSubmitPerClick == [][nsub' - nsub <= 1]_vars

\* The button offers what the server has for the number the last code was asked
\* for, once that answer is in, unless another request for a code overlapped or
\* failed, or a registration was sent meanwhile.
OptionFits ==
    (calm /\ asks = {} /\ option # None /\ nsub = 0)
        => option = IF last \in registered THEN "login" ELSE "register"

\* The button does not stay disabled: every countdown ends, in whatever order
\* several of them tick.
CountdownEnds == (page = "login" /\ timers # <<>>) ~> (page = "index" \/ ~disabled)

-----------------------------------------------------------------------------
(***************************************************************************)
(* Proofs.  CountdownBlocks needs the shape of the running intervals: they  *)
(* were all started while the button was enabled, so they differ by one     *)
(* tick at most, and while it is enabled again each of them is at its last  *)
(* tick or new.  OptionFits needs what the requests under way will offer.   *)
(***************************************************************************)

Offer(p) == IF p \in registered THEN "login" ELSE "register"

OffersOK ==
    /\ nsub = 0 => submits = {}
    /\ calm => \A r \in asks : /\ r.tel = last
                               /\ r.isReg # None /\ nsub = 0 => r.isReg = Offer(last)

TimersOK ==
    \A i, j \in 1 .. Len(timers) :
        IF disabled
        THEN i <= j => timers[i] = timers[j] \/ timers[i] = timers[j] + 1
        ELSE /\ timers[i] \in {0, CountFrom}
             /\ i <= j /\ timers[i] = CountFrom => timers[j] = CountFrom

LoginInv == TypeOK /\ handlers \in {0, 1} /\ OffersOK /\ OptionFits /\ TimersOK

LEMMA LoginInit ==
    ASSUME CountFrom \in Nat, MaxAsks \in Nat, MaxSubmits \in Nat, Init
    PROVE  LoginInv
<1>1. TypeOK
  <2>1. timers \in Seq(0 .. CountFrom) /\ asked \in 0 .. MaxAsks /\ nsub \in 0 .. MaxSubmits
    BY DEF Init
  <2>2. /\ asks \subseteq [id : 1 .. MaxAsks, tel : Phones, isReg : Options \cup {None}]
        /\ submits \subseteq [id : 1 .. MaxSubmits, tel : Texts, kind : Options,
                               ok : BOOLEAN, served : BOOLEAN]
    BY DEF Init
  <2> QED BY <2>1, <2>2 DEF Init, TypeOK, Texts
<1>2. Len(timers) = 0
  BY DEF Init
<1>3. TimersOK
  BY <1>2 DEF TimersOK
<1> QED BY <1>1, <1>3 DEF Init, LoginInv, OffersOK, OptionFits

\* The code is asked for: a new interval starts.
LEMMA ClickStep ==
    ASSUME CountFrom \in Nat, MaxAsks \in Nat, LoginInv, ClickVerify
    PROVE  LoginInv'
<1> DEFINE r == [id |-> asked + 1, tel |-> tel, isReg |-> None]
<1>1. timers \in Seq(0 .. CountFrom) /\ tel \in Phones /\ asked + 1 \in 1 .. MaxAsks /\ ~disabled
  BY DEF LoginInv, TypeOK, ClickVerify
<1>2. /\ timers' = Append(timers, CountFrom) /\ asks' = asks \cup {r} /\ asked' = asked + 1
      /\ calm' = (asks = {}) /\ last' = tel
      /\ UNCHANGED <<page, tel, disabled, option, handlers, submits, nsub, registered>>
  BY DEF ClickVerify, CountDown
<1>3. TypeOK'
  <2>1. r \in [id : 1 .. MaxAsks, tel : Phones, isReg : Options \cup {None}]
    BY <1>1
  <2>2. timers' \in Seq(0 .. CountFrom)
    BY <1>1, <1>2, AppendProperties
  <2>3. asks' \subseteq [id : 1 .. MaxAsks, tel : Phones, isReg : Options \cup {None}]
    BY <1>2, <2>1 DEF LoginInv, TypeOK
  <2>4. asked' \in 0 .. MaxAsks /\ calm' \in BOOLEAN /\ last' \in Phones \cup {None}
    BY <1>1, <1>2
  <2> QED BY <1>2, <2>2, <2>3, <2>4 DEF LoginInv, TypeOK
<1>4. OffersOK'
  <2>1. r.tel = tel /\ r.isReg = None
    OBVIOUS
  <2> QED BY <1>2, <2>1 DEF LoginInv, OffersOK, Offer
<1>5. OptionFits'
  BY <1>2 DEF OptionFits
<1>6. TimersOK'
  <2>1. /\ Len(timers') = Len(timers) + 1 /\ timers'[Len(timers) + 1] = CountFrom
        /\ \A k \in 1 .. Len(timers) : timers'[k] = timers[k]
    BY <1>1, <1>2, AppendProperties
  <2>2. Len(timers) \in Nat
    BY <1>1
  <2> SUFFICES ASSUME NEW i \in 1 .. Len(timers'), NEW j \in 1 .. Len(timers')
               PROVE  /\ timers'[i] \in {0, CountFrom}
                      /\ i <= j /\ timers'[i] = CountFrom => timers'[j] = CountFrom
    BY <1>1, <1>2 DEF TimersOK
  <2>3. \A k \in 1 .. Len(timers') : k \in 1 .. Len(timers) \/ k = Len(timers) + 1
    BY <2>1, <2>2
  <2>4. timers'[i] \in {0, CountFrom}
    BY <1>1, <2>1, <2>3 DEF LoginInv, TimersOK
  <2>5. i <= j /\ timers'[i] = CountFrom => timers'[j] = CountFrom
    BY <1>1, <2>1, <2>2, <2>3 DEF LoginInv, TimersOK
  <2> QED BY <2>4, <2>5
<1> QED BY <1>2, <1>3, <1>4, <1>5, <1>6 DEF LoginInv

\* A second of the interval that is due.
LEMMA TickStep ==
    ASSUME CountFrom \in Nat, LoginInv, Tick
    PROVE  LoginInv'
<1> DEFINE h == Head(timers)
           n == Len(timers)
           s == Tail(timers)
<1>1. /\ timers \in Seq(0 .. CountFrom) /\ timers # <<>>
      /\ UNCHANGED <<page, tel, option, handlers, asks, submits, asked, nsub, registered, calm, last>>
  BY DEF LoginInv, TypeOK, Tick
<1>2. /\ h = timers[1] /\ h \in 0 .. CountFrom /\ s \in Seq(0 .. CountFrom) /\ n \in Nat /\ n >= 1
      /\ Len(s) = n - 1 /\ \A k \in 1 .. (n - 1) : s[k] = timers[k + 1]
  BY <1>1, HeadTailProperties, EmptySeq
<1>3. \A k \in 1 .. n : timers[k] \in 0 .. CountFrom
  BY <1>1
<1>4. OffersOK' /\ OptionFits' /\ handlers' \in {0, 1}
  BY <1>1 DEF LoginInv, OffersOK, OptionFits, Offer
<1>5. CASE h = 0
  <2>1. disabled' = FALSE /\ timers' = s
    BY <1>5 DEF Tick
  <2>2. TypeOK'
    BY <1>1, <1>2, <2>1 DEF LoginInv, TypeOK
  <2>3. \A k \in 1 .. n : timers[k] \in {0, CountFrom}
    <3> SUFFICES ASSUME NEW k \in 1 .. n PROVE timers[k] \in {0, CountFrom}
      OBVIOUS
    <3>1. CASE disabled
      <4>1. 1 \in 1 .. n /\ 1 <= k
        BY <1>2
      <4>2. 0 = timers[k] \/ 0 = timers[k] + 1
        BY <1>2, <1>5, <3>1, <4>1 DEF LoginInv, TimersOK
      <4> QED BY <1>3, <4>2
    <3>2. CASE ~disabled
      BY <3>2 DEF LoginInv, TimersOK
    <3> QED BY <3>1, <3>2
  <2>4. \A k, m \in 1 .. n : k <= m /\ timers[k] = CountFrom => timers[m] = CountFrom
    <3> SUFFICES ASSUME NEW k \in 1 .. n, NEW m \in 1 .. n, k <= m, timers[k] = CountFrom
                 PROVE  timers[m] = CountFrom
      OBVIOUS
    <3>1. CASE disabled
      <4>1. 1 \in 1 .. n /\ 1 <= k /\ 1 <= m
        BY <1>2
      <4>2. (0 = timers[k] \/ 0 = timers[k] + 1) /\ (0 = timers[m] \/ 0 = timers[m] + 1)
        BY <1>2, <1>5, <3>1, <4>1 DEF LoginInv, TimersOK
      <4> QED BY <1>3, <4>2
    <3>2. CASE ~disabled
      BY <3>2 DEF LoginInv, TimersOK
    <3> QED BY <3>1, <3>2
  <2>5. TimersOK'
    <3> SUFFICES ASSUME NEW i \in 1 .. (n - 1), NEW j \in 1 .. (n - 1)
                 PROVE  /\ s[i] \in {0, CountFrom}
                        /\ i <= j /\ s[i] = CountFrom => s[j] = CountFrom
      BY <1>2, <2>1 DEF TimersOK
    <3>1. s[i] = timers[i + 1] /\ s[j] = timers[j + 1] /\ i + 1 \in 1 .. n /\ j + 1 \in 1 .. n
      BY <1>2
    <3> HIDE DEF s, n, h
    <3> QED BY <2>3, <2>4, <3>1
  <2> QED BY <1>4, <2>2, <2>5 DEF LoginInv
<1>6. CASE h # 0
  <2>1. disabled' = TRUE /\ timers' = Append(s, h - 1)
    BY <1>6 DEF Tick
  <2>2. h - 1 \in 0 .. CountFrom
    BY <1>2, <1>6
  <2>3. /\ timers' \in Seq(0 .. CountFrom) /\ Len(timers') = n /\ timers'[n] = h - 1
        /\ \A k \in 1 .. (n - 1) : timers'[k] = timers[k + 1]
    BY <1>2, <2>1, <2>2, AppendProperties
  <2>4. TypeOK'
    BY <1>1, <2>1, <2>3 DEF LoginInv, TypeOK
  <2>5. \A k \in 1 .. n : timers[k] = h \/ timers[k] = h - 1
    <3> SUFFICES ASSUME NEW k \in 1 .. n PROVE timers[k] = h \/ timers[k] = h - 1
      OBVIOUS
    <3>1. 1 \in 1 .. n /\ 1 <= k
      BY <1>2
    <3>2. CASE disabled
      <4>1. timers[1] = timers[k] \/ timers[1] = timers[k] + 1
        BY <3>1, <3>2 DEF LoginInv, TimersOK
      <4> QED BY <1>2, <1>3, <4>1
    <3>3. CASE ~disabled
      <4>1. timers[1] \in {0, CountFrom} /\ (timers[1] = CountFrom => timers[k] = CountFrom)
        BY <3>1, <3>3 DEF LoginInv, TimersOK
      <4> QED BY <1>2, <1>6, <4>1
    <3> QED BY <3>2, <3>3
  <2>6. \A k, m \in 1 .. n : k <= m => timers[k] = timers[m] \/ timers[k] = timers[m] + 1
    <3> SUFFICES ASSUME NEW k \in 1 .. n, NEW m \in 1 .. n, k <= m
                 PROVE  timers[k] = timers[m] \/ timers[k] = timers[m] + 1
      OBVIOUS
    <3>1. CASE disabled
      BY <3>1 DEF LoginInv, TimersOK
    <3>2. CASE ~disabled
      <4>1. \A l \in 1 .. n : timers[l] = CountFrom
        <5>1. 1 \in 1 .. n /\ \A l \in 1 .. n : 1 <= l
          BY <1>2
        <5>2. timers[1] \in {0, CountFrom}
          BY <3>2, <5>1 DEF LoginInv, TimersOK
        <5> QED BY <1>2, <1>6, <3>2, <5>1, <5>2 DEF LoginInv, TimersOK
      <4> QED BY <4>1
    <3> QED BY <3>1, <3>2
  <2>7. TimersOK'
    <3> SUFFICES ASSUME NEW i \in 1 .. n, NEW j \in 1 .. n, i <= j
                 PROVE  timers'[i] = timers'[j] \/ timers'[i] = timers'[j] + 1
      BY <2>1, <2>3 DEF TimersOK
    <3> HIDE DEF s, n, h
    <3>1. CASE j = n /\ i = n
      BY <3>1
    <3>2. CASE j = n /\ i # n
      <4>1. i \in 1 .. (n - 1) /\ i + 1 \in 1 .. n
        BY <1>2, <3>2
      <4>2. timers'[i] = timers[i + 1] /\ timers'[j] = h - 1
        BY <2>3, <3>2, <4>1
      <4> QED BY <1>2, <2>5, <4>1, <4>2
    <3>3. CASE j # n
      <4>1. i \in 1 .. (n - 1) /\ j \in 1 .. (n - 1) /\ i + 1 \in 1 .. n /\ j + 1 \in 1 .. n
            /\ i + 1 <= j + 1
        BY <1>2, <3>3
      <4>2. timers'[i] = timers[i + 1] /\ timers'[j] = timers[j + 1]
        BY <2>3, <4>1
      <4> QED BY <2>6, <4>1, <4>2
    <3> QED BY <3>1, <3>2, <3>3
  <2> QED BY <1>4, <2>4, <2>7 DEF LoginInv
<1> QED BY <1>5, <1>6

\* What happens to a request for a code.
LEMMA AskStep ==
    ASSUME LoginInv, NEW r \in asks, ServeAsk(r) \/ AskAnswered(r) \/ AskFails(r)
    PROVE  LoginInv'
<1> DEFINE Asks == [id : 1 .. MaxAsks, tel : Phones, isReg : Options \cup {None}]
<1>1. asks \subseteq Asks /\ r \in Asks
  BY DEF LoginInv, TypeOK
<1>2. /\ UNCHANGED <<page, tel, disabled, timers, submits, asked, nsub, registered, last>>
  BY DEF ServeAsk, AskAnswered, AskFails
<1>3. TimersOK'
  BY <1>2 DEF LoginInv, TimersOK
<1>4. CASE ServeAsk(r)
  <2> DEFINE q == [r EXCEPT !.isReg = Offer(r.tel)]
  <2>1. asks' = (asks \ {r}) \cup {q} /\ r.isReg = None /\ UNCHANGED <<option, handlers, calm>>
    BY <1>4 DEF ServeAsk, Offer
  <2>2. q \in Asks /\ q.tel = r.tel /\ q.isReg = Offer(r.tel)
    BY <1>1 DEF Offer, Options
  <2> HIDE DEF q
  <2>3. TypeOK'
    <3>1. asks' \subseteq Asks
      BY <1>1, <2>1, <2>2
    <3> QED BY <1>2, <2>1, <3>1 DEF LoginInv, TypeOK
  <2>4. OffersOK'
    BY <1>2, <2>1, <2>2 DEF LoginInv, OffersOK, Offer
  <2>5. OptionFits'
    BY <2>1 DEF OptionFits
  <2> QED BY <1>3, <2>1, <2>3, <2>4, <2>5 DEF LoginInv
<1>5. CASE AskAnswered(r)
  <2>1. /\ asks' = asks \ {r} /\ option' = r.isReg /\ handlers' = 1 /\ r.isReg # None
        /\ UNCHANGED calm
    BY <1>5 DEF AskAnswered
  <2>2. TypeOK'
    BY <1>1, <1>2, <2>1 DEF LoginInv, TypeOK
  <2>3. OffersOK'
    BY <1>2, <2>1 DEF LoginInv, OffersOK, Offer
  <2>4. OptionFits'
    BY <1>2, <2>1 DEF LoginInv, OptionFits, OffersOK, Offer
  <2> QED BY <1>3, <2>1, <2>2, <2>3, <2>4 DEF LoginInv
<1>6. CASE AskFails(r)
  <2>1. asks' = asks \ {r} /\ calm' = FALSE /\ UNCHANGED <<option, handlers>>
    BY <1>6 DEF AskFails
  <2>2. TypeOK'
    BY <1>1, <1>2, <2>1 DEF LoginInv, TypeOK
  <2>3. OffersOK' /\ OptionFits'
    BY <1>2, <2>1 DEF LoginInv, OffersOK, OptionFits
  <2> QED BY <1>3, <2>1, <2>2, <2>3 DEF LoginInv
<1> QED BY <1>4, <1>5, <1>6

\* A sign-in or sign-up is sent, served or answered.
LEMMA SubmitStep ==
    ASSUME MaxSubmits \in Nat, LoginInv,
           \/ Submit
           \/ \E s \in submits : \/ \E right \in BOOLEAN : ServeSubmit(s, right)
                                 \/ SubmitAnswered(s) \/ SubmitFails(s)
    PROVE  LoginInv'
<1> DEFINE Subs == [id : 1 .. MaxSubmits, tel : Texts, kind : Options, ok : BOOLEAN, served : BOOLEAN]
<1>1. /\ submits \subseteq Subs /\ nsub \in 0 .. MaxSubmits /\ handlers \in {0, 1}
      /\ (nsub = 0 => submits = {})
  BY DEF LoginInv, TypeOK, OffersOK
<1>2. UNCHANGED <<tel, disabled, timers, option, handlers, asks, asked, calm, last>>
  BY DEF Submit, ServeSubmit, SubmitAnswered, SubmitFails
<1>3. TimersOK'
  BY <1>2 DEF LoginInv, TimersOK
<1>4. CASE Submit
  <2> DEFINE new(i) == [id |-> nsub + i, tel |-> tel, kind |-> option, ok |-> FALSE, served |-> FALSE]
  <2>1. /\ submits' = submits \cup {new(i) : i \in 1 .. handlers} /\ nsub' = nsub + handlers
        /\ nsub + handlers <= MaxSubmits /\ option # None /\ tel # None
        /\ UNCHANGED <<page, registered>>
    BY <1>4 DEF Submit
  <2>2. option \in Options /\ tel \in Texts
    BY <2>1 DEF LoginInv, TypeOK
  <2>3. \A i \in 1 .. handlers : new(i) \in Subs
    BY <1>1, <2>1, <2>2
  <2>4. submits' \subseteq Subs /\ nsub' \in 0 .. MaxSubmits
    <3>1. nsub' \in 0 .. MaxSubmits
      BY <1>1, <2>1
    <3> HIDE DEF new, Subs
    <3>2. {new(i) : i \in 1 .. handlers} \subseteq Subs
      BY <2>3
    <3> QED BY <1>1, <2>1, <3>1, <3>2 DEF Subs, new
  <2>5. TypeOK'
    BY <1>2, <2>1, <2>4 DEF LoginInv, TypeOK
  <2>6. nsub' = 0 => nsub = 0 /\ submits' = {}
    BY <1>1, <2>1
  <2>7. OffersOK' /\ OptionFits'
    BY <1>2, <2>1, <2>6 DEF LoginInv, OffersOK, OptionFits, Offer
  <2> QED BY <1>2, <1>3, <2>5, <2>7 DEF LoginInv
<1>5. ASSUME NEW s \in submits, NEW right \in BOOLEAN, ServeSubmit(s, right) PROVE LoginInv'
  <2>1. PICK ok \in BOOLEAN :
          /\ submits' = (submits \ {s}) \cup {[s EXCEPT !.served = TRUE, !.ok = ok]}
          /\ registered' = IF ok THEN registered \cup {s.tel} ELSE registered
          /\ UNCHANGED <<page, nsub>>
    BY <1>5 DEF ServeSubmit
  <2>2. s \in Subs /\ [s EXCEPT !.served = TRUE, !.ok = ok] \in Subs
    BY <1>1
  <2>3. TypeOK'
    BY <1>1, <1>2, <2>1, <2>2 DEF LoginInv, TypeOK
  <2>4. nsub # 0 /\ nsub' # 0
    BY <1>1, <2>1
  <2>5. OffersOK' /\ OptionFits'
    BY <1>2, <2>4 DEF LoginInv, OffersOK, OptionFits
  <2> QED BY <1>2, <1>3, <2>3, <2>5 DEF LoginInv
<1>6. ASSUME NEW s \in submits, SubmitAnswered(s) \/ SubmitFails(s) PROVE LoginInv'
  <2>1. /\ submits' = submits \ {s} /\ page' \in {"index", page}
        /\ UNCHANGED <<nsub, registered>>
    BY <1>6 DEF SubmitAnswered, SubmitFails
  <2>2. TypeOK'
    BY <1>1, <1>2, <2>1 DEF LoginInv, TypeOK
  <2>3. OffersOK' /\ OptionFits'
    BY <1>2, <2>1 DEF LoginInv, OffersOK, OptionFits, Offer
  <2> QED BY <1>2, <1>3, <2>2, <2>3 DEF LoginInv
<1> QED BY <1>4, <1>5, <1>6

LEMMA LoginStep ==
    ASSUME CountFrom \in Nat, MaxAsks \in Nat, MaxSubmits \in Nat, LoginInv, [Next]_vars
    PROVE  LoginInv'
<1>1. ASSUME NEW p \in Texts \cup {None}, Type(p) PROVE LoginInv'
  BY <1>1 DEF Type, LoginInv, TypeOK, OffersOK, OptionFits, TimersOK, Offer
<1>2. CASE UNCHANGED vars
  BY <1>2 DEF vars, LoginInv, TypeOK, OffersOK, OptionFits, TimersOK, Offer
<1> QED BY <1>1, <1>2, ClickStep, TickStep, AskStep, SubmitStep DEF Next

\* One click sends one request, and none asks for a code during a countdown.
LEMMA ClicksOK ==
    ASSUME CountFrom \in Nat, LoginInv, [Next]_vars
    PROVE  nsub' - nsub <= 1 /\ CountdownBlocks
<1>1. nsub \in Nat /\ asked \in Nat /\ handlers \in {0, 1} /\ timers \in Seq(0 .. CountFrom)
  BY DEF LoginInv, TypeOK
<1>2. nsub' = nsub \/ nsub' = nsub + handlers
  BY DEF Next, vars, Type, ClickVerify, Tick, Submit, ServeAsk, AskAnswered, AskFails,
         ServeSubmit, SubmitAnswered, SubmitFails
<1>3. asked' = asked \/ ClickVerify
  BY DEF Next, vars, Type, Tick, Submit, ServeAsk, AskAnswered, AskFails,
         ServeSubmit, SubmitAnswered, SubmitFails
<1>4. ASSUME ClickVerify, timers # <<>>, Head(timers) \in 1 .. (CountFrom - 1) PROVE FALSE
  <2>1. ~disabled
    BY <1>4 DEF ClickVerify
  <2>2. 1 \in 1 .. Len(timers) /\ Head(timers) = timers[1]
    BY <1>1, <1>4
  <2>3. timers[1] \in {0, CountFrom}
    BY <2>1, <2>2 DEF LoginInv, TimersOK
  <2> QED BY <1>4, <2>2, <2>3
<1> QED BY <1>1, <1>2, <1>3, <1>4 DEF CountdownBlocks

=============================================================================
