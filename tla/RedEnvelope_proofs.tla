------------------------- MODULE RedEnvelope_proofs -------------------------
(***************************************************************************)
(* Proofs about RedEnvelope, for every set of packets, users and requests   *)
(* and for every amount and number of shares.                               *)
(***************************************************************************)
EXTENDS RedEnvelope, TLAPS, SequenceTheorems, FiniteSetTheorems

\* The arithmetic of generateRedValue: with at least one unit per share, every
\* draw is positive and leaves at least one unit for each of the other shares,
\* and there is a draw.
LEMMA DrawLeavesEnough ==
    ASSUME NEW total \in Nat, NEW count \in Nat, count # 0, total >= count
    PROVE  /\ GenerateRedValue(total, count) # {}
           /\ \A money \in GenerateRedValue(total, count) :
                 /\ money \in Nat
                 /\ total - money \in Nat
                 /\ total - money >= count - 1
                 /\ count = 1 => total - money = 0
<1>1. CASE count = 1
  BY <1>1 DEF GenerateRedValue
<1>2. CASE count # 1
  <2> DEFINE q == total \div count
  <2>1. q \in Nat /\ q * count <= total /\ q >= 1
    BY SMT
  <2>2. GenerateRedValue(total, count) = {money \in 0..(2 * q - 1) : money # 0}
    BY <1>2, <2>1 DEF GenerateRedValue
  <2>3. 1 \in GenerateRedValue(total, count)
    BY <2>1, <2>2
  <2>4. ASSUME NEW money \in GenerateRedValue(total, count)
        PROVE  money \in Nat /\ total - money \in Nat /\ total - money >= count - 1
    <3> HIDE DEF q
    <3>1. money \in Nat /\ money <= 2 * q - 1
      BY <2>1, <2>2, <2>4
    <3>2. (q - 1) * (count - 2) >= 0
      BY <1>2, <2>1
    <3>3. q * count >= 2 * q + count - 2
      BY <3>2, <2>1
    <3> QED BY <3>1, <3>3, <2>1
  <2> QED BY <1>2, <2>3, <2>4
<1> QED BY <1>1, <1>2

----------------------------------------------------------------------------
(***************************************************************************)
(* Sums over a function on a finite set.  SumFunction is a fold over all     *)
(* subsets of the domain; a smallest subset at which a claim fails takes the *)
(* place of induction.                                                      *)
(***************************************************************************)

\* The element a fold takes first, and the table of partial sums it builds.
Pick(s) == CHOOSE x \in s : TRUE
Sums(f, g, U) ==
    g = [s \in SUBSET U |-> IF s = {} THEN 0 ELSE f[Pick(s)] + g[s \ {Pick(s)}]]
\* Sets of subsets of a finite set have minimal members.
LEMMA MinimalSubset ==
    ASSUME NEW S, IsFiniteSet(S), NEW T, T \subseteq SUBSET S, T # {}
    PROVE  \E m \in T : \A y \in T : ~(y \subseteq m /\ y # m)
<1>1. FiniteSubsetsOf(S) = SUBSET S
  BY FS_FiniteSubsetsOfFinite
<1>2. IsWellFoundedOn(StrictSubsetOrdering(S), SUBSET S)
  BY <1>1, FS_StrictSubsetOrderingWellFounded
<1>3. PICK m \in T : \A y \in T : ~(<<y, m>> \in StrictSubsetOrdering(S))
  BY <1>2, WFMin
<1>4. ASSUME NEW y \in T, y \subseteq m, y # m PROVE FALSE
  <2>1. <<y, m>> \in (SUBSET S) \X (SUBSET S)
    OBVIOUS
  <2>2. <<y, m>> \in StrictSubsetOrdering(S)
    BY <1>4, <2>1 DEF StrictSubsetOrdering
  <2> QED BY <1>3, <2>2
<1> QED BY <1>4

\* One entry of the table.
LEMMA SumsAt ==
    ASSUME NEW f, NEW g, NEW U, Sums(f, g, U), NEW s \in SUBSET U
    PROVE  /\ s = {} => g[s] = 0
           /\ s # {} => /\ Pick(s) \in s /\ s \ {Pick(s)} \in SUBSET U
                        /\ s \ {Pick(s)} \subseteq s /\ s \ {Pick(s)} # s
                        /\ g[s] = f[Pick(s)] + g[s \ {Pick(s)}]
<1>1. g[s] = IF s = {} THEN 0 ELSE f[Pick(s)] + g[s \ {Pick(s)}]
  BY DEF Sums
<1>2. s # {} => Pick(s) \in s
  BY DEF Pick
<1> QED BY <1>1, <1>2

\* Two tables of sums agree where both are defined.
LEMMA SumsAgree ==
    ASSUME NEW S, IsFiniteSet(S), NEW U \in SUBSET S, NEW V \in SUBSET S,
           NEW f, NEW g, NEW h, Sums(f, g, U), Sums(f, h, V)
    PROVE  \A s \in SUBSET S : s \subseteq U /\ s \subseteq V => g[s] = h[s]
<1> DEFINE T == {s \in SUBSET S : s \subseteq U /\ s \subseteq V /\ g[s] # h[s]}
<1> SUFFICES ASSUME T # {} PROVE FALSE
  OBVIOUS
<1>1. PICK s \in T : \A y \in T : ~(y \subseteq s /\ y # s)
  <2>1. T \subseteq SUBSET S
    OBVIOUS
  <2> HIDE DEF T
  <2> QED BY <2>1, MinimalSubset
<1>2. s \in SUBSET U /\ s \in SUBSET V
  OBVIOUS
<1>3. s # {}
  BY <1>2, SumsAt
<1> DEFINE r == s \ {Pick(s)}
<1>4. g[s] = f[Pick(s)] + g[r] /\ h[s] = f[Pick(s)] + h[r] /\ r \subseteq s /\ r # s
  BY <1>2, <1>3, SumsAt
<1>5. g[r] = h[r]
  BY <1>1, <1>2, <1>4
<1> QED BY <1>4, <1>5

\* Over a finite set there is a table of sums.
LEMMA SumsExist ==
    ASSUME NEW S, IsFiniteSet(S), NEW f
    PROVE  \A U \in SUBSET S : \E g : Sums(f, g, U)
<1> DEFINE T == {U \in SUBSET S : ~ \E g : Sums(f, g, U)}
<1> SUFFICES ASSUME T # {} PROVE FALSE
  OBVIOUS
<1>1. PICK U \in T : \A y \in T : ~(y \subseteq U /\ y # U)
  <2>1. T \subseteq SUBSET S
    OBVIOUS
  <2> HIDE DEF T
  <2> QED BY <2>1, MinimalSubset
<1> DEFINE G(V) == CHOOSE g : Sums(f, g, V)
           Before(s) == s \ {Pick(s)}
           h == [s \in SUBSET U |-> IF s = {} THEN 0 ELSE f[Pick(s)] + G(Before(s))[Before(s)]]
<1>2. \A V \in SUBSET U : V # U => Sums(f, G(V), V)
  <2> SUFFICES ASSUME NEW V \in SUBSET U, V # U PROVE \E g : Sums(f, g, V)
    OBVIOUS
  <2> QED BY <1>1
<1> HIDE DEF G
<1>3. ASSUME NEW s \in SUBSET U, s # {} PROVE h[Before(s)] = G(Before(s))[Before(s)]
  <2> DEFINE V == s \ {Pick(s)}
  <2>1. Pick(s) \in s
    BY <1>3 DEF Pick
  <2>2. V \in SUBSET U /\ V # U /\ V \in SUBSET V /\ V \in SUBSET S
    BY <2>1
  <2>3. Sums(f, G(V), V)
    BY <1>2, <2>2
  <2>4. CASE V = {}
    <3>1. G(V)[V] = 0
      BY <2>2, <2>3, <2>4, SumsAt
    <3>2. h[V] = 0
      BY <2>2, <2>4
    <3> QED BY <3>1, <3>2
  <2>5. CASE V # {}
    <3> DEFINE W == V \ {Pick(V)}
    <3>1. Pick(V) \in V
      BY <2>5 DEF Pick
    <3>2. W \in SUBSET U /\ W # U /\ W \in SUBSET S /\ W \subseteq V
      BY <2>2, <3>1
    <3>3. Sums(f, G(W), W)
      BY <1>2, <3>2
    <3> HIDE DEF V, W
    <3>4. G(V)[W] = G(W)[W]
      BY <2>2, <2>3, <3>2, <3>3, SumsAgree
    <3>5. G(V)[V] = f[Pick(V)] + G(V)[W]
      BY <2>2, <2>3, <2>5, SumsAt DEF W
    <3>6. h[V] = f[Pick(V)] + G(W)[W]
      BY <2>2, <2>5 DEF W
    <3> QED BY <3>4, <3>5, <3>6 DEF V
  <2> QED BY <2>4, <2>5
<1>4. h = [s \in SUBSET U |-> IF s = {} THEN 0 ELSE f[Pick(s)] + h[s \ {Pick(s)}]]
  <2>1. \A s \in SUBSET U : s # {} => h[Before(s)] = G(Before(s))[Before(s)]
    BY <1>3
  <2> DEFINE k == [s \in SUBSET U |-> IF s = {} THEN 0 ELSE f[Pick(s)] + h[Before(s)]]
  <2>2. \A s \in SUBSET U : h[s] = k[s]
    <3> SUFFICES ASSUME NEW s \in SUBSET U PROVE h[s] = k[s]
      OBVIOUS
    <3>1. CASE s = {}
      BY <3>1
    <3>2. CASE s # {}
      <4>1. h[s] = f[Pick(s)] + G(Before(s))[Before(s)]
        BY <3>2
      <4>2. k[s] = f[Pick(s)] + h[Before(s)]
        BY <3>2
      <4> QED BY <2>1, <3>2, <4>1, <4>2
    <3> QED BY <3>1, <3>2
  <2>3. h = k
    <3> h = [s \in SUBSET U |-> h[s]] /\ k = [s \in SUBSET U |-> k[s]]
      OBVIOUS
    <3> HIDE DEF h, k
    <3> QED BY <2>2
  <2> QED BY <2>3
<1>5. Sums(f, h, U)
  BY <1>4 DEF Sums
<1> QED BY <1>1, <1>5

\* SumFunction is the last entry of the table.
LEMMA SumIsEntry ==
    ASSUME NEW S, IsFiniteSet(S), NEW f, DOMAIN f = S
    PROVE  \E g : Sums(f, g, S) /\ SumFunction(f) = g[S]
<1> DEFINE h == CHOOSE g : Sums(f, g, S)
<1>1. SumFunction(f) = h[S]
  BY DEF SumFunction, SumFunctionOnSet, FoldFunctionOnSet, MapThenFoldSet, Pick, Sums
<1>2. \E g : Sums(f, g, S)
  BY SumsExist
<1>3. Sums(f, h, S)
  BY <1>2
<1> QED BY <1>1, <1>3

\* The sum of zeros is zero.
LEMMA SumOfZeros ==
    ASSUME NEW S, IsFiniteSet(S), NEW f \in [S -> Int], \A u \in S : f[u] = 0
    PROVE  SumFunction(f) = 0
<1>1. PICK g : Sums(f, g, S) /\ SumFunction(f) = g[S]
  BY SumIsEntry
<1> DEFINE T == {s \in SUBSET S : g[s] # 0}
<1>2. ASSUME T # {} PROVE FALSE
  <2>1. PICK s \in T : \A y \in T : ~(y \subseteq s /\ y # s)
    <3>1. T \subseteq SUBSET S
      OBVIOUS
    <3> HIDE DEF T
    <3> QED BY <1>2, <3>1, MinimalSubset
  <2> DEFINE r == s \ {Pick(s)}
  <2>2. s \in SUBSET S /\ s # {}
    BY <1>1, SumsAt
  <2>3. g[s] = f[Pick(s)] + g[r] /\ r \subseteq s /\ r # s /\ Pick(s) \in S
    BY <1>1, <2>2, SumsAt
  <2>4. g[r] = 0
    BY <2>1, <2>2, <2>3
  <2> QED BY <2>3, <2>4
<1> QED BY <1>1, <1>2

\* Changing one value changes the sum by the difference.
LEMMA SumOfUpdate ==
    ASSUME NEW S, IsFiniteSet(S), NEW f \in [S -> Int], NEW u \in S, NEW v \in Int
    PROVE  /\ SumFunction(f) \in Int
           /\ SumFunction([f EXCEPT ![u] = v]) = SumFunction(f) - f[u] + v
<1> DEFINE e == [f EXCEPT ![u] = v]
<1>0. e \in [S -> Int] /\ e[u] = v /\ \A w \in S : w # u => e[w] = f[w]
  OBVIOUS
<1> HIDE DEF e
<1>1. PICK g : Sums(f, g, S) /\ SumFunction(f) = g[S]
  BY SumIsEntry
<1>2. PICK h : Sums(e, h, S) /\ SumFunction(e) = h[S]
  BY <1>0, SumIsEntry
<1> DEFINE Good(s) == /\ g[s] \in Int
                      /\ u \in s => h[s] = g[s] - f[u] + v
                      /\ u \notin s => h[s] = g[s]
           T == {s \in SUBSET S : ~Good(s)}
<1>3. ASSUME T # {} PROVE FALSE
  <2>1. PICK s \in T : \A y \in T : ~(y \subseteq s /\ y # s)
    <3>1. T \subseteq SUBSET S
      OBVIOUS
    <3> HIDE DEF T
    <3> QED BY <1>3, <3>1, MinimalSubset
  <2>2. s \in SUBSET S /\ s # {}
    <3>1. g[{}] = 0 /\ h[{}] = 0
      <4>1. \A k, w : Sums(w, k, S) => k[{}] = 0
        BY DEF Sums
      <4> QED BY <1>1, <1>2, <4>1
    <3>2. Good({})
      BY <3>1
    <3> QED BY <3>2
  <2> DEFINE x == Pick(s)
             r == s \ {x}
  <2>3. /\ g[s] = f[x] + g[r] /\ h[s] = e[x] + h[r]
        /\ r \subseteq s /\ r # s /\ x \in s
    BY <1>1, <1>2, <2>2, SumsAt
  <2>4. Good(r)
    BY <2>1, <2>2, <2>3
  <2>5. f[x] \in Int /\ f[u] \in Int /\ x \in S
    BY <2>2, <2>3
  <2>6. g[s] \in Int /\ g[r] \in Int
    BY <2>3, <2>4, <2>5
  <2>7. CASE x = u
    <3>1. u \in s /\ u \notin r /\ h[r] = g[r] /\ e[x] = v
      BY <1>0, <2>3, <2>4, <2>7
    <3>2. h[s] = g[s] - f[u] + v
      BY <2>3, <2>5, <2>6, <2>7, <3>1
    <3> QED BY <2>6, <3>1, <3>2
  <2>8. CASE x # u
    <3>1. e[x] = f[x] /\ (u \in s <=> u \in r)
      BY <1>0, <2>5, <2>8
    <3>2. u \in s => h[s] = g[s] - f[u] + v
      BY <2>3, <2>4, <2>5, <2>6, <3>1
    <3>3. u \notin s => h[s] = g[s]
      BY <2>3, <2>4, <2>5, <2>6, <3>1
    <3> QED BY <2>6, <3>2, <3>3
  <2> QED BY <2>7, <2>8
<1>4. Good(S)
  BY <1>3
<1> QED BY <1>1, <1>2, <1>4 DEF e

\* Without removes at most one view and stays a sequence of views.
LEMMA WithoutType ==
    ASSUME NEW S, NEW s \in Seq(S), NEW t
    PROVE  Without(s, t) \in Seq(S)
<1>1. CASE \E i \in DOMAIN s : s[i] = t
  <2> DEFINE i == CHOOSE i \in DOMAIN s : s[i] = t
  <2>1. i \in 1..Len(s)
    BY <1>1
  <2> HIDE DEF i
  <2>2. SubSeq(s, 1, i - 1) \in Seq(S) /\ SubSeq(s, i + 1, Len(s)) \in Seq(S)
    BY <2>1, SubSeqProperties
  <2> QED BY <1>1, <2>2, ConcatProperties DEF Without, RemoveAt, i
<1> QED BY <1>1 DEF Without

\* Closing views leaves only views that were there.
LEMMA WithoutRange ==
    ASSUME NEW S, NEW s \in Seq(S), NEW t, NEW i \in DOMAIN Without(s, t)
    PROVE  \E j \in DOMAIN s : Without(s, t)[i] = s[j]
<1>1. CASE \E k \in DOMAIN s : s[k] = t
  <2>0. Len(s) \in Nat /\ DOMAIN s = 1..Len(s)
    OBVIOUS
  <2>1. PICK k \in 1..Len(s) : k = CHOOSE j \in DOMAIN s : s[j] = t
    BY <1>1, <2>0
  <2> DEFINE a == SubSeq(s, 1, k - 1)
             b == SubSeq(s, k + 1, Len(s))
  <2>2. Without(s, t) = a \o b
    BY <1>1, <2>1 DEF Without, RemoveAt
  <2>3. /\ a \in Seq(S) /\ Len(a) = k - 1
        /\ \A j \in 1..Len(a) : a[j] = s[j]
    BY <2>0, SubSeqProperties
  <2>4. /\ b \in Seq(S) /\ Len(b) = Len(s) - k
        /\ \A j \in 1..Len(b) : b[j] = s[k + j]
    <3>1. \A j \in (k + 1)..Len(s) : s[j] \in S
      BY <2>0
    <3>2. /\ b \in Seq(S)
          /\ Len(b) = IF k + 1 <= Len(s) THEN Len(s) - (k + 1) + 1 ELSE 0
          /\ \A j \in 1..(Len(s) - (k + 1) + 1) : b[j] = s[(k + 1) + j - 1]
      BY <2>0, <3>1, SubSeqProperties
    <3> HIDE DEF b
    <3>3. Len(b) = Len(s) - k
      <4>1. CASE k + 1 <= Len(s)
        <5>1. Len(b) = Len(s) - (k + 1) + 1
          BY <3>2, <4>1
        <5> QED BY <2>0, <5>1
      <4>2. CASE k = Len(s)
        <5>1. Len(b) = 0
          BY <2>0, <3>2, <4>2
        <5> QED BY <2>0, <4>2, <5>1
      <4>3. k + 1 <= Len(s) \/ k = Len(s)
        BY <2>0, <2>1
      <4> QED BY <4>1, <4>2, <4>3
    <3>4. ASSUME NEW j \in 1..Len(b) PROVE b[j] = s[k + j]
      <4>1. j \in 1..(Len(s) - (k + 1) + 1) /\ (k + 1) + j - 1 = k + j
        BY <2>0, <3>3
      <4> QED BY <3>2, <4>1
    <3> QED BY <3>2, <3>3, <3>4
  <2> HIDE DEF a, b
  <2>5. /\ DOMAIN (a \o b) = 1..(Len(a) + Len(b))
        /\ \A j \in 1..(Len(a) + Len(b)) :
              (a \o b)[j] = IF j <= Len(a) THEN a[j] ELSE b[j - Len(a)]
    <3>1. Len(a \o b) = Len(a) + Len(b) /\ a \o b \in Seq(S)
      BY <2>3, <2>4, ConcatProperties
    <3>2. DOMAIN (a \o b) = 1..Len(a \o b)
      BY <3>1
    <3> QED BY <2>3, <2>4, <3>1, <3>2, ConcatProperties
  <2>6. CASE i <= Len(a)
    BY <2>0, <2>2, <2>3, <2>4, <2>5, <2>6
  <2>7. CASE ~(i <= Len(a))
    <3>1. i - Len(a) \in 1..Len(b)
      BY <2>0, <2>2, <2>3, <2>4, <2>5, <2>7
    <3>2. Without(s, t)[i] = s[k + (i - Len(a))]
      BY <2>0, <2>2, <2>3, <2>4, <2>5, <2>7, <3>1
    <3>3. k + (i - Len(a)) \in DOMAIN s
      BY <2>0, <2>3, <2>4, <3>1
    <3> QED BY <3>2, <3>3
  <2> QED BY <2>6, <2>7
<1> QED BY <1>1 DEF Without

----------------------------------------------------------------------------
(***************************************************************************)
(* The inductive invariant.  EveryShareFunded alone is not inductive: a new *)
(* packet must have a share (FormOK), and the claim step and                *)
(* StuckOnlyIfScarce need to know that a queued request names an open       *)
(* packet, whose total and size no longer change (RequestsOK).              *)
(***************************************************************************)
BooksInv == TypeOK /\ FormOK /\ RequestsOK /\ EveryShareFunded /\ StuckOnlyIfScarce

\* Record updates, once and for all.
Ended(r, srv) == [r EXCEPT !.srv = srv]
Moved(r, cli) == [r EXCEPT !.cli = cli]

LEMMA ServedRequest ==
    ASSUME NEW r \in Requests, NEW status \in {"200", "5001", "5002"}, NEW amt \in Nat
    PROVE  /\ Served(r, status, amt) \in Requests
           /\ Served(r, status, amt).u = r.u /\ Served(r, status, amt).p = r.p
           /\ Served(r, status, amt).srv = "served"
           /\ Served(r, status, amt).cli = r.cli
           /\ Served(r, status, amt).status = status /\ Served(r, status, amt).amt = amt
  BY DEF Requests, Served

\* An answer changes the request it is for, and no other.
LEMMA AnsweredTap ==
    ASSUME tap \in [Taps -> Requests], NEW t \in Taps,
           NEW status \in {"200", "5001", "5002"}, NEW amt \in Nat,
           tap' = Answered(t, status, amt)
    PROVE  /\ tap' \in [Taps -> Requests]
           /\ \A s \in Taps : s # t => tap'[s] = tap[s]
           /\ tap'[t].u = tap[t].u /\ tap'[t].p = tap[t].p
           /\ tap'[t].srv = "served" /\ tap'[t].cli = tap[t].cli
           /\ tap'[t].status = status /\ tap'[t].amt = amt
<1>1. tap[t] \in Requests
  OBVIOUS
<1> DEFINE r == Served(tap[t], status, amt)
<1>2. /\ r \in Requests /\ r.u = tap[t].u /\ r.p = tap[t].p /\ r.srv = "served"
      /\ r.cli = tap[t].cli /\ r.status = status /\ r.amt = amt
  BY <1>1, ServedRequest
<1>3. tap' = [tap EXCEPT ![t] = r]
  BY DEF Answered
<1> HIDE DEF r
<1> QED BY <1>2, <1>3

LEMMA EndedRequest ==
    ASSUME NEW r \in Requests, NEW srv \in {"stuck", "lost"}
    PROVE  /\ Ended(r, srv) \in Requests
           /\ Ended(r, srv).u = r.u /\ Ended(r, srv).p = r.p
           /\ Ended(r, srv).srv = srv /\ Ended(r, srv).cli = r.cli
           /\ Ended(r, srv).status = r.status /\ Ended(r, srv).amt = r.amt
  BY DEF Requests, Ended

LEMMA MovedRequest ==
    ASSUME NEW r \in Requests, NEW cli \in {"have", "no", "failed", "asking", "closed"}
    PROVE  /\ Moved(r, cli) \in Requests
           /\ Moved(r, cli).u = r.u /\ Moved(r, cli).p = r.p
           /\ Moved(r, cli).srv = r.srv /\ Moved(r, cli).cli = cli
           /\ Moved(r, cli).status = r.status /\ Moved(r, cli).amt = r.amt
  BY DEF Requests, Moved

LEMMA MovedPacket ==
    ASSUME NEW r \in PacketRecords, NEW st \in {"open", "lost"}
    PROVE  LET n == [r EXCEPT !.st = st]
           IN n \in PacketRecords /\ n.total = r.total /\ n.size = r.size
              /\ n.balance = r.balance /\ n.left = r.left
  BY DEF PacketRecords

LEMMA PaidPacket ==
    ASSUME NEW r \in PacketRecords, NEW money \in Nat,
           r.balance - money \in Nat, r.left - 1 \in Nat
    PROVE  /\ Paid(r, money) \in PacketRecords
           /\ Paid(r, money).total = r.total /\ Paid(r, money).size = r.size
           /\ Paid(r, money).balance = r.balance - money
           /\ Paid(r, money).left = r.left - 1
           /\ Paid(r, money).st = r.st
  BY DEF PacketRecords, Paid

USE UnitAssumption, AmountsAssumption, SizesAssumption

LEMMA InitBooks == Init => BooksInv
<1> SUFFICES ASSUME Init PROVE BooksInv
  OBVIOUS
<1> USE DEF Init
<1>1. TypeOK
  BY DEF TypeOK, Forms, PacketRecords, Requests, Kinds, NoForm, NoPacket,
         NoRequest, NoDetail
<1>2. RequestsOK /\ FormOK
  BY DEF RequestsOK, NoRequest, FormOK, NoForm
<1>3. EveryShareFunded
  BY DEF EveryShareFunded, NoPacket
<1>4. StuckOnlyIfScarce
  BY DEF StuckOnlyIfScarce, NoRequest
<1> QED BY <1>1, <1>2, <1>3, <1>4 DEF BooksInv

\* The steps of the send form and of the post.
LEMMA SendSteps ==
    ASSUME BooksInv,
           \/ \E u, v \in Users, k \in Kinds : u # v /\ ViewDidLoad(u, v, k)
           \/ \E a \in Amounts, n \in Sizes \cup {0} : TextFieldDidChange(a, n)
           \/ \E p \in Packets : BeginSendRedMessage(p) \/ CreateRed(p) \/ SendFails(p)
    PROVE  BooksInv'
<1> USE DEF BooksInv
<1>1. CASE \E u, v \in Users, k \in Kinds : u # v /\ ViewDidLoad(u, v, k)
  <2>1. PICK u \in Users, v \in Users, k \in Kinds : ViewDidLoad(u, v, k)
    BY <1>1
  <2>2. form' \in Forms /\ form'.enabled = FALSE
    BY <2>1 DEF ViewDidLoad, NoForm, Forms, Kinds
  <2> QED BY <2>1, <2>2 DEF ViewDidLoad, TypeOK, FormOK, RequestsOK,
                            EveryShareFunded, StuckOnlyIfScarce
<1>2. CASE \E a \in Amounts, n \in Sizes \cup {0} : TextFieldDidChange(a, n)
  <2>1. PICK a \in Amounts, n \in Sizes \cup {0} : TextFieldDidChange(a, n)
    BY <1>2
  <2>2. a \in Nat /\ n \in Nat
    OBVIOUS
  <2>3. SendEnabled(form.kind, a, n) \in BOOLEAN
    BY Zenon DEF SendEnabled
  <2>4. /\ form' \in Forms
        /\ form'.kind = form.kind /\ form'.amount = a /\ form'.count = n
        /\ form'.enabled = SendEnabled(form.kind, a, n)
    BY <2>1, <2>2, <2>3 DEF TextFieldDidChange, Forms, TypeOK
  <2>5. FormOK'
    BY <2>4 DEF FormOK, SendEnabled
  <2> QED BY <2>1, <2>4, <2>5 DEF TextFieldDidChange, TypeOK, RequestsOK,
                            EveryShareFunded, StuckOnlyIfScarce
<1>3. ASSUME NEW p \in Packets, BeginSendRedMessage(p) PROVE BooksInv'
  <2> DEFINE size == IF form.kind = "single" THEN 1 ELSE form.count
             total == Unit * form.amount
             new == [st |-> "posted", kind |-> form.kind, from |-> form.user,
                     to |-> form.to, total |-> total, size |-> size,
                     balance |-> total, left |-> size]
  <2>1. form \in Forms /\ size \in Nat /\ total \in Nat
    BY DEF TypeOK, Forms
  <2> HIDE DEF size, total
  <2>2. new \in PacketRecords
    BY <2>1 DEF Forms, PacketRecords
  <2>3. pkt' = [pkt EXCEPT ![p] = new] /\ form' = NoForm
    BY <1>3 DEF BeginSendRedMessage, size, total
  <2>4. TypeOK'
    <3>1. form' \in Forms
      BY <2>3 DEF NoForm, Forms, Kinds
    <3>2. pkt' \in [Packets -> PacketRecords]
      BY <2>2, <2>3 DEF TypeOK
    <3> QED BY <1>3, <3>1, <3>2 DEF BeginSendRedMessage, TypeOK
  <2>5. \A t \in Taps : tap[t].srv # "none" => tap[t].p # p
    BY <1>3 DEF BeginSendRedMessage, RequestsOK
  <2>6. RequestsOK' /\ StuckOnlyIfScarce' /\ FormOK'
    BY <1>3, <2>1, <2>3, <2>5 DEF BeginSendRedMessage, RequestsOK, TypeOK,
                                  StuckOnlyIfScarce, FormOK, NoForm
  <2>7. EveryShareFunded'
    <3>1. size # 0
      BY <1>3, <2>1 DEF BeginSendRedMessage, size, FormOK, SendEnabled, Forms
    <3> QED BY <1>3, <2>1, <2>3, <3>1 DEF BeginSendRedMessage, TypeOK, EveryShareFunded
  <2> QED BY <2>4, <2>6, <2>7
<1>4. ASSUME NEW p \in Packets, CreateRed(p) \/ SendFails(p) PROVE BooksInv'
  <2>1. PICK st \in {"open", "lost"} : pkt' = [pkt EXCEPT ![p].st = st]
    BY <1>4 DEF CreateRed, SendFails
  <2>2. /\ pkt[p].st = "posted"
        /\ UNCHANGED <<form, taken, share, tap, win, coming, red, detail>>
    BY <1>4 DEF CreateRed, SendFails
  <2>3. /\ pkt' \in [Packets -> PacketRecords]
        /\ \A q \in Packets : /\ pkt'[q].total = pkt[q].total
                              /\ pkt'[q].size = pkt[q].size
                              /\ pkt'[q].balance = pkt[q].balance
                              /\ pkt'[q].left = pkt[q].left
        /\ \A q \in Packets : q # p => pkt'[q].st = pkt[q].st
    <3> DEFINE n == [pkt[p] EXCEPT !.st = st]
    <3>1. pkt \in [Packets -> PacketRecords] /\ pkt[p] \in PacketRecords
      BY DEF TypeOK
    <3>2. /\ n \in PacketRecords /\ n.total = pkt[p].total /\ n.size = pkt[p].size
          /\ n.balance = pkt[p].balance /\ n.left = pkt[p].left
      BY <3>1, MovedPacket
    <3>3. pkt' = [pkt EXCEPT ![p] = n]
      BY <2>1, <3>1
    <3> HIDE DEF n
    <3>4. pkt' \in [Packets -> PacketRecords] /\ pkt'[p] = n
      BY <3>1, <3>2, <3>3
    <3>5. \A q \in Packets : q # p => pkt'[q] = pkt[q]
      BY <3>1, <3>3
    <3> QED BY <3>2, <3>4, <3>5
  <2>4. TypeOK' /\ FormOK'
    BY <2>2, <2>3 DEF TypeOK, FormOK
  <2>5. \A t \in Taps : tap[t].srv # "none" => tap[t].p \in Packets \ {p}
    BY <2>2 DEF RequestsOK
  <2>6. RequestsOK' /\ EveryShareFunded'
    BY <2>2, <2>3, <2>5 DEF RequestsOK, EveryShareFunded
  <2>7. StuckOnlyIfScarce'
    BY <2>2, <2>3, <2>5 DEF StuckOnlyIfScarce
  <2> QED BY <2>4, <2>6, <2>7
<1> QED BY <1>1, <1>2, <1>3, <1>4

\* The steps of the server: the only ones that move money.
LEMMA ServerSteps ==
    ASSUME BooksInv, NEW t \in Taps, RecvRed(t) \/ RequestLost(t)
    PROVE  BooksInv'
<1> USE DEF BooksInv
<1> DEFINE p == tap[t].p
           u == tap[t].u
<1>1. /\ tap[t].srv = "queued" /\ p \in Packets /\ u \in Users
      /\ pkt[p].st = "open"
      /\ pkt[p].balance \in Nat /\ pkt[p].left \in Nat
      /\ pkt[p].total \in Nat /\ pkt[p].size \in Nat
      /\ UNCHANGED <<form, win, coming, red, detail>>
  <2>1. tap[t].srv = "queued" /\ UNCHANGED <<form, win, coming, red, detail>>
    BY DEF RecvRed, RequestLost
  <2>2. p \in Packets /\ u \in Users /\ pkt[p].st = "open"
    BY <2>1 DEF RequestsOK
  <2> QED BY <2>1, <2>2 DEF TypeOK, PacketRecords
\* An answer, a stuck thread or a lost request: only the request changes.
<1>2. ASSUME NEW r \in Requests, tap' = [tap EXCEPT ![t] = r],
             r.u = u, r.p = p, r.srv # "none", r.cli = tap[t].cli,
             r.srv = "stuck" => pkt[p].total < pkt[p].size,
             UNCHANGED <<pkt, taken, share>>
      PROVE  BooksInv'
  <2>1. TypeOK' /\ FormOK'
    BY <1>1, <1>2 DEF TypeOK, FormOK
  <2>2. RequestsOK'
    BY <1>1, <1>2 DEF RequestsOK, TypeOK
  <2>3. EveryShareFunded' /\ StuckOnlyIfScarce'
    BY <1>1, <1>2 DEF EveryShareFunded, StuckOnlyIfScarce, TypeOK
  <2> QED BY <2>1, <2>2, <2>3
<1>3. ASSUME NEW status \in {"5001", "5002"}, tap' = Answered(t, status, 0),
             UNCHANGED <<pkt, taken, share>>
      PROVE  BooksInv'
  <2>1. tap \in [Taps -> Requests] /\ status \in {"200", "5001", "5002"} /\ 0 \in Nat
    BY DEF TypeOK
  <2> DEFINE r == tap'[t]
  <2>2. /\ r \in Requests /\ r.u = u /\ r.p = p /\ r.srv = "served" /\ r.cli = tap[t].cli
        /\ tap' \in [Taps -> Requests] /\ \A s \in Taps : s # t => tap'[s] = tap[s]
    BY <1>3, <2>1, AnsweredTap
  <2>3. tap' = [tap EXCEPT ![t] = r]
    BY <2>1, <2>2
  <2> HIDE DEF r
  <2> QED BY <1>2, <1>3, <2>2, <2>3
<1>4. ASSUME NEW srv \in {"stuck", "lost"}, tap' = [tap EXCEPT ![t].srv = srv],
             srv = "stuck" => pkt[p].total < pkt[p].size,
             UNCHANGED <<pkt, taken, share>>
      PROVE  BooksInv'
  <2> DEFINE r == Ended(tap[t], srv)
  <2>1. r \in Requests /\ r.u = u /\ r.p = p /\ r.srv = srv /\ r.cli = tap[t].cli
    BY EndedRequest DEF TypeOK
  <2>2. tap' = [tap EXCEPT ![t] = r]
    BY <1>4 DEF TypeOK, Ended
  <2> HIDE DEF r
  <2> QED BY <1>2, <1>4, <2>1, <2>2
\* A share is drawn.  If the packet has a unit for every share, DrawLeavesEnough
\* applies; if not, there is a single share left or nothing can be drawn.
<1>5. ASSUME pkt[p].left # 0,
             NEW money \in GenerateRedValue(pkt[p].balance, pkt[p].left),
             Grant(p, u, money), tap' = Answered(t, "200", money)
      PROVE  BooksInv'
  <2> DEFINE b == pkt[p].balance
             n == pkt[p].left
  <2>1. /\ money \in Nat /\ b - money \in Nat
        /\ b >= n => b - money >= n - 1
        /\ n = 1 => b - money = 0
    <3>1. CASE b >= n
      BY <1>1, <1>5, <3>1, DrawLeavesEnough
    <3>2. CASE n = 1
      BY <1>1, <1>5, <3>2 DEF GenerateRedValue
    <3>3. CASE b < n /\ n # 1
      <4>1. b \div n = 0
        BY <1>1, <3>3, <1>5
      <4>2. GenerateRedValue(b, n) = {}
        BY <4>1, <3>3 DEF GenerateRedValue
      <4> QED BY <4>2, <1>5
    <3> QED BY <1>1, <3>1, <3>2, <3>3
  <2>2. /\ pkt' = [pkt EXCEPT ![p] = Paid(@, money)]
        /\ taken' = [taken EXCEPT ![p] = @ \cup {u}]
        /\ share' = [share EXCEPT ![p][u] = money]
    BY <1>5 DEF Grant, TypeOK
  <2>3. /\ pkt' \in [Packets -> PacketRecords]
        /\ pkt'[p].balance = b - money /\ pkt'[p].left = n - 1
        /\ \A q \in Packets : q # p => pkt'[q] = pkt[q]
        /\ \A q \in Packets : /\ pkt'[q].total = pkt[q].total
                              /\ pkt'[q].size = pkt[q].size
                              /\ pkt'[q].st = pkt[q].st
    <3>1. n - 1 \in Nat
      BY <1>1, <1>5
    <3>2. pkt[p] \in PacketRecords
      BY <1>1 DEF TypeOK
    <3>3. /\ Paid(pkt[p], money) \in PacketRecords
          /\ Paid(pkt[p], money).total = pkt[p].total
          /\ Paid(pkt[p], money).size = pkt[p].size
          /\ Paid(pkt[p], money).balance = b - money
          /\ Paid(pkt[p], money).left = n - 1
          /\ Paid(pkt[p], money).st = pkt[p].st
      BY <2>1, <3>1, <3>2, PaidPacket, Zenon
    <3> QED BY <1>1, <2>2, <3>3 DEF TypeOK
  <2>4. /\ tap' \in [Taps -> Requests]
        /\ \A s \in Taps : s # t => tap'[s] = tap[s]
        /\ tap'[t].u = u /\ tap'[t].p = p /\ tap'[t].srv = "served"
        /\ tap'[t].cli = tap[t].cli
    <3>1. tap \in [Taps -> Requests]
      BY DEF TypeOK
    <3> QED BY <1>5, <2>1, <3>1, AnsweredTap
  <2>5. TypeOK' /\ FormOK'
    BY <1>1, <2>1, <2>2, <2>3, <2>4 DEF TypeOK, FormOK
  <2>6. RequestsOK'
    BY <1>1, <2>3, <2>4 DEF RequestsOK
  <2>7. StuckOnlyIfScarce'
    <3> SUFFICES ASSUME NEW s \in Taps, tap'[s].srv = "stuck"
                 PROVE  pkt'[tap'[s].p].total < pkt'[tap'[s].p].size
      BY DEF StuckOnlyIfScarce
    <3>1. s # t /\ tap'[s] = tap[s]
      BY <2>4
    <3>2. tap[s].p \in Packets
      BY <3>1 DEF RequestsOK
    <3> QED BY <2>3, <3>1, <3>2 DEF StuckOnlyIfScarce
  <2>8. EveryShareFunded'
    <3> SUFFICES ASSUME NEW q \in Packets
                 PROVE  /\ pkt'[q].total >= pkt'[q].size => pkt'[q].balance >= pkt'[q].left
                        /\ pkt'[q].left = 0 => pkt'[q].balance = 0
      BY DEF EveryShareFunded
    <3>1. CASE q # p
      BY <2>3, <3>1 DEF EveryShareFunded
    <3>2. CASE q = p
      BY <1>1, <1>5, <2>1, <2>3, <3>2 DEF EveryShareFunded
    <3> QED BY <3>1, <3>2
  <2> QED BY <2>5, <2>6, <2>7, <2>8
\* No value can be drawn: the balance is below the number of shares left.
<1>6. ASSUME pkt[p].left # 0, GenerateRedValue(pkt[p].balance, pkt[p].left) = {}
      PROVE  pkt[p].total < pkt[p].size
  <2>1. ~(pkt[p].balance >= pkt[p].left)
    BY <1>1, <1>6, DrawLeavesEnough
  <2> QED BY <1>1, <2>1 DEF EveryShareFunded
<1>7. CASE RequestLost(t)
  BY <1>4, <1>7 DEF RequestLost
<1>8. CASE RecvRed(t)
  <2> USE <1>8 DEF RecvRed
  <2>1. \/ \E status \in {"5001", "5002"} :
              tap' = Answered(t, status, 0) /\ UNCHANGED <<pkt, taken, share>>
        \/ /\ pkt[p].left # 0
           /\ \E money \in GenerateRedValue(pkt[p].balance, pkt[p].left) :
                 Grant(p, u, money) /\ tap' = Answered(t, "200", money)
        \/ /\ pkt[p].left # 0 /\ GenerateRedValue(pkt[p].balance, pkt[p].left) = {}
           /\ tap' = [tap EXCEPT ![t].srv = "stuck"]
           /\ UNCHANGED <<pkt, taken, share>>
    BY Zenon
  <2> QED BY <2>1, <1>3, <1>4, <1>5, <1>6
<1> QED BY <1>7, <1>8

\* The steps of the clients: requests go out, answers are shown.
LEMMA ClientSteps ==
    ASSUME BooksInv,
           \/ \E t \in Taps : ShowAnswer(t) \/ ClaimFails(t) \/ ReceiveRedMessage(t)
           \/ \E t \in Taps, u \in Users, p \in Packets : DidTapMessageCell(t, u, p)
           \/ \E u \in Users : ShareviewShow(u) \/ OpenRed(u) \/ ChectRedMessage(u) \/ CanleClick(u)
    PROVE  BooksInv'
<1> USE DEF BooksInv
\* It is enough that the packets stay and the requests keep their server end.
<1>1. ASSUME UNCHANGED <<form, pkt, taken, share>>, TypeOK',
             \A t \in Taps : /\ tap'[t].srv = tap[t].srv /\ tap'[t].p = tap[t].p
                             /\ tap'[t].u = tap[t].u
                             /\ tap'[t].cli # "idle" => tap[t].cli # "idle"
      PROVE  BooksInv'
  <2>1. RequestsOK' /\ FormOK'
    BY <1>1 DEF RequestsOK, FormOK
  <2>2. EveryShareFunded' /\ StuckOnlyIfScarce'
    BY <1>1 DEF EveryShareFunded, StuckOnlyIfScarce
  <2> QED BY <1>1, <2>1, <2>2
<1>2. ASSUME NEW t \in Taps, NEW c \in {"have", "no", "failed", "asking", "closed"},
             tap[t].cli # "idle", tap' = [tap EXCEPT ![t].cli = c]
      PROVE  /\ tap' \in [Taps -> Requests]
             /\ \A s \in Taps : /\ tap'[s].srv = tap[s].srv /\ tap'[s].p = tap[s].p
                                /\ tap'[s].u = tap[s].u
                                /\ tap'[s].cli # "idle" => tap[s].cli # "idle"
  <2>1. tap' = [tap EXCEPT ![t] = Moved(@, c)]
    BY <1>2 DEF Moved
  <2>2. tap[t] \in Requests
    BY DEF TypeOK
  <2>3. /\ Moved(tap[t], c) \in Requests
        /\ Moved(tap[t], c).u = tap[t].u /\ Moved(tap[t], c).p = tap[t].p
        /\ Moved(tap[t], c).srv = tap[t].srv /\ Moved(tap[t], c).cli = c
    BY <2>2, MovedRequest, Zenon
  <2> QED BY <1>2, <2>1, <2>3 DEF TypeOK
<1>3. ASSUME NEW u \in Users, win[u] # <<>> PROVE Top(u) \in Taps
  BY <1>3, LenProperties DEF TypeOK, Top, Last
<1>4. ASSUME NEW u \in Users, NEW p \in Packets \cup {None}, NEW amt \in Nat,
             PushRedMessageView(u, p, amt)
      PROVE  /\ win' \in [Users -> Seq(Taps)]
             /\ detail' \in [Users -> [p : Packets \cup {None}, amt : Nat]]
  <2>1. Without(win[u], red[u]) \in Seq(Taps)
    BY WithoutType DEF TypeOK
  <2> QED BY <1>4, <2>1 DEF PushRedMessageView, TypeOK
<1>5. ASSUME NEW t \in Taps, ShowAnswer(t) PROVE BooksInv'
  <2>1. tap[t].u \in Users
    BY <1>5 DEF ShowAnswer, RequestsOK
  <2>2. coming' \in [Users -> Seq(Taps)] /\ red' \in [Users -> Taps \cup {None}]
    BY <1>5, <2>1, AppendProperties DEF ShowAnswer, TypeOK
  <2>3. PICK c \in {"have", "no"} : tap' = [tap EXCEPT ![t].cli = c]
    BY <1>5 DEF ShowAnswer
  <2> QED BY <1>1, <1>2, <1>5, <2>2, <2>3 DEF ShowAnswer, TypeOK
<1>6. ASSUME NEW t \in Taps, ClaimFails(t) PROVE BooksInv'
  BY <1>1, <1>2, <1>6 DEF ClaimFails, TypeOK
<1>7. ASSUME NEW t \in Taps, ReceiveRedMessage(t) PROVE BooksInv'
  <2>1. tap[t].u \in Users /\ tap[t].p \in Packets
    BY <1>7 DEF ReceiveRedMessage, RequestsOK
  <2>2. /\ win' \in [Users -> Seq(Taps)]
        /\ detail' \in [Users -> [p : Packets \cup {None}, amt : Nat]]
    <3>1. share[tap[t].p][tap[t].u] \in Nat
      BY <2>1 DEF TypeOK
    <3> QED BY <1>4, <1>7, <2>1, <3>1 DEF ReceiveRedMessage, TypeOK
  <2> QED BY <1>1, <1>2, <1>7, <2>2 DEF ReceiveRedMessage, TypeOK
<1>8. ASSUME NEW t \in Taps, NEW u \in Users, NEW p \in Packets,
             DidTapMessageCell(t, u, p)
      PROVE  BooksInv'
  <2> DEFINE new == [cli |-> "waiting", srv |-> "queued", u |-> u, p |-> p,
                     status |-> "none", amt |-> 0]
  <2>1. tap' = [tap EXCEPT ![t] = new] /\ new \in Requests /\ pkt[p].st = "open"
        /\ UNCHANGED <<form, pkt, taken, share, win, coming, red, detail>>
    BY <1>8 DEF DidTapMessageCell, Requests
  <2>2. TypeOK' /\ FormOK'
    BY <2>1 DEF TypeOK, FormOK
  <2>3. RequestsOK'
    BY <2>1 DEF RequestsOK, TypeOK
  <2>4. EveryShareFunded' /\ StuckOnlyIfScarce'
    BY <2>1 DEF EveryShareFunded, StuckOnlyIfScarce, TypeOK
  <2> QED BY <2>2, <2>3, <2>4
<1>9. ASSUME NEW u \in Users, OpenRed(u) PROVE BooksInv'
  <2>1. tap[Top(u)].p \in Packets \cup {None} /\ tap[Top(u)].amt \in Nat
    BY <1>3, <1>9 DEF OpenRed, TypeOK, Requests
  <2>2. TypeOK'
    BY <1>4, <1>9, <2>1 DEF OpenRed, TypeOK
  <2> QED BY <1>1, <1>9, <2>2 DEF OpenRed
<1>10. ASSUME NEW u \in Users, ChectRedMessage(u) \/ CanleClick(u) PROVE BooksInv'
  <2>1. Top(u) \in Taps
    BY <1>3, <1>10 DEF ChectRedMessage, CanleClick
  <2>2. win' \in [Users -> Seq(Taps)]
    <3>1. Without(win[u], Top(u)) \in Seq(Taps)
      BY WithoutType DEF TypeOK
    <3> QED BY <1>10, <3>1 DEF ChectRedMessage, CanleClick, TypeOK
  <2>3. CASE ChectRedMessage(u)
    BY <1>1, <1>2, <2>1, <2>2, <2>3 DEF ChectRedMessage, TypeOK
  <2>4. CASE CanleClick(u)
    BY <1>1, <2>2, <2>4 DEF CanleClick, TypeOK
  <2> QED BY <1>10, <2>3, <2>4
<1>11. ASSUME NEW u \in Users, ShareviewShow(u) PROVE BooksInv'
  <2>1. win[u] \in Seq(Taps) /\ coming[u] \in Seq(Taps) /\ coming[u] # <<>>
    BY <1>11 DEF ShareviewShow, TypeOK
  <2>2. Append(win[u], Head(coming[u])) \in Seq(Taps) /\ Tail(coming[u]) \in Seq(Taps)
    BY <2>1, HeadTailProperties, AppendProperties
  <2>3. win' \in [Users -> Seq(Taps)] /\ coming' \in [Users -> Seq(Taps)]
    BY <1>11, <2>2 DEF ShareviewShow, TypeOK
  <2> QED BY <1>1, <1>11, <2>3 DEF ShareviewShow, TypeOK
<1> QED BY <1>5, <1>6, <1>7, <1>8, <1>9, <1>10, <1>11

LEMMA StutterBooks == BooksInv /\ UNCHANGED vars => BooksInv'
  BY DEF BooksInv, vars, TypeOK, FormOK, RequestsOK, EveryShareFunded, StuckOnlyIfScarce

LEMMA NextBooks == BooksInv /\ [Next]_vars => BooksInv'
  BY SendSteps, ServerSteps, ClientSteps, StutterBooks DEF Next

THEOREM BooksInvariant == Spec => []BooksInv
  BY InitBooks, NextBooks, PTL DEF Spec

\* Type correctness: no balance and no count of shares ever goes below zero.
THEOREM TypeCorrect == Spec => []TypeOK
  BY BooksInvariant, PTL DEF BooksInv

\* Whatever generateRedValue draws, every share left keeps at least one smallest
\* unit, and the last share empties the packet.
THEOREM SharesFunded == Spec => []EveryShareFunded
  BY BooksInvariant, PTL DEF BooksInv

\* generateRedValue loops forever only on packets worth less than one smallest
\* unit per share.
THEOREM DrawTerminates == Spec => []StuckOnlyIfScarce
  BY BooksInvariant, PTL DEF BooksInv

----------------------------------------------------------------------------
(***************************************************************************)
(* Who has been paid and what the clients were told.  The properties follow *)
(* from the books and from how far each request has come: a request has a   *)
(* status exactly when it was served (AnswersKept), a view on the screen of *)
(* a user belongs to an answered request of that user (ViewsOwn), and a     *)
(* detail page shows a share that can no longer change (DetailsFinal).      *)
(***************************************************************************)

\* Shares are recorded for the claimers only, one of the packet's shares each,
\* and never before the packet is open; while shares are left there is money.
SharesCounted ==
    \A p \in Packets :
        /\ Cardinality(taken[p]) + pkt[p].left = pkt[p].size
        /\ \A u \in Users : (share[p][u] # 0) <=> (u \in taken[p])
        /\ pkt[p].left # 0 => pkt[p].balance # 0
        /\ pkt[p].st # "open" => taken[p] = {}

AnswersKept ==
    \A t \in Taps :
        /\ tap[t].srv = "served" <=> tap[t].status # "none"
        /\ tap[t].cli = "have" => tap[t].status = "200"
        /\ tap[t].cli \in {"no", "asking"} => tap[t].status \in {"5001", "5002"}

\* The views of a user, on the screen and on their way there.
Views(u) == Range(win[u]) \cup Range(coming[u])

ViewsOwn == \A u \in Users : \A t \in Views(u) : tap[t].cli # "idle" /\ tap[t].u = u

\* A request was answered with a share only if that share is recorded.
SharesTold ==
    \A t \in Taps : tap[t].status = "200" => /\ tap[t].u \in taken[tap[t].p]
                                             /\ share[tap[t].p][tap[t].u] = tap[t].amt

DetailsFinal ==
    \A u \in Users : detail[u].p # None =>
        LET p == detail[u].p
        IN /\ p \in Packets /\ pkt[p].st = "open"
           /\ u \in taken[p] \/ pkt[p].left = 0

ClaimsInv ==
    /\ BooksInv /\ SharesCounted /\ AnswersKept /\ ViewsOwn /\ DetailsFinal
    /\ SharesTold /\ ClientToldTruth

LEMMA InitClaims == Init => ClaimsInv
<1> SUFFICES ASSUME Init PROVE ClaimsInv
  OBVIOUS
<1>1. BooksInv
  BY InitBooks
<1>2. SharesCounted
  BY FS_EmptySet DEF Init, SharesCounted, NoPacket
<1>3. AnswersKept /\ SharesTold
  BY DEF Init, AnswersKept, SharesTold, NoRequest
<1>4. ViewsOwn /\ DetailsFinal
  BY DEF Init, ViewsOwn, Views, Range, DetailsFinal, NoDetail
<1>5. ClientToldTruth
  BY DEF Init, ClientToldTruth, NoRequest, NoDetail
<1> QED BY <1>1, <1>2, <1>3, <1>4, <1>5 DEF ClaimsInv

\* Steps that leave the books alone and give no request another status.
LEMMA AnswersFrame ==
    ASSUME ClaimsInv, UNCHANGED <<pkt, taken, share>>,
           \A s \in Taps : \/ tap'[s].status = "none"
                           \/ /\ tap'[s].status = tap[s].status
                              /\ tap'[s].amt = tap[s].amt
                              /\ tap'[s].u = tap[s].u /\ tap'[s].p = tap[s].p,
           \A u \in Users : detail'[u].p # None => detail'[u].amt = share[detail'[u].p][u]
    PROVE  SharesCounted' /\ SharesTold' /\ ClientToldTruth'
<1>1. SharesCounted'
  BY DEF ClaimsInv, SharesCounted
<1>2. SharesTold'
  BY DEF ClaimsInv, SharesTold
<1>3. ClientToldTruth'
  BY DEF ClaimsInv, ClientToldTruth
<1> QED BY <1>1, <1>2, <1>3

\* A request that a client has moved on keeps all but its client end.
LEMMA MovedTap ==
    ASSUME tap \in [Taps -> Requests], NEW t \in Taps,
           NEW c \in {"have", "no", "failed", "asking", "closed"},
           tap' = [tap EXCEPT ![t].cli = c]
    PROVE  /\ \A s \in Taps : s # t => tap'[s] = tap[s]
           /\ tap'[t].u = tap[t].u /\ tap'[t].p = tap[t].p
           /\ tap'[t].srv = tap[t].srv /\ tap'[t].cli = c
           /\ tap'[t].status = tap[t].status /\ tap'[t].amt = tap[t].amt
<1>1. tap[t] \in Requests
  OBVIOUS
<1> DEFINE r == Moved(tap[t], c)
<1>2. /\ r.u = tap[t].u /\ r.p = tap[t].p /\ r.srv = tap[t].srv
      /\ r.cli = c /\ r.status = tap[t].status /\ r.amt = tap[t].amt
  BY <1>1, MovedRequest
<1>3. tap' = [tap EXCEPT ![t] = r]
  BY DEF Moved
<1> HIDE DEF r
<1> QED BY <1>2, <1>3

LEMMA EndedTap ==
    ASSUME tap \in [Taps -> Requests], NEW t \in Taps, NEW v \in {"stuck", "lost"},
           tap' = [tap EXCEPT ![t].srv = v]
    PROVE  /\ \A s \in Taps : s # t => tap'[s] = tap[s]
           /\ tap'[t].u = tap[t].u /\ tap'[t].p = tap[t].p
           /\ tap'[t].srv = v /\ tap'[t].cli = tap[t].cli
           /\ tap'[t].status = tap[t].status /\ tap'[t].amt = tap[t].amt
<1>1. tap[t] \in Requests
  OBVIOUS
<1> DEFINE r == Ended(tap[t], v)
<1>2. /\ r.u = tap[t].u /\ r.p = tap[t].p /\ r.srv = v
      /\ r.cli = tap[t].cli /\ r.status = tap[t].status /\ r.amt = tap[t].amt
  BY <1>1, EndedRequest
<1>3. tap' = [tap EXCEPT ![t] = r]
  BY DEF Ended
<1> HIDE DEF r
<1> QED BY <1>2, <1>3

LEMMA ViewsType ==
    ASSUME TypeOK, NEW u \in Users
    PROVE  win[u] \in Seq(Taps) /\ coming[u] \in Seq(Taps) /\ Views(u) \subseteq Taps
<1>1. win[u] \in Seq(Taps) /\ coming[u] \in Seq(Taps)
  BY DEF TypeOK
<1>2. Range(win[u]) \subseteq Taps /\ Range(coming[u]) \subseteq Taps
  BY <1>1 DEF Range
<1> QED BY <1>1, <1>2 DEF Views

\* Views are closed, requests go on: every view still belongs to its user.
LEMMA ViewsFrame ==
    ASSUME ClaimsInv, \A u \in Users : Views(u)' \subseteq Views(u),
           \A s \in Taps : tap[s].cli # "idle" => tap'[s].cli # "idle" /\ tap'[s].u = tap[s].u
    PROVE  ViewsOwn'
<1> SUFFICES ASSUME NEW u \in Users, NEW t \in Views(u)'
             PROVE  tap'[t].cli # "idle" /\ tap'[t].u = u
  BY DEF ViewsOwn
<1>1. t \in Views(u) /\ t \in Taps
  BY ViewsType DEF ClaimsInv, BooksInv
<1>2. tap[t].cli # "idle" /\ tap[t].u = u
  BY <1>1 DEF ClaimsInv, ViewsOwn
<1> QED BY <1>1, <1>2

\* A packet that no request names yet is posted, kept or lost.
LEMMA PacketClaims ==
    ASSUME ClaimsInv, BooksInv', NEW p \in Packets, pkt[p].st # "open",
           \A q \in Packets : q # p => pkt'[q] = pkt[q],
           pkt'[p].left = pkt'[p].size, pkt'[p].balance # 0 \/ pkt'[p].left = 0,
           UNCHANGED <<taken, share, tap, win, coming, red, detail>>
    PROVE  ClaimsInv'
<1>1. SharesCounted'
  <2> SUFFICES ASSUME NEW q \in Packets
               PROVE  /\ Cardinality(taken[q]) + pkt'[q].left = pkt'[q].size
                      /\ \A u \in Users : (share[q][u] # 0) <=> (u \in taken[q])
                      /\ pkt'[q].left # 0 => pkt'[q].balance # 0
                      /\ pkt'[q].st # "open" => taken[q] = {}
    BY DEF SharesCounted
  <2>1. CASE q # p
    BY <2>1 DEF ClaimsInv, SharesCounted
  <2>2. CASE q = p
    <3>1. taken[p] = {} /\ \A u \in Users : (share[p][u] # 0) <=> (u \in taken[p])
      BY DEF ClaimsInv, SharesCounted
    <3>2. Cardinality(taken[p]) = 0
      BY <3>1, FS_EmptySet
    <3>3. pkt'[p].left \in Nat /\ pkt'[p].size \in Nat
      BY DEF BooksInv, TypeOK, PacketRecords
    <3> QED BY <2>2, <3>1, <3>2, <3>3
  <2> QED BY <2>1, <2>2
<1>2. \A t \in Taps : tap[t].status # "none" => tap[t].p \in Packets \ {p}
  BY DEF ClaimsInv, AnswersKept, BooksInv, RequestsOK
<1>3. \A u \in Users : detail[u].p # None => detail[u].p \in Packets \ {p}
  BY DEF ClaimsInv, DetailsFinal
<1>4. AnswersKept' /\ ViewsOwn' /\ SharesTold'
  BY DEF ClaimsInv, AnswersKept, ViewsOwn, Views, SharesTold
<1>5. DetailsFinal'
  BY <1>3 DEF ClaimsInv, DetailsFinal
<1>6. ClientToldTruth'
  BY <1>2 DEF ClaimsInv, ClientToldTruth
<1> QED BY <1>1, <1>4, <1>5, <1>6 DEF ClaimsInv

LEMMA SendClaims ==
    ASSUME ClaimsInv,
           \/ \E u, v \in Users, k \in Kinds : u # v /\ ViewDidLoad(u, v, k)
           \/ \E a \in Amounts, n \in Sizes \cup {0} : TextFieldDidChange(a, n)
           \/ \E p \in Packets : BeginSendRedMessage(p) \/ CreateRed(p) \/ SendFails(p)
    PROVE  ClaimsInv'
<1>1. BooksInv /\ BooksInv'
  BY SendSteps DEF ClaimsInv
<1>2. CASE UNCHANGED <<pkt, taken, share, tap, win, coming, red, detail>>
  BY <1>1, <1>2 DEF ClaimsInv, SharesCounted, AnswersKept, ViewsOwn, Views, DetailsFinal,
                    SharesTold, ClientToldTruth
<1>3. ASSUME NEW p \in Packets, BeginSendRedMessage(p) PROVE ClaimsInv'
  <2> DEFINE size == IF form.kind = "single" THEN 1 ELSE form.count
             total == Unit * form.amount
             new == [st |-> "posted", kind |-> form.kind, from |-> form.user,
                     to |-> form.to, total |-> total, size |-> size,
                     balance |-> total, left |-> size]
  <2>1. form.amount \in Nat /\ form.amount # 0
    BY <1>1, <1>3 DEF BeginSendRedMessage, BooksInv, FormOK, SendEnabled, TypeOK, Forms
  <2>2. total # 0
    BY <2>1
  <2> HIDE DEF size, total
  <2>3. /\ pkt' = [pkt EXCEPT ![p] = new] /\ pkt[p].st = "unsent"
        /\ UNCHANGED <<taken, share, tap, win, coming, red, detail>>
    BY <1>3 DEF BeginSendRedMessage, size, total
  <2>4. pkt'[p] = new /\ \A q \in Packets : q # p => pkt'[q] = pkt[q]
    BY <1>1, <2>3 DEF BooksInv, TypeOK
  <2>5. pkt'[p].left = pkt'[p].size /\ pkt'[p].balance # 0
    BY <2>2, <2>4
  <2>6. pkt[p].st # "open"
    BY <2>3
  <2> QED BY <1>1, <2>3, <2>4, <2>5, <2>6, PacketClaims
<1>4. ASSUME NEW p \in Packets, CreateRed(p) \/ SendFails(p) PROVE ClaimsInv'
  <2>1. PICK st \in {"open", "lost"} : pkt' = [pkt EXCEPT ![p].st = st]
    BY <1>4 DEF CreateRed, SendFails
  <2>2. /\ pkt[p].st = "posted" /\ pkt[p].st # "open"
        /\ UNCHANGED <<taken, share, tap, win, coming, red, detail>>
    BY <1>4 DEF CreateRed, SendFails
  <2>3. pkt \in [Packets -> PacketRecords] /\ pkt[p] \in PacketRecords
    BY <1>1 DEF BooksInv, TypeOK
  <2>4. /\ \A q \in Packets : q # p => pkt'[q] = pkt[q]
        /\ pkt'[p] = [pkt[p] EXCEPT !.st = st]
    BY <2>1, <2>3
  <2>5. /\ pkt'[p].left = pkt[p].left /\ pkt'[p].size = pkt[p].size
        /\ pkt'[p].balance = pkt[p].balance
    BY <2>3, <2>4, MovedPacket
  <2>6. Cardinality(taken[p]) = 0
    BY <2>2, FS_EmptySet DEF ClaimsInv, SharesCounted
  <2>7. pkt[p].left \in Nat /\ pkt[p].size \in Nat
    BY <2>3 DEF PacketRecords
  <2>8. pkt[p].left = pkt[p].size
    BY <2>6, <2>7 DEF ClaimsInv, SharesCounted
  <2>9. pkt'[p].balance # 0 \/ pkt'[p].left = 0
    BY <2>5 DEF ClaimsInv, SharesCounted
  <2> QED BY <1>1, <2>2, <2>4, <2>5, <2>8, <2>9, PacketClaims
<1>5. CASE \E u, v \in Users, k \in Kinds : u # v /\ ViewDidLoad(u, v, k)
  BY <1>2, <1>5 DEF ViewDidLoad
<1>6. CASE \E a \in Amounts, n \in Sizes \cup {0} : TextFieldDidChange(a, n)
  BY <1>2, <1>6 DEF TextFieldDidChange
<1> QED BY <1>3, <1>4, <1>5, <1>6

\* A request that was answered, or will never be: nothing but the request changes.
LEMMA TapClaims ==
    ASSUME ClaimsInv, BooksInv', NEW t \in Taps, tap[t].srv = "queued",
           \A s \in Taps : s # t => tap'[s] = tap[s],
           tap'[t].u = tap[t].u, tap'[t].p = tap[t].p, tap'[t].cli = tap[t].cli,
           tap'[t].srv = "served" <=> tap'[t].status # "none",
           tap'[t].status \in {"none", "5001", "5002"},
           tap'[t].status = "5001" => tap[t].u \in taken[tap[t].p],
           tap'[t].status = "5002" => /\ pkt[tap[t].p].left = 0
                                      /\ tap[t].u \notin taken[tap[t].p],
           UNCHANGED <<pkt, taken, share, win, coming, red, detail>>
    PROVE  ClaimsInv'
<1>1. tap[t].status = "none" /\ tap[t].cli \notin {"have", "no", "asking"}
  BY DEF ClaimsInv, AnswersKept
<1>2. SharesCounted' /\ DetailsFinal'
  BY DEF ClaimsInv, SharesCounted, DetailsFinal
<1>3. AnswersKept'
  BY <1>1 DEF ClaimsInv, AnswersKept
<1>4. ViewsOwn'
  BY ViewsFrame DEF Views
<1>5. SharesTold'
  BY <1>1 DEF ClaimsInv, SharesTold
<1>6. ClientToldTruth'
  BY <1>1 DEF ClaimsInv, ClientToldTruth
<1> QED BY <1>2, <1>3, <1>4, <1>5, <1>6 DEF ClaimsInv

\* A share is drawn: it is not zero, and the money left covers the shares left.
LEMMA DrawIsMoney ==
    ASSUME NEW b \in Nat, NEW n \in Nat, n # 0, b # 0,
           NEW money \in GenerateRedValue(b, n)
    PROVE  money \in Nat /\ money # 0 /\ b - money \in Nat /\ (n - 1 # 0 => b - money # 0)
<1>1. CASE n = 1
  BY <1>1 DEF GenerateRedValue
<1>2. CASE n # 1 /\ b >= n
  <2>1. money # 0
    BY <1>2 DEF GenerateRedValue
  <2> QED BY <1>2, <2>1, DrawLeavesEnough
<1>3. CASE n # 1 /\ b < n
  <2>1. b \div n = 0
    BY <1>3
  <2>2. GenerateRedValue(b, n) = {}
    BY <1>3, <2>1 DEF GenerateRedValue
  <2> QED BY <2>2
<1> QED BY <1>1, <1>2, <1>3

LEMMA GrantClaims ==
    ASSUME ClaimsInv, BooksInv', NEW t \in Taps, tap[t].srv = "queued",
           NEW p \in Packets, p = tap[t].p, NEW u \in Users, u = tap[t].u,
           pkt[p].st = "open", pkt[p].left # 0, u \notin taken[p],
           NEW money \in GenerateRedValue(pkt[p].balance, pkt[p].left),
           Grant(p, u, money), tap' = Answered(t, "200", money),
           UNCHANGED <<win, coming, red, detail>>
    PROVE  ClaimsInv'
<1> DEFINE b == pkt[p].balance
           n == pkt[p].left
<1>1. /\ pkt \in [Packets -> PacketRecords] /\ pkt[p] \in PacketRecords
      /\ taken \in [Packets -> SUBSET Users] /\ share \in [Packets -> [Users -> Nat]]
      /\ tap \in [Taps -> Requests]
  BY DEF ClaimsInv, BooksInv, TypeOK
<1>2. b \in Nat /\ n \in Nat /\ b # 0 /\ n # 0 /\ pkt[p].size \in Nat
  BY <1>1 DEF ClaimsInv, SharesCounted, PacketRecords
<1>3. money \in Nat /\ money # 0 /\ b - money \in Nat /\ (n - 1 # 0 => b - money # 0)
  BY <1>2, DrawIsMoney
<1>4. /\ pkt'[p].balance = b - money /\ pkt'[p].left = n - 1
      /\ pkt'[p].size = pkt[p].size /\ pkt'[p].st = pkt[p].st
      /\ \A q \in Packets : q # p => pkt'[q] = pkt[q]
  <2>1. n - 1 \in Nat
    BY <1>2
  <2>2. /\ Paid(pkt[p], money).size = pkt[p].size
        /\ Paid(pkt[p], money).balance = b - money
        /\ Paid(pkt[p], money).left = n - 1
        /\ Paid(pkt[p], money).st = pkt[p].st
    BY <1>1, <1>3, <2>1, PaidPacket, Zenon
  <2>3. pkt' = [pkt EXCEPT ![p] = Paid(@, money)]
    BY DEF Grant
  <2> QED BY <1>1, <2>2, <2>3
<1>5. /\ taken'[p] = taken[p] \cup {u}
      /\ \A q \in Packets : q # p => taken'[q] = taken[q]
  BY <1>1 DEF Grant
<1>6. /\ share'[p][u] = money
      /\ \A q \in Packets, v \in Users : q # p \/ v # u => share'[q][v] = share[q][v]
  BY <1>1 DEF Grant
<1>7. /\ \A s \in Taps : s # t => tap'[s] = tap[s]
      /\ tap'[t].u = u /\ tap'[t].p = p /\ tap'[t].srv = "served"
      /\ tap'[t].cli = tap[t].cli /\ tap'[t].status = "200" /\ tap'[t].amt = money
  BY <1>1, <1>3, AnsweredTap
<1>8. tap[t].status = "none" /\ tap[t].cli \notin {"have", "no", "asking"}
  BY DEF ClaimsInv, AnswersKept
\* The requests and pages of other users, and of this user for other packets.
<1>9. \A s \in Taps : s # t /\ tap[s].status # "none" =>
        tap[s].p \in Packets /\ tap[s].u \in Users
  BY DEF ClaimsInv, AnswersKept, BooksInv, RequestsOK
<1>10. SharesCounted'
  <2> SUFFICES ASSUME NEW q \in Packets
               PROVE  /\ Cardinality(taken'[q]) + pkt'[q].left = pkt'[q].size
                      /\ \A v \in Users : (share'[q][v] # 0) <=> (v \in taken'[q])
                      /\ pkt'[q].left # 0 => pkt'[q].balance # 0
                      /\ pkt'[q].st # "open" => taken'[q] = {}
    BY DEF SharesCounted
  <2>1. CASE q # p
    <3>1. /\ taken'[q] = taken[q] /\ pkt'[q] = pkt[q]
          /\ \A v \in Users : share'[q][v] = share[q][v]
      BY <2>1, <1>4, <1>5, <1>6
    <3> QED BY <3>1 DEF ClaimsInv, SharesCounted
  <2>2. CASE q = p
    <3>1. IsFiniteSet(taken[p])
      BY <1>1, UsersAssumption, FS_Subset
    <3>2. Cardinality(taken'[p]) = Cardinality(taken[p]) + 1 /\ Cardinality(taken[p]) \in Nat
      <4>1. Cardinality(taken[p]) \in Nat
        BY <3>1, FS_CardinalityType
      <4>2. Cardinality(taken[p] \cup {u}) = Cardinality(taken[p]) + 1
        BY <3>1, FS_AddElement
      <4> QED BY <1>5, <4>1, <4>2
    <3>3. Cardinality(taken[p]) + n = pkt[p].size
      BY DEF ClaimsInv, SharesCounted
    <3>4. Cardinality(taken'[p]) + pkt'[p].left = pkt'[p].size
      BY <1>2, <1>4, <3>2, <3>3
    <3>5. \A v \in Users : (share'[p][v] # 0) <=> (v \in taken'[p])
      BY <1>3, <1>5, <1>6 DEF ClaimsInv, SharesCounted
    <3>6. pkt'[p].left # 0 => pkt'[p].balance # 0
      BY <1>3, <1>4
    <3> QED BY <1>4, <2>2, <3>4, <3>5, <3>6
  <2> QED BY <2>1, <2>2
<1>11. AnswersKept'
  BY <1>7, <1>8 DEF ClaimsInv, AnswersKept
<1>12. ViewsOwn'
  BY <1>7, ViewsFrame DEF Views
<1>13. DetailsFinal'
  BY <1>4, <1>5 DEF ClaimsInv, DetailsFinal
<1>14. \A s \in Taps : s # t /\ tap[s].status = "200" =>
        /\ tap[s].p # p \/ tap[s].u # u
        /\ tap[s].u \in taken[tap[s].p] /\ share[tap[s].p][tap[s].u] = tap[s].amt
  BY DEF ClaimsInv, SharesTold
<1>15. SharesTold'
  <2>1. ASSUME NEW s \in Taps, tap'[s].status = "200"
        PROVE  /\ tap'[s].u \in taken'[tap'[s].p]
               /\ share'[tap'[s].p][tap'[s].u] = tap'[s].amt
    BY <2>1, <1>5, <1>6, <1>7, <1>9, <1>14
  <2> QED BY <2>1 DEF SharesTold
<1>16. ClientToldTruth'
  <2>1. ASSUME NEW s \in Taps, tap'[s].status = "5001"
        PROVE  tap'[s].u \in taken'[tap'[s].p]
    BY <2>1, <1>5, <1>7, <1>9 DEF ClaimsInv, ClientToldTruth
  <2>2. ASSUME NEW s \in Taps, tap'[s].status = "5002"
        PROVE  pkt'[tap'[s].p].left = 0 /\ tap'[s].u \notin taken'[tap'[s].p]
    <3>1. s # t /\ tap'[s] = tap[s] /\ tap[s].status = "5002"
      BY <2>2, <1>7
    <3>2. pkt[tap[s].p].left = 0 /\ tap[s].u \notin taken[tap[s].p]
      BY <3>1 DEF ClaimsInv, ClientToldTruth
    <3>3. tap[s].p \in Packets /\ tap[s].p # p
      BY <1>9, <3>1, <3>2
    <3> QED BY <1>4, <1>5, <3>1, <3>2, <3>3
  <2>3. ASSUME NEW v \in Users, detail[v].p # None
        PROVE  detail[v].amt = share'[detail[v].p][v]
    <3>1. /\ detail[v].p \in Packets
          /\ v \in taken[detail[v].p] \/ pkt[detail[v].p].left = 0
          /\ detail[v].amt = share[detail[v].p][v]
      BY <2>3 DEF ClaimsInv, DetailsFinal, ClientToldTruth
    <3>2. detail[v].p # p \/ v # u
      BY <3>1
    <3> QED BY <1>6, <3>1, <3>2
  <2> QED BY <2>1, <2>2, <2>3 DEF ClientToldTruth
<1> QED BY <1>10, <1>11, <1>12, <1>13, <1>15, <1>16 DEF ClaimsInv

LEMMA RecvClaims ==
    ASSUME ClaimsInv, NEW t \in Taps, RecvRed(t) \/ RequestLost(t)
    PROVE  ClaimsInv'
<1> DEFINE p == tap[t].p
           u == tap[t].u
<1>1. BooksInv /\ BooksInv'
  BY ServerSteps DEF ClaimsInv
<1>2. /\ tap[t].srv = "queued" /\ UNCHANGED <<win, coming, red, detail>>
      /\ tap \in [Taps -> Requests]
  BY <1>1 DEF RecvRed, RequestLost, BooksInv, TypeOK
<1>3. p \in Packets /\ u \in Users /\ pkt[p].st = "open"
  BY <1>1, <1>2 DEF BooksInv, RequestsOK
<1>4. tap[t].status = "none"
  BY <1>2 DEF ClaimsInv, AnswersKept
<1>5. ASSUME NEW v \in {"stuck", "lost"}, tap' = [tap EXCEPT ![t].srv = v],
             UNCHANGED <<pkt, taken, share>>
      PROVE  ClaimsInv'
  <2>1. /\ \A s \in Taps : s # t => tap'[s] = tap[s]
        /\ tap'[t].u = tap[t].u /\ tap'[t].p = tap[t].p
        /\ tap'[t].srv = v /\ tap'[t].cli = tap[t].cli
        /\ tap'[t].status = "none"
    BY <1>2, <1>4, <1>5, EndedTap
  <2>2. tap'[t].srv # "served"
    BY <2>1
  <2> QED BY <1>1, <1>2, <1>5, <2>1, <2>2, TapClaims
<1>6. ASSUME NEW status \in {"5001", "5002"}, tap' = Answered(t, status, 0),
             status = "5001" => u \in taken[p],
             status = "5002" => pkt[p].left = 0 /\ u \notin taken[p],
             UNCHANGED <<pkt, taken, share>>
      PROVE  ClaimsInv'
  <2>1. status \in {"200", "5001", "5002"} /\ 0 \in Nat
    OBVIOUS
  <2>2. /\ \A s \in Taps : s # t => tap'[s] = tap[s]
        /\ tap'[t].u = tap[t].u /\ tap'[t].p = tap[t].p
        /\ tap'[t].srv = "served" /\ tap'[t].cli = tap[t].cli
        /\ tap'[t].status = status
    BY <1>2, <1>6, <2>1, AnsweredTap
  <2> QED BY <1>1, <1>2, <1>6, <2>2, TapClaims
<1>7. CASE RequestLost(t)
  BY <1>5, <1>7 DEF RequestLost
<1>8. CASE RecvRed(t)
  <2>1. CASE u \in taken[p] /\ tap' = Answered(t, "5001", 0) /\ UNCHANGED <<pkt, taken, share>>
    BY <1>6, <2>1
  <2>2. CASE /\ u \notin taken[p] /\ pkt[p].left = 0
             /\ tap' = Answered(t, "5002", 0) /\ UNCHANGED <<pkt, taken, share>>
    BY <1>6, <2>2
  <2>3. CASE /\ u \notin taken[p] /\ pkt[p].left # 0
             /\ \E money \in GenerateRedValue(pkt[p].balance, pkt[p].left) :
                   Grant(p, u, money) /\ tap' = Answered(t, "200", money)
    BY <1>1, <1>2, <1>3, <2>3, GrantClaims
  <2>4. CASE tap' = [tap EXCEPT ![t].srv = "stuck"] /\ UNCHANGED <<pkt, taken, share>>
    BY <1>5, <2>4
  <2> QED BY <1>8, <2>1, <2>2, <2>3, <2>4, Zenon DEF RecvRed, AlreadyClaimed
<1> QED BY <1>7, <1>8

\* A view is closed, or the screen stays as it is.
LEMMA ClosedView ==
    ASSUME ClaimsInv, NEW u \in Users, NEW t, win' = [win EXCEPT ![u] = Without(@, t)], UNCHANGED coming
    PROVE  \A v \in Users : Views(v)' \subseteq Views(v)
<1> SUFFICES ASSUME NEW v \in Users PROVE Range(win'[v]) \subseteq Range(win[v])
  BY DEF Views
<1>1. win \in [Users -> Seq(Taps)]
  BY DEF ClaimsInv, BooksInv, TypeOK
<1>2. CASE v # u
  BY <1>1, <1>2
<1>3. CASE v = u
  <2>1. win'[u] = Without(win[u], t) /\ win[u] \in Seq(Taps)
    BY <1>1
  <2>2. \A i \in DOMAIN Without(win[u], t) : \E j \in DOMAIN win[u] : Without(win[u], t)[i] = win[u][j]
    BY <2>1, WithoutRange
  <2> QED BY <1>3, <2>1, <2>2 DEF Range
<1> QED BY <1>2, <1>3

\* The view on top of a screen belongs to a request of that user.
LEMMA TopOwn ==
    ASSUME ClaimsInv, NEW u \in Users, win[u] # <<>>
    PROVE  Top(u) \in Taps /\ tap[Top(u)].cli # "idle" /\ tap[Top(u)].u = u
<1>1. win[u] \in Seq(Taps)
  BY DEF ClaimsInv, BooksInv, TypeOK
<1>2. Len(win[u]) \in DOMAIN win[u] /\ win[u][Len(win[u])] \in Taps
  BY <1>1
<1>3. Top(u) = win[u][Len(win[u])]
  BY DEF Top, Last
<1>4. Top(u) \in Views(u)
  BY <1>2, <1>3 DEF Views, Range
<1> QED BY <1>2, <1>3, <1>4 DEF ClaimsInv, ViewsOwn

\* A page of details shows a share that is final.
LEMMA DetailShown ==
    ASSUME ClaimsInv, NEW t \in Taps, tap[t].status # "none"
    PROVE  /\ tap[t].u \in Users /\ tap[t].p \in Packets /\ pkt[tap[t].p].st = "open"
           /\ tap[t].u \in taken[tap[t].p] \/ pkt[tap[t].p].left = 0
           /\ tap[t].status = "200" => share[tap[t].p][tap[t].u] = tap[t].amt
<1>1. tap[t].srv # "none" /\ tap[t].status \in {"200", "5001", "5002"}
  BY DEF ClaimsInv, AnswersKept, BooksInv, TypeOK, Requests
<1>2. tap[t].u \in Users /\ tap[t].p \in Packets /\ pkt[tap[t].p].st = "open"
  BY <1>1 DEF ClaimsInv, BooksInv, RequestsOK
<1> QED BY <1>1, <1>2 DEF ClaimsInv, SharesTold, ClientToldTruth

\* What the clients do with their requests: the server's side of them stays, and
\* a page opened shows the recorded share of an answered request.
LEMMA ClientFrame ==
    ASSUME ClaimsInv, BooksInv', ViewsOwn', UNCHANGED <<pkt, taken, share>>,
           \A s \in Taps :
              /\ tap'[s].u = tap[s].u /\ tap'[s].p = tap[s].p /\ tap'[s].srv = tap[s].srv
              /\ tap'[s].status = tap[s].status /\ tap'[s].amt = tap[s].amt
              /\ \/ tap'[s].cli = tap[s].cli
                 \/ tap'[s].cli \in {"failed", "closed"}
                 \/ tap'[s].cli = "have" /\ tap[s].status = "200"
                 \/ tap'[s].cli \in {"no", "asking"} /\ tap[s].status \in {"5001", "5002"},
           \A v \in Users :
              \/ detail'[v] = detail[v]
              \/ \E s \in Taps : /\ tap[s].status # "none" /\ tap[s].u = v
                                 /\ detail'[v].p = tap[s].p
                                 /\ detail'[v].amt = share[tap[s].p][v]
    PROVE  ClaimsInv'
<1>1. \A v \in Users : detail'[v].p # None =>
        /\ detail'[v].p \in Packets /\ pkt[detail'[v].p].st = "open"
        /\ v \in taken[detail'[v].p] \/ pkt[detail'[v].p].left = 0
        /\ detail'[v].amt = share[detail'[v].p][v]
  <2> SUFFICES ASSUME NEW v \in Users, detail'[v].p # None
               PROVE  /\ detail'[v].p \in Packets /\ pkt[detail'[v].p].st = "open"
                      /\ v \in taken[detail'[v].p] \/ pkt[detail'[v].p].left = 0
                      /\ detail'[v].amt = share[detail'[v].p][v]
    OBVIOUS
  <2>1. CASE detail'[v] = detail[v]
    BY <2>1 DEF ClaimsInv, DetailsFinal, ClientToldTruth
  <2>2. ASSUME NEW s \in Taps, tap[s].status # "none", tap[s].u = v,
               detail'[v].p = tap[s].p, detail'[v].amt = share[tap[s].p][v]
        PROVE  /\ detail'[v].p \in Packets /\ pkt[detail'[v].p].st = "open"
               /\ v \in taken[detail'[v].p] \/ pkt[detail'[v].p].left = 0
               /\ detail'[v].amt = share[detail'[v].p][v]
    BY <2>2, DetailShown
  <2> QED BY <2>1, <2>2
<1>2. SharesCounted' /\ SharesTold' /\ ClientToldTruth'
  BY <1>1, AnswersFrame
<1>3. DetailsFinal'
  BY <1>1 DEF DetailsFinal
<1>4. AnswersKept'
  BY DEF ClaimsInv, AnswersKept
<1> QED BY <1>2, <1>3, <1>4 DEF ClaimsInv

\* What a step of one request leaves of all of them.
LEMMA MovedAll ==
    ASSUME ClaimsInv, NEW t \in Taps, NEW c \in {"have", "no", "failed", "asking", "closed"},
           tap' = [tap EXCEPT ![t].cli = c],
           c = "have" => tap[t].status = "200",
           c \in {"no", "asking"} => tap[t].status \in {"5001", "5002"}
    PROVE  /\ \A s \in Taps :
              /\ tap'[s].u = tap[s].u /\ tap'[s].p = tap[s].p /\ tap'[s].srv = tap[s].srv
              /\ tap'[s].status = tap[s].status /\ tap'[s].amt = tap[s].amt
              /\ \/ tap'[s].cli = tap[s].cli
                 \/ tap'[s].cli \in {"failed", "closed"}
                 \/ tap'[s].cli = "have" /\ tap[s].status = "200"
                 \/ tap'[s].cli \in {"no", "asking"} /\ tap[s].status \in {"5001", "5002"}
           /\ tap'[t].cli = c /\ tap'[t].cli # "idle"
           /\ \A s \in Taps : s # t => tap'[s] = tap[s]
<1>1. /\ \A s \in Taps : s # t => tap'[s] = tap[s]
      /\ tap'[t].u = tap[t].u /\ tap'[t].p = tap[t].p
      /\ tap'[t].srv = tap[t].srv /\ tap'[t].cli = c
      /\ tap'[t].status = tap[t].status /\ tap'[t].amt = tap[t].amt
  BY MovedTap DEF ClaimsInv, BooksInv, TypeOK
<1>2. c # "idle"
  OBVIOUS
<1> QED BY <1>1, <1>2

\* The message is tapped: a request without an answer.
LEMMA TapStep ==
    ASSUME ClaimsInv, NEW t \in Taps, NEW u \in Users, NEW p \in Packets,
           DidTapMessageCell(t, u, p)
    PROVE  ClaimsInv'
<1>1. BooksInv /\ BooksInv'
  BY ClientSteps DEF ClaimsInv
<1> DEFINE new == [cli |-> "waiting", srv |-> "queued", u |-> u, p |-> p,
                   status |-> "none", amt |-> 0]
<1>2. /\ tap' = [tap EXCEPT ![t] = new] /\ tap[t].cli = "idle"
      /\ UNCHANGED <<pkt, taken, share, win, coming, red, detail>>
  BY DEF DidTapMessageCell
<1>3. tap'[t] = new /\ \A s \in Taps : s # t => tap'[s] = tap[s]
  BY <1>1, <1>2 DEF BooksInv, TypeOK
<1>4. /\ tap'[t].status = "none" /\ tap'[t].cli = "waiting" /\ tap'[t].srv = "queued"
  BY <1>3
<1>5. \A v \in Users : detail'[v].p # None => detail'[v].amt = share[detail'[v].p][v]
  BY <1>2 DEF ClaimsInv, ClientToldTruth
<1>6. SharesCounted' /\ SharesTold' /\ ClientToldTruth'
  <2>1. \A s \in Taps : \/ tap'[s].status = "none"
                        \/ /\ tap'[s].status = tap[s].status
                           /\ tap'[s].amt = tap[s].amt
                           /\ tap'[s].u = tap[s].u /\ tap'[s].p = tap[s].p
    BY <1>3, <1>4
  <2> QED BY <1>2, <1>5, <2>1, AnswersFrame
<1>7. DetailsFinal'
  BY <1>2 DEF ClaimsInv, DetailsFinal
<1>8. AnswersKept'
  BY <1>3, <1>4 DEF ClaimsInv, AnswersKept
<1>9. ViewsOwn'
  <2>1. \A s \in Taps : tap[s].cli # "idle" => tap'[s].cli # "idle" /\ tap'[s].u = tap[s].u
    BY <1>2, <1>3
  <2>2. \A v \in Users : Views(v)' \subseteq Views(v)
    BY <1>2 DEF Views
  <2> QED BY <2>1, <2>2, ViewsFrame
<1> QED BY <1>1, <1>6, <1>7, <1>8, <1>9 DEF ClaimsInv

LEMMA AppendRange ==
    ASSUME NEW S, NEW s \in Seq(S), NEW t \in S
    PROVE  Range(Append(s, t)) = Range(s) \cup {t}
<1>1. /\ Append(s, t) \in Seq(S) /\ Len(Append(s, t)) = Len(s) + 1
      /\ \A k \in 1 .. Len(s) : Append(s, t)[k] = s[k]
      /\ Append(s, t)[Len(s) + 1] = t
  BY AppendProperties
<1>2. DOMAIN s = 1 .. Len(s) /\ DOMAIN Append(s, t) = 1 .. Len(s) + 1 /\ Len(s) \in Nat
  BY <1>1
<1>3. DOMAIN Append(s, t) = DOMAIN s \cup {Len(s) + 1}
  BY <1>2
<1> QED BY <1>1, <1>2, <1>3 DEF Range

LEMMA HeadTailRange ==
    ASSUME NEW S, NEW s \in Seq(S), s # <<>>
    PROVE  Head(s) \in Range(s) /\ Range(Tail(s)) \subseteq Range(s)
<1>1. Len(s) \in Nat /\ Len(s) # 0 /\ DOMAIN s = 1 .. Len(s)
  BY EmptySeq, LenProperties
<1>2. Head(s) = s[1] /\ 1 \in DOMAIN s
  BY <1>1
<1>3. /\ Tail(s) \in Seq(S) /\ Len(Tail(s)) = Len(s) - 1
      /\ \A i \in 1 .. Len(Tail(s)) : Tail(s)[i] = s[i + 1]
  BY HeadTailProperties
<1>4. DOMAIN Tail(s) = 1 .. Len(s) - 1 /\ \A i \in 1 .. Len(s) - 1 : i + 1 \in DOMAIN s
  BY <1>1, <1>3
<1> QED BY <1>1, <1>2, <1>3, <1>4 DEF Range

\* An answer gets a view of its own.
LEMMA ShowStep ==
    ASSUME ClaimsInv, NEW t \in Taps, ShowAnswer(t)
    PROVE  ClaimsInv'
<1> DEFINE u == tap[t].u
           c == IF tap[t].status = "200" THEN "have" ELSE "no"
<1>1. BooksInv /\ BooksInv'
  BY ClientSteps DEF ClaimsInv
<1>2. /\ tap[t].status # "none" /\ u \in Users /\ tap[t].cli = "waiting"
      /\ tap[t].status \in {"200", "5001", "5002"}
  BY <1>1, DetailShown DEF ShowAnswer, ClaimsInv, AnswersKept, BooksInv, TypeOK, Requests
<1>3. /\ tap' = [tap EXCEPT ![t].cli = c]
      /\ coming' = [coming EXCEPT ![u] = Append(@, t)]
      /\ UNCHANGED <<pkt, taken, share, win, detail>>
  BY DEF ShowAnswer
<1>4. /\ c \in {"have", "no"} /\ c \in {"have", "no", "failed", "asking", "closed"}
      /\ c = "have" => tap[t].status = "200"
      /\ c \in {"no", "asking"} => tap[t].status \in {"5001", "5002"}
  BY <1>2
<1> HIDE DEF c
<1>5. /\ \A s \in Taps :
              /\ tap'[s].u = tap[s].u /\ tap'[s].p = tap[s].p /\ tap'[s].srv = tap[s].srv
              /\ tap'[s].status = tap[s].status /\ tap'[s].amt = tap[s].amt
              /\ \/ tap'[s].cli = tap[s].cli
                 \/ tap'[s].cli \in {"failed", "closed"}
                 \/ tap'[s].cli = "have" /\ tap[s].status = "200"
                 \/ tap'[s].cli \in {"no", "asking"} /\ tap[s].status \in {"5001", "5002"}
      /\ tap'[t].cli # "idle"
      /\ \A s \in Taps : s # t => tap'[s] = tap[s]
  BY <1>3, <1>4, MovedAll
<1>6. ViewsOwn'
  <2> SUFFICES ASSUME NEW v \in Users, NEW s \in Views(v)'
               PROVE  tap'[s].cli # "idle" /\ tap'[s].u = v
    BY DEF ViewsOwn
  <2>1. coming \in [Users -> Seq(Taps)] /\ Views(v) \subseteq Taps
    BY <1>1, ViewsType DEF BooksInv, TypeOK
  <2>2. \A r \in Taps : tap[r].cli # "idle" => tap'[r].cli # "idle" /\ tap'[r].u = tap[r].u
    BY <1>5
  <2>3. CASE s \in Views(v)
    <3>1. tap[s].cli # "idle" /\ tap[s].u = v /\ s \in Taps
      BY <2>1, <2>3 DEF ClaimsInv, ViewsOwn
    <3> QED BY <2>2, <3>1
  <2>4. CASE v = u /\ s = t
    BY <2>4, <1>5
  <2>5. s \in Views(v) \/ (v = u /\ s = t)
    <3>1. Range(coming'[v]) \subseteq Range(coming[v]) \cup (IF v = u THEN {t} ELSE {})
      <4>1. CASE v # u
        BY <1>3, <2>1, <4>1
      <4>2. CASE v = u
        <5>1. coming'[u] = Append(coming[u], t) /\ coming[u] \in Seq(Taps)
          BY <1>2, <1>3, <2>1
        <5> QED BY <4>2, <5>1, AppendRange
      <4> QED BY <4>1, <4>2
    <3>2. win'[v] = win[v]
      BY <1>3
    <3> QED BY <3>1, <3>2 DEF Views
  <2> QED BY <2>3, <2>4, <2>5
<1> QED BY <1>1, <1>3, <1>5, <1>6, ClientFrame

\* And the view comes to the screen.
LEMMA ShareviewStep ==
    ASSUME ClaimsInv, NEW u \in Users, ShareviewShow(u)
    PROVE  ClaimsInv'
<1>1. BooksInv /\ BooksInv'
  BY ClientSteps DEF ClaimsInv
<1>2. /\ coming[u] # <<>> /\ UNCHANGED <<pkt, taken, share, tap, detail>>
      /\ win' = [win EXCEPT ![u] = Append(@, Head(coming[u]))]
      /\ coming' = [coming EXCEPT ![u] = Tail(@)]
  BY DEF ShareviewShow
<1>3. \A v \in Users : Views(v)' \subseteq Views(v)
  <2> SUFFICES ASSUME NEW v \in Users PROVE Views(v)' \subseteq Views(v)
    OBVIOUS
  <2>1. win \in [Users -> Seq(Taps)] /\ coming \in [Users -> Seq(Taps)]
    BY <1>1 DEF BooksInv, TypeOK
  <2>2. CASE v # u
    BY <1>2, <2>1, <2>2 DEF Views
  <2>3. CASE v = u
    <3>1. /\ win'[u] = Append(win[u], Head(coming[u])) /\ coming'[u] = Tail(coming[u])
          /\ win[u] \in Seq(Taps) /\ coming[u] \in Seq(Taps)
      BY <1>2, <2>1
    <3>2. Head(coming[u]) \in Range(coming[u]) /\ Range(Tail(coming[u])) \subseteq Range(coming[u])
      BY <1>2, <3>1, HeadTailRange
    <3>3. Range(Append(win[u], Head(coming[u]))) = Range(win[u]) \cup {Head(coming[u])}
      <4>1. Head(coming[u]) \in Taps
        BY <1>2, <3>1, HeadTailProperties
      <4> QED BY <3>1, <4>1, AppendRange
    <3> QED BY <2>3, <3>1, <3>2, <3>3 DEF Views
  <2> QED BY <2>2, <2>3
<1>4. ViewsOwn'
  BY <1>2, <1>3, ViewsFrame
<1> QED BY <1>1, <1>2, <1>4, ClientFrame

\* A request fails at the client, or the details of one without a share arrive.
LEMMA EndStep ==
    ASSUME ClaimsInv, NEW t \in Taps, ClaimFails(t) \/ ReceiveRedMessage(t)
    PROVE  ClaimsInv'
<1> DEFINE u == tap[t].u
<1>1. BooksInv /\ BooksInv'
  BY ClientSteps DEF ClaimsInv
<1>2. PICK c \in {"failed", "closed"} : tap' = [tap EXCEPT ![t].cli = c]
  BY DEF ClaimFails, ReceiveRedMessage
<1>3. c \in {"have", "no", "failed", "asking", "closed"} /\ c \notin {"have", "no", "asking"}
  BY <1>2
<1>4. \A s \in Taps :
        /\ tap'[s].u = tap[s].u /\ tap'[s].p = tap[s].p /\ tap'[s].srv = tap[s].srv
        /\ tap'[s].status = tap[s].status /\ tap'[s].amt = tap[s].amt
        /\ \/ tap'[s].cli = tap[s].cli
           \/ tap'[s].cli \in {"failed", "closed"}
           \/ tap'[s].cli = "have" /\ tap[s].status = "200"
           \/ tap'[s].cli \in {"no", "asking"} /\ tap[s].status \in {"5001", "5002"}
  BY <1>2, <1>3, MovedAll
<1>5. \A s \in Taps : tap[s].cli # "idle" => tap'[s].cli # "idle" /\ tap'[s].u = tap[s].u
  BY <1>4
<1>6. CASE UNCHANGED <<win, coming, detail>>
  <2>1. UNCHANGED <<pkt, taken, share>>
    BY DEF ClaimFails, ReceiveRedMessage
  <2>2. ViewsOwn'
    BY <1>5, <1>6, ViewsFrame DEF Views
  <2> QED BY <1>1, <1>4, <1>6, <2>1, <2>2, ClientFrame
<1>7. CASE /\ tap[t].cli = "asking" /\ UNCHANGED <<pkt, taken, share, coming>>
           /\ PushRedMessageView(u, tap[t].p, share[tap[t].p][u])
  <2>1. tap[t].status # "none" /\ u \in Users
    BY <1>7, DetailShown DEF ClaimsInv, AnswersKept
  <2>2. /\ win' = [win EXCEPT ![u] = Without(@, red[u])]
        /\ detail' = [detail EXCEPT ![u] = [p |-> tap[t].p, amt |-> share[tap[t].p][u]]]
    BY <1>7 DEF PushRedMessageView
  <2>3. ViewsOwn'
    BY <1>5, <1>7, <2>1, <2>2, ClosedView, ViewsFrame
  <2>4. \A v \in Users : v # u => detail'[v] = detail[v]
    BY <1>1, <2>2 DEF BooksInv, TypeOK
  <2>5. detail'[u].p = tap[t].p /\ detail'[u].amt = share[tap[t].p][u]
    BY <1>1, <2>1, <2>2 DEF BooksInv, TypeOK
  <2>6. \A v \in Users :
          \/ detail'[v] = detail[v]
          \/ \E s \in Taps : /\ tap[s].status # "none" /\ tap[s].u = v
                             /\ detail'[v].p = tap[s].p
                             /\ detail'[v].amt = share[tap[s].p][v]
    BY <2>1, <2>4, <2>5
  <2> QED BY <1>1, <1>4, <1>7, <2>3, <2>6, ClientFrame
<1> QED BY <1>6, <1>7 DEF ClaimFails, ReceiveRedMessage

\* A view is opened, turned into a question or closed by its user.
LEMMA ViewStep ==
    ASSUME ClaimsInv, NEW u \in Users, OpenRed(u) \/ ChectRedMessage(u) \/ CanleClick(u)
    PROVE  ClaimsInv'
<1>1. BooksInv /\ BooksInv'
  BY ClientSteps DEF ClaimsInv
<1>2. /\ UNCHANGED <<pkt, taken, share, coming>> /\ win[u] # <<>>
      /\ \E t : win' = [win EXCEPT ![u] = Without(@, t)]
  BY DEF OpenRed, ChectRedMessage, CanleClick, PushRedMessageView
<1>3. Top(u) \in Taps /\ tap[Top(u)].cli # "idle" /\ tap[Top(u)].u = u
  BY <1>2, TopOwn
<1>4. ASSUME \A s \in Taps :
               /\ tap'[s].u = tap[s].u /\ tap'[s].p = tap[s].p /\ tap'[s].srv = tap[s].srv
               /\ tap'[s].status = tap[s].status /\ tap'[s].amt = tap[s].amt
               /\ \/ tap'[s].cli = tap[s].cli
                  \/ tap'[s].cli \in {"failed", "closed"}
                  \/ tap'[s].cli = "have" /\ tap[s].status = "200"
                  \/ tap'[s].cli \in {"no", "asking"} /\ tap[s].status \in {"5001", "5002"},
             \A v \in Users :
               \/ detail'[v] = detail[v]
               \/ \E s \in Taps : /\ tap[s].status # "none" /\ tap[s].u = v
                                  /\ detail'[v].p = tap[s].p
                                  /\ detail'[v].amt = share[tap[s].p][v]
      PROVE  ClaimsInv'
  <2>1. \A s \in Taps : tap[s].cli # "idle" => tap'[s].cli # "idle" /\ tap'[s].u = tap[s].u
    BY <1>4
  <2>2. \A v \in Users : Views(v)' \subseteq Views(v)
    BY <1>2, ClosedView
  <2>3. ViewsOwn'
    BY <2>1, <2>2, ViewsFrame
  <2> QED BY <1>1, <1>2, <1>4, <2>3, ClientFrame
<1>5. CASE OpenRed(u)
  <2> DEFINE t == Top(u)
  <2>1. /\ tap[t].cli = "have" /\ UNCHANGED tap
        /\ detail' = [detail EXCEPT ![u] = [p |-> tap[t].p, amt |-> tap[t].amt]]
    BY <1>5 DEF OpenRed, PushRedMessageView
  <2>2. tap[t].status = "200"
    BY <1>3, <2>1 DEF ClaimsInv, AnswersKept
  <2>3. tap[t].amt = share[tap[t].p][u]
    BY <1>3, <2>2, DetailShown
  <2>4. /\ \A v \in Users : v # u => detail'[v] = detail[v]
        /\ detail'[u].p = tap[t].p /\ detail'[u].amt = tap[t].amt
    BY <1>1, <2>1 DEF BooksInv, TypeOK
  <2> HIDE DEF t
  <2>5. t \in Taps /\ tap[t].status # "none" /\ tap[t].u = u
    BY <1>3, <2>2 DEF t
  <2>6. \A v \in Users :
          \/ detail'[v] = detail[v]
          \/ \E s \in Taps : /\ tap[s].status # "none" /\ tap[s].u = v
                             /\ detail'[v].p = tap[s].p
                             /\ detail'[v].amt = share[tap[s].p][v]
    BY <2>3, <2>4, <2>5
  <2> QED BY <1>4, <2>1, <2>6
<1>6. CASE ChectRedMessage(u)
  <2>1. /\ tap[Top(u)].cli = "no" /\ tap' = [tap EXCEPT ![Top(u)].cli = "asking"]
        /\ UNCHANGED detail
    BY <1>6 DEF ChectRedMessage
  <2>2. tap[Top(u)].status \in {"5001", "5002"}
    BY <1>3, <2>1 DEF ClaimsInv, AnswersKept
  <2>3. "asking" \in {"have", "no", "failed", "asking", "closed"} /\ "asking" # "have"
    OBVIOUS
  <2>4. \A s \in Taps :
          /\ tap'[s].u = tap[s].u /\ tap'[s].p = tap[s].p /\ tap'[s].srv = tap[s].srv
          /\ tap'[s].status = tap[s].status /\ tap'[s].amt = tap[s].amt
          /\ \/ tap'[s].cli = tap[s].cli
             \/ tap'[s].cli \in {"failed", "closed"}
             \/ tap'[s].cli = "have" /\ tap[s].status = "200"
             \/ tap'[s].cli \in {"no", "asking"} /\ tap[s].status \in {"5001", "5002"}
    BY <1>3, <2>1, <2>2, <2>3, MovedAll
  <2> QED BY <1>4, <2>1, <2>4
<1>7. CASE CanleClick(u)
  <2>1. UNCHANGED <<tap, detail>>
    BY <1>7 DEF CanleClick
  <2> QED BY <1>4, <2>1
<1> QED BY <1>5, <1>6, <1>7

LEMMA StutterClaims == ClaimsInv /\ UNCHANGED vars => ClaimsInv'
<1> SUFFICES ASSUME ClaimsInv, UNCHANGED vars PROVE ClaimsInv'
  OBVIOUS
<1>1. BooksInv'
  BY StutterBooks DEF ClaimsInv
<1>2. SharesCounted' /\ AnswersKept' /\ ViewsOwn'
  BY DEF ClaimsInv, vars, SharesCounted, AnswersKept, ViewsOwn, Views
<1>3. DetailsFinal' /\ SharesTold' /\ ClientToldTruth'
  BY DEF ClaimsInv, vars, DetailsFinal, SharesTold, ClientToldTruth
<1> QED BY <1>1, <1>2, <1>3 DEF ClaimsInv

LEMMA NextClaims == ClaimsInv /\ [Next]_vars => ClaimsInv'
  BY SendClaims, RecvClaims, TapStep, ShowStep, ShareviewStep, EndStep, ViewStep, StutterClaims DEF Next

THEOREM ClaimsInvariant == Spec => []ClaimsInv
  BY InitClaims, NextClaims, PTL DEF Spec

\* What a client told its user never becomes false: a "5001", a "5002" and the
\* amount on a page of details hold in every later state.
THEOREM ToldTruth == Spec => []ClientToldTruth
  BY ClaimsInvariant, PTL DEF ClaimsInv

----------------------------------------------------------------------------
(***************************************************************************)
(* The screens.  That no view is taken from under another one follows from  *)
(* where self.red can be: the latest answer is the last view of those on    *)
(* the screen followed by those on their way, or is gone already.           *)
(***************************************************************************)

\* No view is twice on the screen w and on its way in c, and r is none of them or
\* the last one.
Stacked(w, c, r) ==
    /\ \A i, j \in DOMAIN w : w[i] = w[j] => i = j
    /\ \A i, j \in DOMAIN c : c[i] = c[j] => i = j
    /\ \A i \in DOMAIN w, j \in DOMAIN c : w[i] # c[j]
    /\ \A i \in DOMAIN w : w[i] = r => i = Len(w) /\ c = <<>>
    /\ \A i \in DOMAIN c : c[i] = r => i = Len(c)

\* The inductive invariant of the screens, on top of ClaimsInv.
ViewsInv ==
    \A u \in Users : /\ Stacked(win[u], coming[u], red[u])
                     /\ \A t \in Views(u) : tap[t].cli # "waiting"

\* What ViewsStack allows a step to do to the screen of u.
StackStep(u) ==
    \/ win'[u] = win[u]
    \/ \E t \in Taps : win'[u] = Append(win[u], t)
    \/ win[u] # <<>> /\ win'[u] = Front(win[u])

LEMMA FrontIs ==
    ASSUME NEW S, NEW s \in Seq(S), s # <<>>
    PROVE  /\ Front(s) \in Seq(S) /\ Len(Front(s)) = Len(s) - 1 /\ Len(s) \in Nat \ {0}
           /\ DOMAIN s = 1 .. Len(s) /\ DOMAIN Front(s) = 1 .. Len(s) - 1
           /\ \A i \in 1 .. Len(s) - 1 : Front(s)[i] = s[i]
<1>1. Len(s) \in Nat /\ Len(s) # 0 /\ DOMAIN s = 1 .. Len(s)
  BY EmptySeq, LenProperties
<1>2. Len(s) - 1 \in Nat /\ \A i \in 1 .. Len(s) - 1 : s[i] \in S
  BY <1>1
<1>3. /\ SubSeq(s, 1, Len(s) - 1) \in Seq(S)
      /\ Len(SubSeq(s, 1, Len(s) - 1)) = IF 1 <= Len(s) - 1 THEN Len(s) - 1 - 1 + 1 ELSE 0
      /\ \A i \in 1 .. Len(s) - 1 - 1 + 1 : SubSeq(s, 1, Len(s) - 1)[i] = s[1 + i - 1]
  BY <1>1, <1>2, SubSeqProperties
<1> DEFINE f == SubSeq(s, 1, Len(s) - 1)
<1>4. Front(s) = f
  BY DEF Front
<1>5. Len(f) = Len(s) - 1
  BY <1>1, <1>3
<1>6. \A i \in 1 .. Len(s) - 1 : f[i] = s[i]
  <2> SUFFICES ASSUME NEW i \in 1 .. Len(s) - 1 PROVE f[i] = s[i]
    OBVIOUS
  <2>1. i \in 1 .. Len(s) - 1 - 1 + 1 /\ 1 + i - 1 = i
    BY <1>1
  <2> QED BY <1>3, <2>1
<1>7. DOMAIN f = 1 .. Len(f)
  BY <1>3
<1> HIDE DEF f
<1> QED BY <1>1, <1>3, <1>4, <1>5, <1>6, <1>7 DEF f

\* Closing the view that is only at the last place takes the top of the stack.
LEMMA WithoutLast ==
    ASSUME NEW S, NEW s \in Seq(S), s # <<>>, NEW t, s[Len(s)] = t,
           \A i \in DOMAIN s : s[i] = t => i = Len(s)
    PROVE  Without(s, t) = Front(s)
<1>1. Len(s) \in Nat \ {0} /\ Len(s) \in DOMAIN s
  BY FrontIs
<1>2. (CHOOSE i \in DOMAIN s : s[i] = t) = Len(s)
  BY <1>1
<1>3. Without(s, t) = SubSeq(s, 1, Len(s) - 1) \o SubSeq(s, Len(s) + 1, Len(s))
  BY <1>1, <1>2 DEF Without, RemoveAt
<1>4. SubSeq(s, Len(s) + 1, Len(s)) = <<>>
  BY <1>1
<1>5. SubSeq(s, 1, Len(s) - 1) \in Seq(S)
  BY FrontIs DEF Front
<1> QED BY <1>3, <1>4, <1>5, ConcatEmptySeq DEF Front

\* Closing self.red closes the top of the stack or nothing.
LEMMA ClosingRed ==
    ASSUME NEW S, NEW w \in Seq(S), NEW c, NEW r, Stacked(w, c, r)
    PROVE  Without(w, r) = w \/ (w # <<>> /\ Without(w, r) = Front(w))
<1>1. CASE ~ \E i \in DOMAIN w : w[i] = r
  BY <1>1 DEF Without
<1>2. CASE \E i \in DOMAIN w : w[i] = r
  <2>1. PICK i \in DOMAIN w : w[i] = r
    BY <1>2
  <2>2. w # <<>>
    BY <2>1
  <2>3. \A j \in DOMAIN w : w[j] = r => j = Len(w)
    BY DEF Stacked
  <2>4. w[Len(w)] = r
    BY <2>1, <2>3
  <2> QED BY <2>2, <2>3, <2>4, WithoutLast
<1> QED BY <1>1, <1>2

\* Closing the topmost view takes the top of the stack.
LEMMA ClosingTop ==
    ASSUME NEW S, NEW w \in Seq(S), NEW c, NEW r, Stacked(w, c, r), w # <<>>
    PROVE  Without(w, Last(w)) = Front(w)
<1>1. Len(w) \in DOMAIN w /\ Last(w) = w[Len(w)]
  BY FrontIs DEF Last
<1>2. \A i \in DOMAIN w : w[i] = Last(w) => i = Len(w)
  BY <1>1 DEF Stacked
<1> QED BY <1>1, <1>2, WithoutLast

LEMMA StackedFront ==
    ASSUME NEW S, NEW w \in Seq(S), NEW c, NEW r, Stacked(w, c, r), w # <<>>
    PROVE  Stacked(Front(w), c, r)
<1>1. /\ Len(w) \in Nat \ {0} /\ DOMAIN w = 1 .. Len(w)
      /\ DOMAIN Front(w) = 1 .. Len(w) - 1
      /\ \A i \in 1 .. Len(w) - 1 : Front(w)[i] = w[i]
  BY FrontIs
<1>2. \A i \in DOMAIN Front(w) : i \in DOMAIN w /\ Front(w)[i] = w[i] /\ i # Len(w)
  BY <1>1
<1> QED BY <1>2 DEF Stacked

\* An answer's view is announced: it is self.red and the last one.
LEMMA StackedAppend ==
    ASSUME NEW S, NEW w \in Seq(S), NEW c \in Seq(S), NEW r, Stacked(w, c, r),
           NEW t \in S, t \notin Range(w) \cup Range(c)
    PROVE  Stacked(w, Append(c, t), t)
<1> DEFINE d == Append(c, t)
<1>1. /\ d \in Seq(S) /\ Len(d) = Len(c) + 1 /\ Len(c) \in Nat
      /\ \A k \in 1 .. Len(c) : d[k] = c[k]
      /\ d[Len(c) + 1] = t
  BY AppendProperties
<1>2. DOMAIN c = 1 .. Len(c) /\ DOMAIN d = 1 .. Len(c) + 1
  BY <1>1
<1> HIDE DEF d
<1>3. \A k \in DOMAIN d : \/ k \in DOMAIN c /\ d[k] = c[k] /\ k # Len(c) + 1
                          \/ k = Len(c) + 1 /\ d[k] = t
  BY <1>1, <1>2
<1>4. (\A i \in DOMAIN w : w[i] # t) /\ (\A k \in DOMAIN c : c[k] # t)
  BY DEF Range
<1>5. Stacked(w, d, t)
  BY <1>1, <1>3, <1>4 DEF Stacked
<1> QED BY <1>5 DEF d

\* The next view comes to the screen.
LEMMA StackedShown ==
    ASSUME NEW S, NEW w \in Seq(S), NEW c \in Seq(S), NEW r, Stacked(w, c, r), c # <<>>
    PROVE  Stacked(Append(w, Head(c)), Tail(c), r)
<1> DEFINE d == Tail(c)
           h == Head(c)
           v == Append(w, h)
<1>1. /\ Len(c) \in Nat \ {0} /\ DOMAIN c = 1 .. Len(c) /\ h = c[1] /\ h \in S
      /\ d \in Seq(S) /\ Len(d) = Len(c) - 1
      /\ \A i \in 1 .. Len(d) : d[i] = c[i + 1]
  BY FrontIs, HeadTailProperties
<1>2. /\ v \in Seq(S) /\ Len(v) = Len(w) + 1 /\ Len(w) \in Nat
      /\ \A k \in 1 .. Len(w) : v[k] = w[k]
      /\ v[Len(w) + 1] = h
  BY <1>1, AppendProperties
<1>3. DOMAIN d = 1 .. Len(c) - 1 /\ DOMAIN w = 1 .. Len(w) /\ DOMAIN v = 1 .. Len(w) + 1
  BY <1>1, <1>2
<1> HIDE DEF d, h, v
<1>4. \A k \in DOMAIN v : \/ k \in DOMAIN w /\ v[k] = w[k] /\ k # Len(w) + 1
                          \/ k = Len(w) + 1 /\ v[k] = c[1]
  BY <1>1, <1>2, <1>3
<1>5. 1 \in DOMAIN c /\ \A k \in DOMAIN d : k + 1 \in DOMAIN c /\ d[k] = c[k + 1] /\ k + 1 # 1
  BY <1>1, <1>3
<1>6. \A k, l \in DOMAIN d : d[k] = d[l] => k = l
  <2> SUFFICES ASSUME NEW k \in DOMAIN d, NEW l \in DOMAIN d, d[k] = d[l] PROVE k = l
    OBVIOUS
  <2>1. k + 1 = l + 1
    BY <1>5 DEF Stacked
  <2> QED BY <1>1, <1>3, <2>1
<1>7. \A k, l \in DOMAIN v : v[k] = v[l] => k = l
  BY <1>4, <1>5 DEF Stacked
<1>8. \A k \in DOMAIN v, l \in DOMAIN d : v[k] # d[l]
  BY <1>4, <1>5 DEF Stacked
<1>9. ASSUME NEW k \in DOMAIN v, v[k] = r PROVE k = Len(v) /\ d = <<>>
  <2>1. CASE k \in DOMAIN w /\ v[k] = w[k]
    <3>1. c = <<>>
      BY <1>9, <2>1 DEF Stacked
    <3> QED BY <3>1
  <2>2. CASE k = Len(w) + 1 /\ v[k] = c[1]
    <3>1. Len(c) = 1
      BY <1>5, <1>9, <2>2 DEF Stacked
    <3>2. Len(d) = 0
      BY <1>1, <3>1
    <3> QED BY <1>1, <1>2, <2>2, <3>2, EmptySeq
  <2> QED BY <1>4, <2>1, <2>2
<1>10. ASSUME NEW k \in DOMAIN d, d[k] = r PROVE k = Len(d)
  <2>1. k + 1 = Len(c)
    BY <1>5, <1>10 DEF Stacked
  <2> QED BY <1>1, <1>3, <2>1
<1>11. Stacked(v, d, r)
  BY <1>6, <1>7, <1>8, <1>9, <1>10 DEF Stacked
<1> QED BY <1>11 DEF v, h, d

LEMMA InitViews == Init => ViewsInv
<1> SUFFICES ASSUME Init, NEW u \in Users
             PROVE  /\ Stacked(win[u], coming[u], red[u])
                    /\ \A t \in Views(u) : tap[t].cli # "waiting"
  BY DEF ViewsInv
<1>1. win[u] = <<>> /\ coming[u] = <<>>
  BY DEF Init
<1>2. DOMAIN win[u] = {} /\ DOMAIN coming[u] = {}
  BY <1>1
<1> QED BY <1>2 DEF Stacked, Views, Range

\* Steps that leave the screens alone.
LEMMA ScreenFrame ==
    ASSUME ClaimsInv, ViewsInv, UNCHANGED <<win, coming, red>>,
           \A s \in Taps : tap'[s].cli = "waiting" => tap[s].cli \in {"idle", "waiting"}
    PROVE  ViewsInv' /\ \A u \in Users : StackStep(u)
<1>1. ASSUME NEW u \in Users PROVE Stacked(win[u], coming[u], red[u])'
  BY <1>1 DEF ViewsInv, Stacked
<1>2. ASSUME NEW u \in Users, NEW t \in Views(u)' PROVE tap'[t].cli # "waiting"
  <2>1. t \in Views(u) /\ t \in Taps
    BY <1>2, ViewsType DEF Views, ClaimsInv, BooksInv
  <2> QED BY <2>1 DEF ViewsInv, ClaimsInv, ViewsOwn
<1> QED BY <1>1, <1>2 DEF ViewsInv, StackStep

\* Only a tap starts to wait.
LEMMA QuietStep ==
    ASSUME ClaimsInv, ViewsInv,
           \/ \E u, v \in Users, k \in Kinds : u # v /\ ViewDidLoad(u, v, k)
           \/ \E a \in Amounts, n \in Sizes \cup {0} : TextFieldDidChange(a, n)
           \/ \E p \in Packets : BeginSendRedMessage(p) \/ CreateRed(p) \/ SendFails(p)
           \/ \E t \in Taps : RecvRed(t) \/ RequestLost(t) \/ ClaimFails(t)
           \/ \E t \in Taps : ReceiveRedMessage(t) /\ UNCHANGED win
           \/ \E t \in Taps, u \in Users, p \in Packets : DidTapMessageCell(t, u, p)
           \/ UNCHANGED vars
    PROVE  ViewsInv' /\ \A u \in Users : StackStep(u)
<1>0. tap \in [Taps -> Requests]
  BY DEF ClaimsInv, BooksInv, TypeOK
<1>1. CASE UNCHANGED <<tap, win, coming, red>>
  BY <1>1, ScreenFrame
<1>2. ASSUME NEW t \in Taps, NEW r, tap' = [tap EXCEPT ![t] = r],
             UNCHANGED <<win, coming, red>>, r.cli = "waiting" => tap[t].cli \in {"idle", "waiting"}
      PROVE  ViewsInv' /\ \A u \in Users : StackStep(u)
  <2>1. \A s \in Taps : tap'[s].cli = "waiting" => tap[s].cli \in {"idle", "waiting"}
    BY <1>0, <1>2
  <2> QED BY <1>2, <2>1, ScreenFrame
<1>3. ASSUME NEW t \in Taps, RecvRed(t) PROVE ViewsInv' /\ \A u \in Users : StackStep(u)
  <2>1. UNCHANGED <<win, coming, red>>
    BY <1>3 DEF RecvRed
  <2>2. ASSUME NEW a, NEW b, tap' = Answered(t, a, b) PROVE ViewsInv' /\ \A u \in Users : StackStep(u)
    <3>1. tap' = [tap EXCEPT ![t] = Served(tap[t], a, b)]
      BY <2>2 DEF Answered
    <3>2. Served(tap[t], a, b).cli = tap[t].cli
      BY <1>0 DEF Served, Requests
    <3> QED BY <1>2, <2>1, <3>1, <3>2
  <2>3. CASE tap' = [tap EXCEPT ![t].srv = "stuck"]
    <3>1. tap' = [tap EXCEPT ![t] = Ended(tap[t], "stuck")] /\ Ended(tap[t], "stuck").cli = tap[t].cli
      BY <1>0, <2>3 DEF Ended, Requests
    <3> QED BY <1>2, <2>1, <3>1
  <2> QED BY <1>3, <2>2, <2>3 DEF RecvRed
<1>4. ASSUME NEW t \in Taps, RequestLost(t) PROVE ViewsInv' /\ \A u \in Users : StackStep(u)
  <2>1. /\ UNCHANGED <<win, coming, red>>
        /\ tap' = [tap EXCEPT ![t] = Ended(tap[t], "lost")] /\ Ended(tap[t], "lost").cli = tap[t].cli
    BY <1>0, <1>4 DEF RequestLost, Ended, Requests
  <2> QED BY <1>2, <2>1
<1>5. ASSUME NEW t \in Taps, NEW c \in {"failed", "closed"},
             tap' = [tap EXCEPT ![t].cli = c], UNCHANGED <<win, coming, red>>
      PROVE  ViewsInv' /\ \A u \in Users : StackStep(u)
  <2>1. tap' = [tap EXCEPT ![t] = Moved(tap[t], c)] /\ Moved(tap[t], c).cli = c
    BY <1>0, <1>5 DEF Moved, Requests
  <2> QED BY <1>2, <1>5, <2>1
<1>6. ASSUME NEW t \in Taps, NEW u \in Users, NEW p \in Packets, DidTapMessageCell(t, u, p)
      PROVE  ViewsInv' /\ \A v \in Users : StackStep(v)
  <2>1. /\ UNCHANGED <<win, coming, red>> /\ tap[t].cli = "idle"
        /\ \E r : tap' = [tap EXCEPT ![t] = r]
    BY <1>6 DEF DidTapMessageCell
  <2> QED BY <1>2, <2>1
<1> QED BY <1>1, <1>3, <1>4, <1>5, <1>6
     DEF ViewDidLoad, TextFieldDidChange, BeginSendRedMessage, CreateRed, SendFails,
         ClaimFails, ReceiveRedMessage, vars

\* An answer arrives.
LEMMA ShowViews ==
    ASSUME ClaimsInv, ViewsInv, NEW t \in Taps, ShowAnswer(t)
    PROVE  ViewsInv' /\ \A u \in Users : StackStep(u)
<1> DEFINE u == tap[t].u
           c == IF tap[t].status = "200" THEN "have" ELSE "no"
<1>1. /\ u \in Users /\ tap[t].cli = "waiting"
      /\ tap \in [Taps -> Requests] /\ win \in [Users -> Seq(Taps)]
      /\ coming \in [Users -> Seq(Taps)] /\ red \in [Users -> Taps \cup {None}]
  BY DetailShown DEF ShowAnswer, ClaimsInv, AnswersKept, BooksInv, TypeOK
<1>2. /\ tap' = [tap EXCEPT ![t].cli = c] /\ win' = win
      /\ coming' = [coming EXCEPT ![u] = Append(@, t)] /\ red' = [red EXCEPT ![u] = t]
  BY DEF ShowAnswer
<1>3. c # "waiting"
  OBVIOUS
<1> HIDE DEF u, c
<1>4. t \notin Views(u)
  BY <1>1 DEF ViewsInv
<1>5. ASSUME NEW v \in Users PROVE Stacked(win[v], coming[v], red[v])'
  <2>1. CASE v # u
    <3>1. win'[v] = win[v] /\ coming'[v] = coming[v] /\ red'[v] = red[v]
      BY <1>1, <1>2, <2>1
    <3> QED BY <3>1 DEF ViewsInv
  <2>2. CASE v = u
    <3>1. win'[u] = win[u] /\ coming'[u] = Append(coming[u], t) /\ red'[u] = t
      BY <1>1, <1>2
    <3>2. Stacked(win[u], Append(coming[u], t), t)
      BY <1>1, <1>4, StackedAppend DEF ViewsInv, Views
    <3> QED BY <2>2, <3>1, <3>2
  <2> QED BY <2>1, <2>2
<1>6. ASSUME NEW v \in Users, NEW s \in Views(v)' PROVE tap'[s].cli # "waiting"
  <2>1. s \in Views(v) \/ s = t
    <3>1. coming'[v] = coming[v] \/ coming'[v] = Append(coming[v], t)
      BY <1>1, <1>2
    <3>2. coming[v] \in Seq(Taps) /\ win'[v] = win[v]
      BY <1>1, <1>2
    <3>3. Range(coming'[v]) \subseteq Range(coming[v]) \cup {t}
      BY <3>1, <3>2, AppendRange
    <3> QED BY <1>6, <3>2, <3>3 DEF Views
  <2>2. CASE s = t
    BY <1>1, <1>2, <1>3, <2>2 DEF Requests
  <2>3. CASE s # t /\ s \in Views(v)
    <3>1. s \in Taps /\ tap[s].cli # "waiting"
      BY <2>3, ViewsType DEF ViewsInv, ClaimsInv, BooksInv
    <3> QED BY <1>1, <1>2, <2>3, <3>1
  <2> QED BY <2>1, <2>2, <2>3
<1>7. \A v \in Users : StackStep(v)
  BY <1>2 DEF StackStep
<1> QED BY <1>5, <1>6, <1>7 DEF ViewsInv

\* The next view comes to the screen of its user.
LEMMA ShareviewViews ==
    ASSUME ClaimsInv, ViewsInv, NEW u \in Users, ShareviewShow(u)
    PROVE  ViewsInv' /\ \A v \in Users : StackStep(v)
<1>1. win \in [Users -> Seq(Taps)] /\ coming \in [Users -> Seq(Taps)]
  BY DEF ClaimsInv, BooksInv, TypeOK
<1>2. /\ coming[u] # <<>> /\ UNCHANGED <<tap, red>>
      /\ win' = [win EXCEPT ![u] = Append(@, Head(coming[u]))]
      /\ coming' = [coming EXCEPT ![u] = Tail(@)]
  BY DEF ShareviewShow
<1>3. /\ win'[u] = Append(win[u], Head(coming[u])) /\ coming'[u] = Tail(coming[u])
      /\ win[u] \in Seq(Taps) /\ coming[u] \in Seq(Taps)
      /\ \A v \in Users : v # u => win'[v] = win[v] /\ coming'[v] = coming[v]
  BY <1>1, <1>2
<1>4. Head(coming[u]) \in Taps
  BY <1>2, <1>3, HeadTailProperties
<1>5. ASSUME NEW v \in Users PROVE Stacked(win[v], coming[v], red[v])'
  <2>1. Stacked(win[v], coming[v], red[v])
    BY DEF ViewsInv
  <2>2. CASE v # u
    BY <1>2, <1>3, <2>1, <2>2
  <2>3. CASE v = u
    <3>1. Stacked(Append(win[u], Head(coming[u])), Tail(coming[u]), red[u])
      BY <1>2, <1>3, <2>1, <2>3, StackedShown
    <3> QED BY <1>2, <1>3, <2>3, <3>1
  <2> QED BY <2>2, <2>3
<1>6. ASSUME NEW v \in Users, NEW s \in Views(v)' PROVE tap'[s].cli # "waiting"
  <2>1. s \in Views(v)
    <3>1. CASE v # u
      BY <1>3, <1>6, <3>1 DEF Views
    <3>2. CASE v = u
      <4>1. Head(coming[u]) \in Range(coming[u]) /\ Range(Tail(coming[u])) \subseteq Range(coming[u])
        BY <1>2, <1>3, HeadTailRange
      <4>2. Range(Append(win[u], Head(coming[u]))) = Range(win[u]) \cup {Head(coming[u])}
        BY <1>3, <1>4, AppendRange
      <4> QED BY <1>3, <1>6, <3>2, <4>1, <4>2 DEF Views
    <3> QED BY <3>1, <3>2
  <2> QED BY <1>2, <2>1 DEF ViewsInv
<1>7. \A v \in Users : StackStep(v)
  BY <1>3, <1>4 DEF StackStep
<1> QED BY <1>5, <1>6, <1>7 DEF ViewsInv

\* A view is closed: the topmost one by hand, or self.red.
LEMMA CloseViews ==
    ASSUME ClaimsInv, ViewsInv, NEW u \in Users, NEW x,
           x = red[u] \/ (win[u] # <<>> /\ x = Top(u)),
           win' = [win EXCEPT ![u] = Without(@, x)], UNCHANGED <<coming, red>>,
           \A s \in Taps : tap'[s].cli = "waiting" => tap[s].cli = "waiting"
    PROVE  ViewsInv' /\ \A v \in Users : StackStep(v)
<1>1. win \in [Users -> Seq(Taps)] /\ Stacked(win[u], coming[u], red[u])
  BY DEF ClaimsInv, BooksInv, TypeOK, ViewsInv
<1>2. /\ win[u] \in Seq(Taps) /\ win'[u] = Without(win[u], x)
      /\ \A v \in Users : v # u => win'[v] = win[v]
  BY <1>1
<1>3. win'[u] = win[u] \/ (win[u] # <<>> /\ win'[u] = Front(win[u]))
  BY <1>1, <1>2, ClosingRed, ClosingTop DEF Top
<1>4. ASSUME NEW v \in Users PROVE Stacked(win[v], coming[v], red[v])'
  <2>1. Stacked(win[v], coming[v], red[v])
    BY DEF ViewsInv
  <2>2. CASE win'[v] = win[v]
    BY <2>1, <2>2
  <2>3. CASE v = u /\ win[u] # <<>> /\ win'[u] = Front(win[u])
    <3>1. Stacked(Front(win[u]), coming[u], red[u])
      BY <1>1, <1>2, <2>3, StackedFront
    <3> QED BY <2>3, <3>1
  <2> QED BY <1>2, <1>3, <2>2, <2>3
<1>5. ASSUME NEW v \in Users, NEW s \in Views(v)' PROVE tap'[s].cli # "waiting"
  <2>1. s \in Views(v) /\ s \in Taps
    BY <1>5, ClosedView, ViewsType DEF ClaimsInv, BooksInv
  <2> QED BY <2>1 DEF ViewsInv
<1>6. \A v \in Users : StackStep(v)
  BY <1>2, <1>3 DEF StackStep
<1> QED BY <1>4, <1>5, <1>6 DEF ViewsInv

LEMMA ClosingStep ==
    ASSUME ClaimsInv, ViewsInv,
           \/ \E u \in Users : OpenRed(u) \/ ChectRedMessage(u) \/ CanleClick(u)
           \/ \E t \in Taps : ReceiveRedMessage(t)
    PROVE  ViewsInv' /\ \A v \in Users : StackStep(v)
<1>0. tap \in [Taps -> Requests]
  BY DEF ClaimsInv, BooksInv, TypeOK
<1>1. ASSUME NEW u \in Users, OpenRed(u) PROVE ViewsInv' /\ \A v \in Users : StackStep(v)
  <2>1. /\ win' = [win EXCEPT ![u] = Without(@, red[u])] /\ UNCHANGED <<tap, coming, red>>
    BY <1>1 DEF OpenRed, PushRedMessageView
  <2> QED BY <2>1, CloseViews
<1>2. ASSUME NEW u \in Users, ChectRedMessage(u) PROVE ViewsInv' /\ \A v \in Users : StackStep(v)
  <2>1. /\ win[u] # <<>> /\ win' = [win EXCEPT ![u] = Without(@, Top(u))]
        /\ tap' = [tap EXCEPT ![Top(u)].cli = "asking"] /\ UNCHANGED <<coming, red>>
    BY <1>2 DEF ChectRedMessage
  <2>2. \A s \in Taps : tap'[s].cli = "waiting" => tap[s].cli = "waiting"
    BY <1>0, <2>1 DEF Requests
  <2> QED BY <2>1, <2>2, CloseViews
<1>3. ASSUME NEW u \in Users, CanleClick(u) PROVE ViewsInv' /\ \A v \in Users : StackStep(v)
  <2>1. /\ win[u] # <<>> /\ win' = [win EXCEPT ![u] = Without(@, Top(u))]
        /\ UNCHANGED <<tap, coming, red>>
    BY <1>3 DEF CanleClick
  <2> QED BY <2>1, CloseViews
<1>4. ASSUME NEW t \in Taps, ReceiveRedMessage(t) PROVE ViewsInv' /\ \A v \in Users : StackStep(v)
  <2>1. /\ tap' = [tap EXCEPT ![t].cli = "closed"] /\ tap[t].cli = "asking"
        /\ UNCHANGED <<coming, red>>
    BY <1>4 DEF ReceiveRedMessage
  <2>2. CASE UNCHANGED win
    BY <1>4, <2>2, QuietStep
  <2>3. CASE PushRedMessageView(tap[t].u, tap[t].p, share[tap[t].p][tap[t].u])
    <3>1. tap[t].u \in Users
      BY <2>1, DetailShown DEF ClaimsInv, AnswersKept
    <3>2. win' = [win EXCEPT ![tap[t].u] = Without(@, red[tap[t].u])]
      BY <2>3 DEF PushRedMessageView
    <3>3. \A s \in Taps : tap'[s].cli = "waiting" => tap[s].cli = "waiting"
      BY <1>0, <2>1 DEF Requests
    <3> QED BY <2>1, <3>1, <3>2, <3>3, CloseViews
  <2> QED BY <1>4, <2>2, <2>3 DEF ReceiveRedMessage
<1> QED BY <1>1, <1>2, <1>3, <1>4

LEMMA NextViews ==
    ASSUME ClaimsInv, ViewsInv, [Next]_vars
    PROVE  ViewsInv' /\ \A u \in Users : StackStep(u)
<1>1. CASE UNCHANGED vars
  BY <1>1, QuietStep
<1>2. CASE Next
  BY <1>2, QuietStep, ShowViews, ShareviewViews, ClosingStep DEF Next
<1> QED BY <1>1, <1>2

\* On every screen, in every interleaving of taps, answers, animations and closes:
\* self.red is the latest view or none, so that pushRedmessageview closes the top of
\* the stack or nothing.
THEOREM ViewsInvariant == Spec => []ViewsInv
  BY InitViews, NextViews, ClaimsInvariant, PTL DEF Spec

\* No view is ever taken from under another one.
THEOREM ViewsAreStacked == Spec => ViewsStack
<1>1. ClaimsInv /\ ViewsInv /\ [Next]_vars => \A u \in Users : StackStep(u)
  BY NextViews
<1>2. (\A u \in Users : StackStep(u)) =>
        [\A u \in Users : \/ win'[u] = win[u]
                          \/ \E t \in Taps : win'[u] = Append(win[u], t)
                          \/ win[u] # <<>> /\ win'[u] = Front(win[u])]_vars
  BY DEF StackStep
<1> QED BY <1>1, <1>2, ClaimsInvariant, ViewsInvariant, PTL DEF Spec, ViewsStack

----------------------------------------------------------------------------
(***************************************************************************)
(* The money half of Conservation, on top of ClaimsInv: a new packet is full *)
(* because nobody has a share of it yet, and a share moves from the balance  *)
(* into the books of a user who had none.                                   *)
(***************************************************************************)

MoneyCounted ==
    \A p \in Packets : SumFunction(share[p]) + pkt[p].balance = pkt[p].total

LEMMA InitMoney == Init => MoneyCounted
<1> SUFFICES ASSUME Init, NEW p \in Packets
             PROVE  SumFunction(share[p]) + pkt[p].balance = pkt[p].total
  BY DEF MoneyCounted
<1>1. /\ share[p] \in [Users -> Int] /\ \A u \in Users : share[p][u] = 0
      /\ pkt[p].balance = 0 /\ pkt[p].total = 0
  BY DEF Init, NoPacket
<1>2. SumFunction(share[p]) = 0
  BY <1>1, SumOfZeros, UsersAssumption
<1> QED BY <1>1, <1>2

\* One step of the system keeps the balance of packet p.
LEMMA MoneyStep ==
    ASSUME ClaimsInv, MoneyCounted, [Next]_vars, NEW p \in Packets
    PROVE  SumFunction(share'[p]) + pkt'[p].balance = pkt'[p].total
<1> DEFINE Balanced == SumFunction(share'[p]) + pkt'[p].balance = pkt'[p].total
<1>1. /\ pkt \in [Packets -> PacketRecords] /\ pkt[p] \in PacketRecords
      /\ share \in [Packets -> [Users -> Nat]] /\ share[p] \in [Users -> Int]
      /\ pkt[p].balance \in Nat /\ pkt[p].left \in Nat /\ pkt[p].total \in Nat
      /\ form.amount \in Nat
  BY DEF ClaimsInv, BooksInv, TypeOK, PacketRecords, Forms
<1>2. SumFunction(share[p]) + pkt[p].balance = pkt[p].total
  BY DEF MoneyCounted
<1>3. CASE /\ share'[p] = share[p]
           /\ pkt'[p].balance = pkt[p].balance /\ pkt'[p].total = pkt[p].total
  BY <1>2, <1>3
<1>4. ASSUME NEW q \in Packets, BeginSendRedMessage(q) PROVE Balanced
  <2>1. /\ UNCHANGED share /\ pkt[q].st = "unsent"
        /\ q # p => pkt'[p] = pkt[p]
        /\ q = p => pkt'[p].balance = Unit * form.amount /\ pkt'[p].total = Unit * form.amount
    BY <1>1, <1>4 DEF BeginSendRedMessage
  <2>2. CASE q # p
    BY <1>3, <2>1, <2>2
  <2>3. CASE q = p
    <3>1. \A u \in Users : share[p][u] = 0
      BY <2>1, <2>3 DEF ClaimsInv, SharesCounted
    <3>2. SumFunction(share[p]) = 0
      BY <1>1, <3>1, SumOfZeros, UsersAssumption
    <3>3. Unit * form.amount \in Nat
      BY <1>1
    <3> QED BY <2>1, <2>3, <3>2, <3>3
  <2> QED BY <2>2, <2>3
<1>5. ASSUME NEW q \in Packets, CreateRed(q) \/ SendFails(q) PROVE Balanced
  <2>1. PICK st \in {"open", "lost"} : pkt' = [pkt EXCEPT ![q].st = st]
    BY <1>5 DEF CreateRed, SendFails
  <2>2. pkt'[p].balance = pkt[p].balance /\ pkt'[p].total = pkt[p].total
    BY <1>1, <2>1, MovedPacket
  <2>3. UNCHANGED share
    BY <1>5 DEF CreateRed, SendFails
  <2> QED BY <1>3, <2>2, <2>3
<1>6. ASSUME NEW t \in Taps, RecvRed(t), ~UNCHANGED <<pkt, share>> PROVE Balanced
  <2> DEFINE q == tap[t].p
             u == tap[t].u
  <2>1. q \in Packets /\ u \in Users
    BY <1>6 DEF RecvRed, ClaimsInv, BooksInv, RequestsOK
  <2>2. /\ u \notin taken[q] /\ pkt[q].left # 0
        /\ \E money \in GenerateRedValue(pkt[q].balance, pkt[q].left) : Grant(q, u, money)
    BY <1>6 DEF RecvRed, AlreadyClaimed
  <2>3. PICK money \in GenerateRedValue(pkt[q].balance, pkt[q].left) : Grant(q, u, money)
    BY <2>2
  <2>4. /\ pkt[q] \in PacketRecords /\ pkt[q].balance \in Nat /\ pkt[q].left \in Nat
        /\ pkt[q].balance # 0 /\ share[q][u] = 0
    BY <1>1, <2>1, <2>2 DEF PacketRecords, ClaimsInv, SharesCounted
  <2>5. money \in Nat /\ pkt[q].balance - money \in Nat /\ pkt[q].left - 1 \in Nat
    BY <2>2, <2>4, DrawIsMoney
  <2>6. /\ Paid(pkt[q], money).balance = pkt[q].balance - money
        /\ Paid(pkt[q], money).total = pkt[q].total
    BY <2>4, <2>5, PaidPacket
  <2>7. /\ pkt' = [pkt EXCEPT ![q] = Paid(@, money)]
        /\ share' = [share EXCEPT ![q][u] = money]
    BY <2>3 DEF Grant
  <2>8. CASE q # p
    BY <1>1, <1>3, <2>1, <2>7, <2>8
  <2>9. CASE q = p
    <3>1. /\ pkt'[p].balance = pkt[p].balance - money /\ pkt'[p].total = pkt[p].total
          /\ share'[p] = [share[p] EXCEPT ![u] = money] /\ share[p][u] = 0
      BY <1>1, <2>1, <2>4, <2>6, <2>7, <2>9
    <3>2. /\ SumFunction(share[p]) \in Int
          /\ SumFunction(share'[p]) = SumFunction(share[p]) - share[p][u] + money
      <4>0. IsFiniteSet(Users) /\ money \in Int /\ share[p] \in [Users -> Int]
        BY <1>1, <2>5, UsersAssumption
      <4> HIDE DEF u
      <4>1. /\ SumFunction(share[p]) \in Int
            /\ SumFunction([share[p] EXCEPT ![u] = money])
                 = SumFunction(share[p]) - share[p][u] + money
        BY <2>1, <4>0, SumOfUpdate
      <4> QED BY <3>1, <4>1
    <3> QED BY <1>1, <1>2, <2>5, <3>1, <3>2
  <2> QED BY <2>8, <2>9
<1>7. CASE UNCHANGED <<pkt, share>>
  BY <1>3, <1>7
<1>8. CASE UNCHANGED vars
  BY <1>7, <1>8 DEF vars
<1>9. CASE Next
  <2>1. \/ UNCHANGED <<pkt, share>>
        \/ \E q \in Packets : BeginSendRedMessage(q) \/ CreateRed(q) \/ SendFails(q)
        \/ \E t \in Taps : RecvRed(t)
    BY <1>9, Zenon DEF Next, ViewDidLoad, TextFieldDidChange, RequestLost, ShowAnswer,
       ClaimFails, ReceiveRedMessage, DidTapMessageCell, ShareviewShow, OpenRed, ChectRedMessage, CanleClick
  <2> QED BY <1>4, <1>5, <1>6, <1>7, <2>1
<1> QED BY <1>8, <1>9

\* The books balance: what was recorded for the users and what remains is what
\* the sender put in, the shares left are those nobody has, and exactly the
\* recorded claimers have money, through every interleaving of claims.
THEOREM BooksBalance == Spec => []Conservation
<1>1. ClaimsInv /\ MoneyCounted /\ [Next]_vars => MoneyCounted'
  BY MoneyStep DEF MoneyCounted
<1>2. ClaimsInv /\ MoneyCounted => Conservation
  BY DEF ClaimsInv, SharesCounted, MoneyCounted, Conservation
<1> QED BY <1>1, <1>2, InitMoney, ClaimsInvariant, PTL DEF Spec

=============================================================================
