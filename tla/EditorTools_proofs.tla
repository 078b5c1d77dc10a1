------------------------- MODULE EditorTools_proofs -------------------------
(***************************************************************************)
(* Proofs about the tools around the document.                             *)
(***************************************************************************)
EXTENDS MCEditorTools, TLAPS, WellFoundedInduction, SequenceTheorems

-----------------------------------------------------------------------------
(* The undo history                                                        *)

Managers == [list : Seq(Undo!Scenes), index : Nat, hasUndo : BOOLEAN, hasRedo : BOOLEAN]

\* A manager without a scene.
Blank(u) == u.list = <<>>

\* The index is in the list and the flags tell where.
ManagerOK(u) ==
    /\ u \in Managers /\ Len(u.list) <= maxUndoCount
    /\ u.list = <<>> => u.index = 0
    /\ u.list # <<>> => u.index < Len(u.list)
    /\ u.hasUndo <=> u.index > 0
    /\ u.hasRedo <=> u.index + 1 < Len(u.list)

\* The content of scene i, counted from 0 as the code does.
ContentAt(u, i) == Undo!At(u, i).content

\* Keys that are not in the history are waited for by a timer, but the one that reached
\* maxInputCount; they are no more than were counted since the last save; and the body is
\* the current scene when there are none.
UndoTypes ==
    /\ body \in Contents /\ sel \in Carets \cup Spans
    /\ timer \in BOOLEAN /\ inputType \in BOOLEAN /\ isCollapsed \in BOOLEAN
Composing == inputType
Waits == timer \/ polls > 0
UndoCounts ==
    /\ keycont \in 0 .. maxInputCount /\ loose \in 0 .. maxInputCount /\ polls \in 0 .. MaxPolls
    /\ Composing => loose >= 1
    /\ Blank(um) \/ loose <= keycont + 1
    /\ Blank(um) \/ loose <= 1 \/ Waits
BodyIsCurrent == Blank(um) \/ loose # 0 \/ body = ContentAt(um, um.index)
UndoInv == UndoTypes /\ ManagerOK(um) /\ UndoCounts /\ BodyIsCurrent

LEMMA UndoLimits ==
    /\ maxUndoCount \in Nat /\ maxUndoCount >= 1 /\ maxInputCount \in Nat /\ maxInputCount >= 1
    /\ MaxPolls \in Nat
  BY UndoAssumption

\* A set of numbers has a smallest one.
LEMMA SmallestOf ==
    ASSUME NEW T \in SUBSET Nat, T # {}
    PROVE  \E x \in T : \A y \in T : x <= y
<1>1. IsWellFoundedOn({ss \in Nat \X Nat : ss[1] < ss[2]}, Nat)
  BY NatLessThanWellFounded DEF OpToRel
<1>2. \E x \in T : \A y \in T : ~(<<y, x>> \in {ss \in Nat \X Nat : ss[1] < ss[2]})
  BY <1>1, WFMin
<1>3. PICK x \in T : \A y \in T : x <= y
  <2>1. PICK x \in T : \A y \in T : ~(<<y, x>> \in {ss \in Nat \X Nat : ss[1] < ss[2]})
    BY <1>2
  <2>2. ASSUME NEW y \in T PROVE x <= y
    <3>1. x \in Nat /\ y \in Nat /\ <<y, x>> \in Nat \X Nat
      OBVIOUS
    <3>2. ~(y < x)
      BY <2>1, <3>1
    <3> QED BY <3>1, <3>2
  <2> QED BY <2>2
<1> QED BY <1>3

\* The operators of the history that take the smallest and, of a bounded set, the largest.
LEMMA SmallestNumber ==
    ASSUME NEW T \in SUBSET Nat, T # {}
    PROVE  Undo!Min(T) \in T /\ \A y \in T : Undo!Min(T) <= y
BY SmallestOf DEF Undo!Min

LEMMA LargestNumber ==
    ASSUME NEW n \in Nat, NEW T \in SUBSET (0 .. n), T # {}
    PROVE  Undo!Max(T) \in T /\ \A y \in T : Undo!Max(T) >= y
<1> DEFINE M == {n - y : y \in T}
<1>1. M \in SUBSET Nat /\ M # {}
  <2>1. ASSUME NEW y \in T PROVE n - y \in Nat
    OBVIOUS
  <2> QED BY <2>1
<1>2. PICK m \in M : \A k \in M : m <= k
  BY <1>1, SmallestNumber
<1>3. PICK x \in T : m = n - x
  OBVIOUS
<1>4. \A y \in T : x >= y
  <2> TAKE y \in T
  <2>1. m <= n - y
    BY <1>2
  <2> QED BY <1>3, <2>1
<1> QED BY <1>4 DEF Undo!Max

\* Setting the index and then the flags leaves the list.
LEMMA Updated ==
    ASSUME NEW u \in Managers, Len(u.list) <= maxUndoCount, u.list # <<>>, u.index < Len(u.list)
    PROVE  ManagerOK(Undo!Update(u)) /\ Undo!Update(u).list = u.list /\ Undo!Update(u).index = u.index
<1> DEFINE r == u.index + 1 + 1 \in DOMAIN u.list
           b == u.index > 0 /\ u.index - 1 + 1 \in DOMAIN u.list
           v == [u EXCEPT !.hasRedo = r]
<1>1. (r <=> u.index + 1 < Len(u.list)) /\ (b <=> u.index > 0)
  BY DEF Managers
<1> HIDE DEF r
<1>2. /\ v \in Managers /\ v.list = u.list /\ v.index = u.index /\ v.hasRedo = r
  <2>1. r \in BOOLEAN
    BY DEF r
  <2> QED BY <2>1 DEF Managers
<1>3. Undo!Update(u) = [v EXCEPT !.hasUndo = b]
  BY DEF Undo!Update, Undo!Has, r
<1> HIDE DEF v, b
<1>4. b \in BOOLEAN
  BY DEF b
<1> DEFINE w == [v EXCEPT !.hasUndo = b]
<1>5. w \in Managers /\ w.list = u.list /\ w.index = u.index /\ w.hasRedo = r /\ w.hasUndo = b
  BY <1>2, <1>4 DEF Managers
<1> HIDE DEF w
<1>6. ManagerOK(w)
  BY <1>1, <1>5 DEF ManagerOK, r, b
<1> QED BY <1>3, <1>5, <1>6 DEF w

\* A save makes the scene the current one, or finds that it is, up to the selection.
LEMMA Pushed ==
    ASSUME NEW u, ManagerOK(u), NEW s \in Undo!Scenes
    PROVE  LET p == Undo!Push(u, s)
           IN  ManagerOK(p) /\ ~Blank(p) /\ ContentAt(p, p.index) = s.content
<1> DEFINE k == Undo!Kept(u)
           long == Append(k, s)
           list == IF Len(long) > maxUndoCount THEN Tail(long) ELSE long
           v == [u EXCEPT !.list = list, !.index = Len(list) - 1]
<1>1. u \in Managers /\ maxUndoCount \in Nat /\ maxUndoCount >= 1
  BY UndoLimits DEF ManagerOK
<1>2. k \in Seq(Undo!Scenes) /\ Len(k) <= maxUndoCount
  BY <1>1 DEF Undo!Kept, ManagerOK, Managers
<1> HIDE DEF k
<1>3. long \in Seq(Undo!Scenes) /\ Len(long) = Len(k) + 1 /\ long[Len(long)] = s
  BY <1>2
<1> HIDE DEF long
<1>4. list \in Seq(Undo!Scenes) /\ list # <<>> /\ Len(list) <= maxUndoCount /\ list[Len(list)] = s /\ Len(list) >= 1
  <2>1. CASE Len(long) > maxUndoCount
    <3>1. Tail(long) \in Seq(Undo!Scenes) /\ Len(Tail(long)) = Len(long) - 1
          /\ \A i \in 1 .. Len(long) - 1 : Tail(long)[i] = long[i + 1]
      BY <1>3, <1>2, <1>1, <2>1
    <3>2. Len(long) - 1 >= 1 /\ Len(long) - 1 = Len(k) /\ Len(k) \in Nat
      BY <1>1, <1>2, <1>3, <2>1
    <3>3. Tail(long)[Len(long) - 1] = s
      BY <1>3, <3>1, <3>2
    <3>4. list = Tail(long)
      BY <2>1
    <3> HIDE DEF list
    <3> QED BY <1>2, <3>1, <3>2, <3>3, <3>4
  <2>2. CASE ~(Len(long) > maxUndoCount)
    BY <1>1, <1>2, <1>3, <2>2
  <2> QED BY <2>1, <2>2
<1> HIDE DEF list
<1>5. v \in Managers /\ v.list = list /\ v.index = Len(list) - 1
  <2> DEFINE w == [u EXCEPT !.list = list]
  <2>1. w \in Managers /\ w.list = list
    BY <1>1, <1>4 DEF Managers
  <2>2. v = [w EXCEPT !.index = Len(list) - 1]
    OBVIOUS
  <2>3. Len(list) - 1 \in Nat
    BY <1>4
  <2> HIDE DEF w, v
  <2> QED BY <2>1, <2>2, <2>3 DEF Managers
<1> HIDE DEF v
<1>6. Undo!Push(u, s) = Undo!Update(v)
  BY DEF Undo!Push, v, list, long, k
<1>7. ManagerOK(Undo!Update(v)) /\ Undo!Update(v).list = list /\ Undo!Update(v).index = Len(list) - 1
  BY <1>4, <1>5, Updated
<1>8. ContentAt(Undo!Update(v), Len(list) - 1) = s.content
  BY <1>4, <1>7 DEF ContentAt, Undo!At
<1> QED BY <1>4, <1>6, <1>7, <1>8 DEF Blank

LEMMA Saved ==
    ASSUME NEW u, ManagerOK(u), NEW s \in Undo!Scenes, NEW b \in BOOLEAN
    PROVE  LET p == Undo!Save(u, s, b)
           IN  ManagerOK(p) /\ ~Blank(p) /\ ContentAt(p, p.index) = s.content
<1>1. CASE Undo!Known(u, s, b)
  <2>1. Undo!Save(u, s, b) = u /\ u.index + 1 \in DOMAIN u.list /\ ContentAt(u, u.index) = s.content
    BY <1>1 DEF Undo!Save, Undo!Known, Undo!Has, ContentAt
  <2>2. ~Blank(u)
    BY <2>1 DEF Blank
  <2> QED BY <2>1, <2>2
<1>2. CASE ~Undo!Known(u, s, b)
  BY <1>2, Pushed DEF Undo!Save
<1> QED BY <1>1, <1>2

\* Undo goes to the last scene before with another content, or to the first scene.
LEMMA UndoneTo ==
    ASSUME NEW u, ManagerOK(u), u.index > 0
    PROVE  LET j == Undo!UndoIndex(u)
           IN  /\ j \in 0 .. u.index - 1
               /\ \A i \in j + 1 .. u.index - 1 : ContentAt(u, i) = ContentAt(u, u.index)
<1> DEFINE T == {i \in 0 .. u.index - 1 : ContentAt(u, i) # ContentAt(u, u.index)}
<1>1. u.index \in Nat /\ u.index - 1 \in Nat
  BY DEF ManagerOK, Managers
<1>2. Undo!UndoIndex(u) = IF T = {} THEN 0 ELSE Undo!Max(T)
  BY DEF Undo!UndoIndex, ContentAt
<1>3. CASE T = {}
  BY <1>1, <1>2, <1>3
<1>4. CASE T # {}
  <2>1. T \in SUBSET (0 .. u.index - 1)
    OBVIOUS
  <2>2. Undo!Max(T) \in T /\ \A y \in T : Undo!Max(T) >= y
    BY <1>1, <1>4, <2>1, LargestNumber
  <2> DEFINE j == Undo!Max(T)
  <2>3. j \in 0 .. u.index - 1
    BY <2>2
  <2>4. ASSUME NEW i \in j + 1 .. u.index - 1 PROVE ContentAt(u, i) = ContentAt(u, u.index)
    <3>1. i \in 0 .. u.index - 1 /\ ~(j >= i)
      BY <1>1, <2>3, <2>4
    <3>2. i \notin T
      BY <2>2, <3>1
    <3> QED BY <3>1, <3>2
  <2> QED BY <1>2, <1>4, <2>3, <2>4
<1> QED BY <1>3, <1>4

LEMMA RedoneTo ==
    ASSUME NEW u, ManagerOK(u), u.index + 1 < Len(u.list)
    PROVE  LET j == Undo!RedoIndex(u)
           IN  /\ j \in u.index + 1 .. Len(u.list) - 1
               /\ \A i \in u.index + 1 .. j - 1 : ContentAt(u, i) = ContentAt(u, u.index)
<1> DEFINE T == {i \in u.index + 1 .. Len(u.list) - 1 : ContentAt(u, i) # ContentAt(u, u.index)}
<1>1. u.index \in Nat /\ Len(u.list) \in Nat
  BY DEF ManagerOK, Managers
<1>2. Undo!RedoIndex(u) = IF T = {} THEN Len(u.list) - 1 ELSE Undo!Min(T)
  BY DEF Undo!RedoIndex, ContentAt
<1>3. CASE T = {}
  BY <1>1, <1>2, <1>3
<1>4. CASE T # {}
  <2>1. T \in SUBSET Nat
    BY <1>1
  <2>2. Undo!Min(T) \in T /\ \A y \in T : Undo!Min(T) <= y
    BY <1>4, <2>1, SmallestNumber
  <2> DEFINE j == Undo!Min(T)
  <2>3. j \in u.index + 1 .. Len(u.list) - 1
    BY <2>2
  <2>4. ASSUME NEW i \in u.index + 1 .. j - 1 PROVE ContentAt(u, i) = ContentAt(u, u.index)
    <3>1. i \in u.index + 1 .. Len(u.list) - 1 /\ ~(j <= i)
      BY <1>1, <2>3, <2>4
    <3>2. i \notin T
      BY <2>2, <3>1
    <3> QED BY <3>1, <3>2
  <2> QED BY <1>2, <1>4, <2>3, <2>4
<1> QED BY <1>3, <1>4

\* What undo and redo make of the manager.
LEMMA Moved ==
    ASSUME NEW u, ManagerOK(u), NEW j \in 0 .. Len(u.list) - 1
    PROVE  LET v == Undo!Update([u EXCEPT !.index = j])
           IN  ManagerOK(v) /\ v.list = u.list /\ v.index = j
<1> DEFINE w == [u EXCEPT !.index = j]
<1>1. u \in Managers /\ Len(u.list) \in Nat /\ Len(u.list) <= maxUndoCount
  BY DEF ManagerOK, Managers
<1>2. w \in Managers /\ w.list = u.list /\ w.index = j
  BY <1>1 DEF Managers
<1>3. u.list # <<>> /\ j < Len(u.list)
  BY <1>1
<1> HIDE DEF w
<1>4. ManagerOK(Undo!Update(w)) /\ Undo!Update(w).list = w.list /\ Undo!Update(w).index = w.index
  BY <1>1, <1>2, <1>3, Updated
<1> QED BY <1>2, <1>4 DEF w

LEMMA UndoStepOf ==
    ASSUME NEW u, ManagerOK(u), u.hasUndo
    PROVE  LET v == Undo!UndoOf(u)
           IN  ManagerOK(v) /\ v.list = u.list /\ v.index = Undo!UndoIndex(u) /\ ~Blank(v)
<1>1. u.index > 0 /\ u.index < Len(u.list) /\ u.index \in Nat /\ Len(u.list) \in Nat /\ u.list # <<>>
  BY DEF ManagerOK, Managers
<1>2. Undo!UndoIndex(u) \in 0 .. Len(u.list) - 1
  BY <1>1, UndoneTo
<1> QED BY <1>1, <1>2, Moved DEF Undo!UndoOf, Blank

LEMMA RedoStepOf ==
    ASSUME NEW u, ManagerOK(u), u.hasRedo
    PROVE  LET v == Undo!RedoOf(u)
           IN  ManagerOK(v) /\ v.list = u.list /\ v.index = Undo!RedoIndex(u) /\ ~Blank(v)
<1>1. u.index + 1 < Len(u.list) /\ u.index \in Nat /\ Len(u.list) \in Nat /\ u.list # <<>>
  BY DEF ManagerOK, Managers
<1>2. Undo!RedoIndex(u) \in 0 .. Len(u.list) - 1
  BY <1>1, RedoneTo
<1> QED BY <1>1, <1>2, Moved DEF Undo!RedoOf, Blank

\* Between the scene undo goes to and the current one all scenes have the current
\* content, so that redo goes to the next scene.
LEMMA RedoInverts == UndoInv => Undo!RedoInvertsUndo
<1> SUFFICES ASSUME UndoInv, um.hasUndo, body = ContentAt(um, um.index),
                    ContentAt(Undo!UndoOf(um), Undo!UndoOf(um).index) # body
             PROVE  ContentAt(Undo!RedoOf(Undo!UndoOf(um)), Undo!RedoOf(Undo!UndoOf(um)).index) = body
  BY DEF Undo!RedoInvertsUndo, ContentAt
<1> DEFINE u == Undo!UndoOf(um)
           j == Undo!UndoIndex(um)
           k == Undo!RedoIndex(u)
<1>1. ManagerOK(um) /\ um.index > 0 /\ um.index < Len(um.list) /\ um.index \in Nat /\ Len(um.list) \in Nat
  BY DEF UndoInv, ManagerOK, Managers
<1>2. j \in 0 .. um.index - 1 /\ \A i \in j + 1 .. um.index - 1 : ContentAt(um, i) = body
  BY <1>1, UndoneTo
<1>3. ManagerOK(u) /\ u.list = um.list /\ u.index = j
  BY <1>1, UndoStepOf
<1> HIDE DEF u, j
<1>4. \A i : ContentAt(u, i) = ContentAt(um, i)
  BY <1>3 DEF ContentAt, Undo!At
<1>5. ContentAt(um, j) # body
  BY <1>3, <1>4 DEF u
<1>6. u.index + 1 < Len(u.list) /\ u.hasRedo
  BY <1>1, <1>2, <1>3 DEF ManagerOK
<1>7. /\ k \in j + 1 .. Len(um.list) - 1
      /\ \A i \in j + 1 .. k - 1 : ContentAt(u, i) = ContentAt(u, j)
  BY <1>3, <1>6, RedoneTo
<1> HIDE DEF k
<1>8. ContentAt(um, j + 1) = body
  <2>1. CASE j + 1 = um.index
    BY <2>1
  <2>2. CASE j + 1 # um.index
    BY <1>1, <1>2, <2>2
  <2> QED BY <2>1, <2>2
<1>9. k = j + 1
  <2>1. j + 1 \notin j + 1 .. k - 1
    BY <1>4, <1>5, <1>7, <1>8
  <2> QED BY <1>1, <1>2, <1>7, <2>1
<1>10. Undo!RedoOf(u).list = u.list /\ Undo!RedoOf(u).index = k
  BY <1>3, <1>6, RedoStepOf DEF k
<1> QED BY <1>3, <1>4, <1>8, <1>9, <1>10 DEF ContentAt, Undo!At, u

LEMMA UndoGives == UndoInv => Undo!TypeOK /\ Undo!FlagsMatch /\ Undo!RedoInvertsUndo /\ Undo!AtMostOneKeyMissing
<1> SUFFICES ASSUME UndoInv PROVE Undo!TypeOK /\ Undo!FlagsMatch /\ Undo!AtMostOneKeyMissing
  BY RedoInverts
<1>1. um \in Managers /\ maxUndoCount \in Nat /\ maxUndoCount >= 1
  BY UndoLimits DEF UndoInv, ManagerOK
<1>2. um.index \in 0 .. maxUndoCount - 1
  BY <1>1 DEF UndoInv, ManagerOK, Managers
<1>3. um.list \in Seq(Undo!Scenes) /\ Len(um.list) <= maxUndoCount /\ um.hasUndo \in BOOLEAN /\ um.hasRedo \in BOOLEAN
  BY <1>1 DEF UndoInv, ManagerOK, Managers
<1>4. Undo!TypeOK
  BY <1>2, <1>3 DEF UndoInv, UndoTypes, UndoCounts, Undo!TypeOK
<1>5. Undo!FlagsMatch
  BY DEF UndoInv, ManagerOK, Undo!FlagsMatch
<1>6. Undo!AtMostOneKeyMissing
  <2> SUFFICES ASSUME ~timer, polls = 0, ~Blank(um)
               PROVE  loose <= 1 /\ (loose = 0 => body = ContentAt(um, um.index))
    BY DEF Undo!AtMostOneKeyMissing, ContentAt, Blank
  <2>1. ~Waits
    BY DEF Waits
  <2> QED BY <2>1 DEF UndoInv, UndoCounts, BodyIsCurrent
<1> QED BY <1>4, <1>5, <1>6

LEMMA UndoInit == Undo!Init => UndoInv
<1> SUFFICES ASSUME Undo!Init PROVE UndoInv
  OBVIOUS
<1>1. um = [list |-> <<>>, index |-> 0, hasUndo |-> FALSE, hasRedo |-> FALSE] /\ <<>> \in Seq(Undo!Scenes)
  BY DEF Undo!Init, Undo!EmptyManager
<1>2. ManagerOK(um) /\ Blank(um)
  BY <1>1, UndoLimits DEF ManagerOK, Managers, Blank
<1>3. UndoTypes /\ ~Composing
  BY DEF Undo!Init, UndoTypes, Composing
<1>4. keycont = 0 /\ loose = 0 /\ polls = 0
  BY DEF Undo!Init
<1>5. UndoCounts
  BY <1>2, <1>3, <1>4, UndoLimits DEF UndoCounts
<1> QED BY <1>2, <1>3, <1>5 DEF UndoInv, BodyIsCurrent

LEMMA NoKeys == 0 \in 0 .. maxInputCount /\ 0 <= 1 /\ \A k \in 0 .. maxInputCount : 0 <= k + 1
  BY UndoLimits

\* The history holds the body.
LEMMA InHistory ==
    ASSUME NEW c, ManagerOK(um'), ~Blank(um'), ContentAt(um', um'.index) = c, body' = c, UndoTypes',
           loose' = 0, keycont' \in 0 .. maxInputCount, polls' \in 0 .. MaxPolls, ~Composing'
    PROVE  UndoInv'
<1>1. loose' \in 0 .. maxInputCount /\ loose' <= keycont' + 1 /\ loose' <= 1
  BY NoKeys, Zenon
<1>2. UndoCounts'
  BY <1>1, Zenon DEF UndoCounts
<1>3. BodyIsCurrent'
  BY DEF BodyIsCurrent, ContentAt, Undo!At
<1> QED BY <1>2, <1>3 DEF UndoInv, ManagerOK, Managers

\* The history and the keys are as they were.
LEMMA Untouched ==
    ASSUME UndoInv, UNCHANGED <<um, keycont, loose>>, polls' \in 0 .. MaxPolls, UndoTypes',
           Waits => Waits', Composing' => Composing \/ loose >= 1, body' = body \/ loose >= 1
    PROVE  UndoInv'
<1>1. UndoCounts'
  BY UndoLimits DEF UndoInv, UndoCounts, Blank
<1>2. BodyIsCurrent'
  BY UndoLimits DEF UndoInv, UndoCounts, BodyIsCurrent, ContentAt, Undo!At, Blank
<1> QED BY <1>1, <1>2 DEF UndoInv, ManagerOK, Managers

LEMMA UndoStep == UndoInv /\ [Undo!Next]_(Undo!vars) => UndoInv'
<1> SUFFICES ASSUME UndoInv, [Undo!Next]_(Undo!vars) PROVE UndoInv'
  OBVIOUS
<1>0. Undo!Scene \in Undo!Scenes /\ Undo!Scene.content = body /\ ManagerOK(um) /\ um \in Managers
  BY DEF UndoInv, UndoTypes, Undo!Scene, Undo!Scenes, ManagerOK
<1>1. /\ keycont \in 0 .. maxInputCount /\ 0 \in 0 .. maxInputCount /\ polls \in 0 .. MaxPolls
      /\ body \in Contents /\ sel \in Carets \cup Spans
      /\ timer \in BOOLEAN /\ inputType \in BOOLEAN /\ isCollapsed \in BOOLEAN
  BY UndoLimits DEF UndoInv, UndoTypes, UndoCounts
<1>2. CASE UNCHANGED Undo!vars
  <2>1. UNCHANGED <<um, keycont, loose, polls, body>> /\ UndoTypes' /\ Waits = Waits' /\ Composing' = Composing
    BY <1>1, <1>2 DEF Undo!vars, UndoTypes, Waits, Composing
  <2> QED BY <1>1, <2>1, Untouched
<1>3. CASE Undo!Undo \/ Undo!Redo
  <2>1. PICK u : Undo!Restore(u) /\ ManagerOK(u) /\ ~Blank(u) /\ ~inputType
    BY <1>0, <1>3, UndoStepOf, RedoStepOf DEF Undo!Undo, Undo!Redo
  <2>2. u.index + 1 \in 1 .. Len(u.list) /\ u.list \in Seq(Undo!Scenes)
    BY <2>1 DEF ManagerOK, Managers, Blank
  <2>3. Undo!At(u, u.index) \in Undo!Scenes
    BY <2>2 DEF Undo!At
  <2>4. /\ um' = u /\ body' = ContentAt(u, u.index) /\ ContentAt(u, u.index) \in Contents /\ sel' \in Carets \cup Spans
        /\ keycont' = 0 /\ loose' = 0 /\ polls' = polls
    BY <2>1, <2>3 DEF Undo!Restore, Undo!Scenes, ContentAt
  <2>5. UndoTypes' /\ ~Composing'
    BY <1>1, <2>1, <2>4 DEF Undo!Restore, UndoTypes, Composing
  <2>6. ContentAt(um', um'.index) = ContentAt(u, u.index) /\ ManagerOK(um') /\ ~Blank(um')
    BY <2>1, <2>4
  <2> QED BY <1>1, <2>4, <2>5, <2>6, InHistory
<1>4. CASE Undo!Reset
  <2>1. um' = [list |-> <<>>, index |-> 0, hasUndo |-> FALSE, hasRedo |-> FALSE] /\ <<>> \in Seq(Undo!Scenes)
    BY <1>4 DEF Undo!Reset, Undo!EmptyManager
  <2>2. ManagerOK(um') /\ Blank(um')
    BY <2>1, UndoLimits DEF ManagerOK, Managers, Blank
  <2>3. UndoTypes' /\ ~Composing'
    BY <1>1, <1>4 DEF Undo!Reset, UndoTypes, Composing
  <2>4. keycont' = 0 /\ loose' = loose /\ polls' = polls
    BY <1>4 DEF Undo!Reset
  <2>5. UndoCounts'
    BY <2>2, <2>3, <2>4, UndoLimits DEF UndoInv, UndoCounts, Blank
  <2> QED BY <2>2, <2>3, <2>5 DEF UndoInv, BodyIsCurrent, ManagerOK, Managers, Blank
<1>5. ASSUME NEW s \in Carets \cup Spans, Undo!Select(s) PROVE UndoInv'
  <2>1. UNCHANGED <<um, keycont, loose, polls, body>> /\ UndoTypes' /\ Waits = Waits' /\ Composing' = Composing
    BY <1>1, <1>5 DEF Undo!Select, UndoTypes, Waits, Composing
  <2> QED BY <1>1, <2>1, Untouched
\* A save of the body, and what it makes of the count.
<1> DEFINE saved == Undo!Save(um, Undo!Scene, FALSE)
<1>6. ManagerOK(saved) /\ ~Blank(saved) /\ ContentAt(saved, saved.index) = body
  BY <1>0, Saved
<1> HIDE DEF saved
<1>7. CASE Undo!Keyup \/ Undo!TimerSaves \/ Undo!PollSaves
  <2>1. um' = saved /\ loose' = 0 /\ body' = body /\ (keycont' = keycont \/ keycont' = 0)
    BY <1>7 DEF Undo!Keyup, Undo!TimerSaves, Undo!PollSaves, saved
  <2>2. polls' = polls \/ (polls > 0 /\ polls' = polls - 1)
    BY <1>7 DEF Undo!Keyup, Undo!TimerSaves, Undo!PollSaves
  <2>3. polls' \in 0 .. MaxPolls
    BY <1>1, <2>2, UndoLimits
  <2>4. /\ timer' = FALSE /\ UNCHANGED <<body, sel, inputType>> /\ ~inputType
        /\ isCollapsed' = isCollapsed \/ isCollapsed' = TRUE
    BY <1>7 DEF Undo!Keyup, Undo!TimerSaves, Undo!PollSaves
  <2>5. UndoTypes' /\ ~Composing'
    BY <1>1, <2>4, Zenon DEF UndoTypes, Composing
  <2> QED BY <1>1, <1>6, <2>1, <2>3, <2>5, InHistory
<1>8. ASSUME NEW c \in Contents, NEW s \in Carets \cup Spans, Undo!ExecCommand(c, s) PROVE UndoInv'
  <2> DEFINE n == [content |-> c, address |-> s]
  <2>1. n \in Undo!Scenes /\ n.content = c
    BY DEF Undo!Scenes
  <2>2. /\ um' = Undo!Save(saved, n, FALSE) /\ body' = c /\ loose' = 0 /\ polls' = polls
        /\ keycont' = keycont \/ keycont' = 0
    BY <1>8 DEF Undo!ExecCommand, saved
  <2> HIDE DEF n
  <2>3. ManagerOK(um') /\ ~Blank(um') /\ ContentAt(um', um'.index) = c
    BY <1>6, <2>1, <2>2, Saved
  <2>4. UndoTypes' /\ ~Composing'
    BY <1>1, <1>8 DEF Undo!ExecCommand, UndoTypes, Composing
  <2> QED BY <1>1, <2>2, <2>3, <2>4, InHistory
<1>9. CASE Undo!CompositionEnd
  <2>1. UNCHANGED <<um, keycont, loose, polls, body>> /\ UndoTypes' /\ Waits = Waits' /\ ~Composing'
    BY <1>1, <1>9 DEF Undo!CompositionEnd, UndoTypes, Waits, Composing
  <2> QED BY <1>1, <2>1, Untouched
<1>10. CASE Undo!TimerWaits
  <2>1. UNCHANGED <<um, keycont, loose, body>> /\ UndoTypes' /\ Composing' = Composing
    BY <1>1, <1>10 DEF Undo!TimerWaits, UndoTypes, Composing
  <2>2. polls < MaxPolls /\ polls' = polls + 1
    BY <1>10 DEF Undo!TimerWaits
  <2>3. polls' \in 0 .. MaxPolls /\ polls' > 0
    BY <1>1, <2>2, UndoLimits
  <2>4. Waits'
    BY <2>3 DEF Waits
  <2> QED BY <2>1, <2>3, <2>4, Untouched
<1>11. ASSUME NEW c \in Contents, NEW p \in Carets, Undo!Compose(c, p) PROVE UndoInv'
  <2>1. UNCHANGED <<um, keycont, loose, polls>> /\ UndoTypes' /\ Waits = Waits' /\ Composing /\ Composing'
    BY <1>1, <1>11 DEF Undo!Compose, UndoTypes, Waits, Composing
  <2>2. loose >= 1
    BY <2>1 DEF UndoInv, UndoCounts
  <2> QED BY <1>1, <2>1, <2>2, Untouched
\* The keys: what they do to the history, and then to the body.
<1>12. ASSUME Undo!KeydownOnSpan \/ Undo!KeydownAtCursor,
              (\E c \in Contents, p \in Carets : Undo!Typed(c, p)) \/ Undo!CompositionStart
       PROVE  UndoInv'
  <2>1. /\ ManagerOK(um') /\ ~Blank(um') /\ polls' = polls
        /\ loose' \in 1 .. maxInputCount /\ keycont' \in 0 .. maxInputCount /\ loose' <= keycont' + 1
        /\ loose' <= 1 \/ Waits'
    <3>1. CASE Undo!KeydownOnSpan
      <4>1. um' = saved /\ loose' = 1 /\ polls' = polls /\ (keycont' = keycont \/ keycont' = 0)
        BY <3>1 DEF Undo!KeydownOnSpan, saved
      <4> QED BY <1>1, <1>6, <4>1, UndoLimits
    <3>2. CASE Undo!KeydownAtCursor
      <4> DEFINE first == IF Blank(um) THEN Undo!Save(um, Undo!Scene, TRUE) ELSE um
                 count == (IF first = um THEN keycont ELSE 0) + 1
                 full == count >= maxInputCount
                 final == IF full THEN Undo!Save(first, Undo!Scene, FALSE) ELSE first
      <4>1. ManagerOK(first) /\ ~Blank(first) /\ (~Blank(um) => first = um)
        BY <1>0, Saved
      <4>2. Blank(um) => first # um
        BY <4>1
      <4>3. /\ um' = final /\ keycont' = (IF ~full THEN count ELSE IF final # first THEN 0 ELSE maxInputCount)
            /\ loose' = (IF full \/ first # um THEN 1 ELSE loose + 1) /\ polls' = polls
        BY <3>2 DEF Undo!KeydownAtCursor, Blank
      <4>4. ~full => Waits'
        BY <3>2 DEF Undo!KeydownAtCursor, Blank, Waits
      <4> HIDE DEF first
      <4>5. ManagerOK(final) /\ ~Blank(final)
        BY <1>0, <4>1, Saved
      <4>6. count \in 1 .. maxInputCount + 1 /\ (first = um => count = keycont + 1) /\ keycont \in Nat /\ loose \in Nat
        BY UndoLimits DEF UndoInv, UndoCounts
      <4> HIDE DEF final, count
      <4>7. CASE full
        BY <4>3, <4>5, <4>6, <4>7, UndoLimits
      <4>8. CASE ~full /\ first # um
        BY <4>3, <4>4, <4>5, <4>6, <4>8, UndoLimits
      <4>9. CASE ~full /\ first = um
        <5>1. loose <= keycont + 1
          BY <4>2, <4>9 DEF UndoInv, UndoCounts
        <5> QED BY <4>3, <4>4, <4>5, <4>6, <4>9, <5>1, UndoLimits
      <4> QED BY <4>7, <4>8, <4>9
    <3> QED BY <1>12, <3>1, <3>2
  <2>2. timer' \in BOOLEAN /\ isCollapsed' \in BOOLEAN
    BY <1>1, <1>12 DEF Undo!KeydownOnSpan, Undo!KeydownAtCursor
  <2>3. body' \in Contents /\ sel' \in Carets \cup Spans /\ inputType' \in BOOLEAN
    BY <1>1, <1>12 DEF Undo!Typed, Undo!CompositionStart
  <2>4. UndoTypes'
    BY <2>2, <2>3 DEF UndoTypes
  <2>5. loose' \in 0 .. maxInputCount /\ loose' >= 1 /\ loose' # 0 /\ polls' \in 0 .. MaxPolls
    BY <1>1, <2>1, UndoLimits
  <2>6. UndoCounts'
    BY <2>1, <2>5, Zenon DEF UndoCounts
  <2> QED BY <2>1, <2>4, <2>5, <2>6 DEF UndoInv, BodyIsCurrent, ManagerOK, Managers, Blank
<1> QED BY <1>2, <1>3, <1>4, <1>5, <1>7, <1>8, <1>9, <1>10, <1>11, <1>12 DEF Undo!Next

-----------------------------------------------------------------------------
(* The dialogs                                                             *)

Pages == [node : {"absent", "bare", "empty", "page"}, hidden : {"undefined", "yes", "no"}, left : Nat, width : Nat,
          original : {"auto", "hidden", Nothing}, overflow : {"auto", "hidden"}, mask : {"absent", "hidden", "shown"}]

\* A rendered dialog was hidden once, only full screen dialogs change their width, and a
\* title is held below the drag mask and belongs to an open dialog, unless the page closed it.
DialogPlaces ==
    /\ \A d \in Dialogs : node[d] # "absent" => hidden[d] # "undefined"
    /\ \A d \in Dialogs \ FullScreen : dialogWidth[d] = Width /\ <<"size", d>> \notin timers
DialogDrags ==
    drag # Nothing => dragMask = "shown" /\ (lostDrag \/ Dialog!Open(drag.dialog))

DialogInv ==
    /\ Dialog!TypeOK /\ DialogPlaces /\ DialogDrags
    /\ Dialog!MaskFollowsDialogs /\ Dialog!OneOpenDialog
    /\ Dialog!ScrollBarsComeBack /\ Dialog!DragMaskGoes
    /\ Dialog!StaysInWindow /\ Dialog!FullScreenFills

\* A dialog is put into the window or at its left edge.
LEMMA InWindow ==
    ASSUME viewport \in Nat, NEW x \in Int, NEW w \in Nat
    PROVE  LET y == Dialog!SafeOffset(x, w) IN y \in Nat /\ (y + w <= viewport \/ y = 0)
<1>1. CASE x + w > viewport
  BY <1>1 DEF Dialog!SafeOffset, Dialog!AtLeast0
<1>2. CASE ~(x + w > viewport)
  BY <1>2 DEF Dialog!SafeOffset, Dialog!AtLeast0
<1> QED BY <1>1, <1>2

\* Changing one field of a page.
LEMMA SetNode ==
    ASSUME NEW s \in Pages, NEW x \in {"absent", "bare", "empty", "page"}
    PROVE  LET r == [s EXCEPT !.node = x]
           IN  /\ r \in Pages /\ r.node = x
               /\ r.hidden = s.hidden /\ r.left = s.left /\ r.width = s.width
               /\ r.original = s.original /\ r.overflow = s.overflow /\ r.mask = s.mask
  BY DEF Pages

LEMMA SetHidden ==
    ASSUME NEW s \in Pages, NEW x \in {"yes", "no"}
    PROVE  LET r == [s EXCEPT !.hidden = x]
           IN  /\ r \in Pages /\ r.hidden = x
               /\ r.node = s.node /\ r.left = s.left /\ r.width = s.width
               /\ r.original = s.original /\ r.overflow = s.overflow /\ r.mask = s.mask
  BY DEF Pages

LEMMA SetLeft ==
    ASSUME NEW s \in Pages, NEW x \in Nat
    PROVE  LET r == [s EXCEPT !.left = x]
           IN  /\ r \in Pages /\ r.left = x
               /\ r.node = s.node /\ r.hidden = s.hidden /\ r.width = s.width
               /\ r.original = s.original /\ r.overflow = s.overflow /\ r.mask = s.mask
  BY DEF Pages

LEMMA SetWidth ==
    ASSUME NEW s \in Pages, NEW x \in Nat
    PROVE  LET r == [s EXCEPT !.width = x]
           IN  /\ r \in Pages /\ r.width = x
               /\ r.node = s.node /\ r.hidden = s.hidden /\ r.left = s.left
               /\ r.original = s.original /\ r.overflow = s.overflow /\ r.mask = s.mask
  BY DEF Pages

LEMMA SetOriginal ==
    ASSUME NEW s \in Pages, NEW x \in {"auto", "hidden", Nothing}
    PROVE  LET r == [s EXCEPT !.original = x]
           IN  /\ r \in Pages /\ r.original = x
               /\ r.node = s.node /\ r.hidden = s.hidden /\ r.left = s.left
               /\ r.width = s.width /\ r.overflow = s.overflow /\ r.mask = s.mask
  BY DEF Pages

LEMMA SetOverflow ==
    ASSUME NEW s \in Pages, NEW x \in {"auto", "hidden"}
    PROVE  LET r == [s EXCEPT !.overflow = x]
           IN  /\ r \in Pages /\ r.overflow = x
               /\ r.node = s.node /\ r.hidden = s.hidden /\ r.left = s.left
               /\ r.width = s.width /\ r.original = s.original /\ r.mask = s.mask
  BY DEF Pages

LEMMA SetMask ==
    ASSUME NEW s \in Pages, NEW x \in {"hidden", "shown"}
    PROVE  LET r == [s EXCEPT !.mask = x]
           IN  /\ r \in Pages /\ r.mask = x
               /\ r.node = s.node /\ r.hidden = s.hidden /\ r.left = s.left
               /\ r.width = s.width /\ r.original = s.original /\ r.overflow = s.overflow
  BY DEF Pages

\* What hiding and showing leave alone.
Keeps(r, s) == r.node = s.node /\ r.left = s.left /\ r.original = s.original /\ r.overflow = s.overflow

LEMMA HideOnce ==
    ASSUME NEW s \in Pages
    PROVE  LET r == Dialog!Hide(s)
           IN  /\ r \in Pages /\ Keeps(r, s) /\ r.hidden = "yes"
               /\ s.hidden = "yes" => r = s
               /\ s.hidden # "yes" => r.mask = "hidden" /\ r.width = Width
<1>1. CASE s.hidden = "yes"
  BY <1>1 DEF Dialog!Hide, Keeps
<1>2. CASE s.hidden # "yes"
  <2> DEFINE a == [s EXCEPT !.hidden = "yes"]
             b == [a EXCEPT !.width = Width]
             c == [b EXCEPT !.mask = "hidden"]
  <2>1. Dialog!Hide(s) = c
    BY <1>2 DEF Dialog!Hide, Dialog!HideMask
  <2>2. a \in Pages /\ Keeps(a, s) /\ a.hidden = "yes"
    BY SetHidden DEF Keeps
  <2> HIDE DEF a
  <2>3. b \in Pages /\ Keeps(b, s) /\ b.hidden = "yes" /\ b.width = Width
    BY <2>2, SetWidth, DialogAssumption DEF Keeps
  <2> HIDE DEF b
  <2>4. c \in Pages /\ Keeps(c, s) /\ c.hidden = "yes" /\ c.width = Width /\ c.mask = "hidden"
    BY <2>3, SetMask DEF Keeps
  <2> QED BY <1>2, <2>1, <2>4
<1> QED BY <1>1, <1>2

LEMMA ShowOnce ==
    ASSUME NEW s \in Pages
    PROVE  LET r == Dialog!Show(s)
           IN  /\ r \in Pages /\ Keeps(r, s) /\ r.width = s.width
               /\ s.hidden = "yes" => r.hidden = "no" /\ r.mask = "shown"
               /\ s.hidden # "yes" => r = s
<1>1. CASE s.hidden # "yes"
  BY <1>1 DEF Dialog!Show, Keeps
<1>2. CASE s.hidden = "yes"
  <2> DEFINE a == [s EXCEPT !.hidden = "no"]
             b == [a EXCEPT !.mask = "shown"]
  <2>1. Dialog!Show(s) = b
    BY <1>2 DEF Dialog!Show, Dialog!ShowMask
  <2>2. a \in Pages /\ Keeps(a, s) /\ a.width = s.width /\ a.hidden = "no"
    BY SetHidden DEF Keeps
  <2> HIDE DEF a
  <2>3. b \in Pages /\ Keeps(b, s) /\ b.width = s.width /\ b.hidden = "no" /\ b.mask = "shown"
    BY <2>2, SetMask DEF Keeps
  <2> QED BY <1>2, <2>1, <2>3
<1> QED BY <1>1, <1>2

\* A fresh node, hidden, below a mask that is not shown if it was not.
LEMMA Rendered ==
    ASSUME NEW s \in Pages, s.hidden # "no", s.mask # "shown"
    PROVE  LET r == Dialog!Render(s)
           IN  /\ r \in Pages /\ r.node = "empty" /\ r.hidden = "yes" /\ r.mask # "shown"
               /\ r.left = s.left /\ r.original = s.original /\ r.overflow = s.overflow
               /\ r.width = s.width \/ r.width = Width
<1> DEFINE a == [s EXCEPT !.node = "empty"]
           b == IF a.mask = "absent" THEN [a EXCEPT !.mask = "hidden"] ELSE a
<1>1. Dialog!Render(s) = Dialog!Hide(b)
  BY DEF Dialog!Render, Dialog!PostRender, Dialog!FreshNode, Dialog!HideMask
<1>2. a \in Pages /\ a.node = "empty" /\ a.mask = s.mask
      /\ a.left = s.left /\ a.original = s.original /\ a.overflow = s.overflow /\ a.width = s.width
  BY SetNode
<1> HIDE DEF a
<1>3. b \in Pages /\ b.node = "empty" /\ b.mask # "shown"
      /\ b.left = s.left /\ b.original = s.original /\ b.overflow = s.overflow /\ b.width = s.width
  <2>1. CASE a.mask = "absent"
    BY <1>2, <2>1, SetMask
  <2>2. CASE a.mask # "absent"
    BY <1>2, <2>2
  <2> QED BY <2>1, <2>2
<1> HIDE DEF b
<1> QED BY <1>1, <1>3, HideOnce DEF Keeps

\* How an open dialog stands in the page, and what it has taken from it.
Stands(d, r, s) ==
    /\ r \in Pages /\ r.hidden = "no" /\ r.mask = "shown"
    /\ d \in FullScreen => r.width = viewport /\ r.original = s.overflow /\ r.overflow = "hidden"
    /\ d \notin FullScreen => /\ r.width = s.width /\ r.original = s.original /\ r.overflow = s.overflow
                              /\ r.left + r.width <= viewport \/ r.left = 0

LEMMA Centred ==
    ASSUME viewport \in Nat, NEW d \in Dialogs, NEW s \in Pages,
           s.hidden = "yes" \/ (s.hidden = "no" /\ s.mask = "shown")
    PROVE  LET r == Dialog!ShowAtCenter(d, s) IN Stands(d, r, s) /\ r.node = s.node
<1>1. CASE d \in FullScreen
  <2> DEFINE a == [s EXCEPT !.left = 0]
             b == [a EXCEPT !.width = viewport]
             c == [b EXCEPT !.original = s.overflow]
             e == [c EXCEPT !.overflow = "hidden"]
  <2>1. Dialog!ShowAtCenter(d, s) = Dialog!Show(e)
    BY <1>1 DEF Dialog!ShowAtCenter
  <2>2. a \in Pages /\ a.node = s.node /\ a.hidden = s.hidden /\ a.mask = s.mask
    BY SetLeft
  <2> HIDE DEF a
  <2>3. b \in Pages /\ b.node = s.node /\ b.hidden = s.hidden /\ b.mask = s.mask /\ b.width = viewport
    BY <2>2, SetWidth
  <2> HIDE DEF b
  <2>4. s.overflow \in {"auto", "hidden", Nothing}
    BY DEF Pages
  <2>5. c \in Pages /\ c.node = s.node /\ c.hidden = s.hidden /\ c.mask = s.mask /\ c.width = viewport
        /\ c.original = s.overflow
    BY <2>3, <2>4, SetOriginal
  <2> HIDE DEF c
  <2>6. e \in Pages /\ e.node = s.node /\ e.hidden = s.hidden /\ e.mask = s.mask /\ e.width = viewport
        /\ e.original = s.overflow /\ e.overflow = "hidden"
    BY <2>5, SetOverflow
  <2> HIDE DEF e
  <2> QED BY <1>1, <2>1, <2>6, ShowOnce DEF Stands, Keeps
<1>2. CASE d \notin FullScreen
  <2> DEFINE x == Dialog!SafeOffset(Dialog!AtLeast0((viewport - s.width) \div 2), s.width)
             a == [s EXCEPT !.left = x]
  <2>1. Dialog!ShowAtCenter(d, s) = Dialog!Show(a)
    BY <1>2 DEF Dialog!ShowAtCenter
  <2>2. s.width \in Nat
    BY DEF Pages
  <2>3. Dialog!AtLeast0((viewport - s.width) \div 2) \in Int
    BY <2>2 DEF Dialog!AtLeast0
  <2>4. x \in Nat /\ (x + s.width <= viewport \/ x = 0)
    BY <2>2, <2>3, InWindow
  <2> HIDE DEF x
  <2>5. a \in Pages /\ a.node = s.node /\ a.hidden = s.hidden /\ a.mask = s.mask /\ a.width = s.width /\ a.left = x
        /\ a.original = s.original /\ a.overflow = s.overflow
    BY <2>4, SetLeft
  <2> HIDE DEF a
  <2>6. LET r == Dialog!Show(a)
        IN  /\ r \in Pages /\ r.hidden = "no" /\ r.mask = "shown" /\ r.left = x /\ r.width = s.width
            /\ r.node = s.node /\ r.original = s.original /\ r.overflow = s.overflow
    BY <2>5, ShowOnce DEF Keeps
  <2> QED BY <1>2, <2>1, <2>4, <2>6 DEF Stands
<1> QED BY <1>1, <1>2

\* Opening shows the page of a dialog, be its node there or not.
LEMMA Opened ==
    ASSUME viewport \in Nat, NEW d \in Dialogs, NEW s \in Pages, s.hidden # "no", s.mask # "shown",
           s.node \in {"empty", "page"} => s.hidden = "yes",
           d \in FullScreen => s.node = "empty",
           d \notin FullScreen => s.width = Width
    PROVE  LET r == Dialog!OpenDialog(d, s) IN Stands(d, r, s) /\ r.node = "page"
<1>1. CASE s.node \in {"empty", "page"}
  <2> DEFINE a == [s EXCEPT !.node = "page"]
  <2>1. Dialog!OpenDialog(d, s) = Dialog!ShowAtCenter(d, a)
    BY <1>1 DEF Dialog!OpenDialog, Dialog!Reset
  <2>2. a \in Pages /\ a.node = "page" /\ a.hidden = "yes" /\ a.width = s.width
        /\ a.original = s.original /\ a.overflow = s.overflow
    BY <1>1, SetNode
  <2> HIDE DEF a
  <2> QED BY <2>1, <2>2, Centred DEF Stands
<1>2. CASE s.node \notin {"empty", "page"}
  <2> DEFINE f == Dialog!Render(s)
             a == [f EXCEPT !.node = "page"]
             b == Dialog!ShowAtCenter(d, a)
  <2>1. Dialog!OpenDialog(d, s) = Dialog!ShowAtCenter(d, b)
    BY <1>2 DEF Dialog!OpenDialog, Dialog!Reset
  <2>2. f \in Pages /\ f.hidden = "yes" /\ f.width = Width /\ f.original = s.original /\ f.overflow = s.overflow
        /\ d \notin FullScreen /\ s.width = Width
    BY <1>2, Rendered
  <2> HIDE DEF f
  <2>3. a \in Pages /\ a.node = "page" /\ a.hidden = "yes" /\ a.width = Width
        /\ a.original = s.original /\ a.overflow = s.overflow
    BY <2>2, SetNode
  <2> HIDE DEF a
  <2>4. Stands(d, b, a) /\ b.node = "page"
    BY <2>3, Centred
  <2> HIDE DEF b
  <2>5. LET r == Dialog!ShowAtCenter(d, b) IN Stands(d, r, b) /\ r.node = "page"
    BY <2>4, Centred DEF Stands
  <2> QED BY <2>1, <2>2, <2>3, <2>4, <2>5 DEF Stands
<1> QED BY <1>1, <1>2

\* Closing empties the node and gives the scroll bars back.
LEMMA Closed ==
    ASSUME NEW d \in Dialogs, NEW s \in Pages, s.hidden = "no", s.node = "page",
           d \in FullScreen => s.original = "auto"
    PROVE  LET r == Dialog!CloseDialog(d, s)
           IN  /\ r \in Pages /\ r.node = "bare" /\ r.hidden = "yes" /\ r.mask = "hidden" /\ r.width = Width
               /\ r.overflow = IF d \in FullScreen THEN "auto" ELSE s.overflow
<1> DEFINE a == IF d \in FullScreen THEN [s EXCEPT !.overflow = s.original, !.original = Nothing] ELSE s
           b == [a EXCEPT !.node = IF a.node = "page" THEN "bare" ELSE a.node]
<1>1. Dialog!CloseDialog(d, s) = Dialog!Hide(b)
  BY DEF Dialog!CloseDialog
<1>2. a \in Pages /\ a.node = "page" /\ a.hidden = "no" /\ a.overflow = IF d \in FullScreen THEN "auto" ELSE s.overflow
  <2>1. CASE d \in FullScreen
    <3> DEFINE e == [s EXCEPT !.overflow = s.original]
               f == [e EXCEPT !.original = Nothing]
    <3>1. a = f
      BY <2>1
    <3>2. e \in Pages /\ e.node = "page" /\ e.hidden = "no" /\ e.overflow = "auto"
      BY <2>1, SetOverflow
    <3> HIDE DEF e
    <3>3. f \in Pages /\ f.node = "page" /\ f.hidden = "no" /\ f.overflow = "auto"
      BY <3>2, SetOriginal
    <3> QED BY <2>1, <3>1, <3>3
  <2>2. CASE d \notin FullScreen
    BY <2>2
  <2> QED BY <2>1, <2>2
<1> HIDE DEF a
<1>3. b = [a EXCEPT !.node = "bare"]
  BY <1>2
<1> HIDE DEF b
<1>4. b \in Pages /\ b.node = "bare" /\ b.hidden = "no" /\ b.overflow = a.overflow
  BY <1>2, <1>3, SetNode
<1>5. LET r == Dialog!Hide(b)
      IN  /\ r \in Pages /\ r.node = "bare" /\ r.hidden = "yes" /\ r.mask = "hidden" /\ r.width = Width
          /\ r.overflow = a.overflow
  BY <1>4, HideOnce DEF Keeps
<1> QED BY <1>1, <1>2, <1>5

\* What became of dialog d, and of the others.
LEMMA Became ==
    ASSUME Dialog!TypeOK, NEW d \in Dialogs, NEW s \in Pages, Dialog!Becomes(d, s)
    PROVE  /\ node' \in [Dialogs -> {"absent", "bare", "empty", "page"}]
           /\ hidden' \in [Dialogs -> {"undefined", "yes", "no"}]
           /\ left' \in [Dialogs -> Nat] /\ dialogWidth' \in [Dialogs -> Nat]
           /\ original' \in [Dialogs -> {"auto", "hidden", Nothing}]
           /\ overflow' = s.overflow /\ s.overflow \in {"auto", "hidden"}
           /\ mask' = s.mask /\ s.mask \in {"absent", "hidden", "shown"}
           /\ dragMask' = dragMask \/ dragMask' = "hidden"
           /\ dragMask = "shown" => dragMask' = "shown"
           /\ node'[d] = s.node /\ hidden'[d] = s.hidden /\ left'[d] = s.left /\ dialogWidth'[d] = s.width
           /\ original'[d] = s.original
           /\ \A e \in Dialogs \ {d} :
                 /\ node'[e] = node[e] /\ hidden'[e] = hidden[e] /\ left'[e] = left[e]
                 /\ dialogWidth'[e] = dialogWidth[e] /\ original'[e] = original[e]
<1>1. s.node \in {"absent", "bare", "empty", "page"} /\ s.hidden \in {"undefined", "yes", "no"} /\ s.left \in Nat
      /\ s.width \in Nat /\ s.original \in {"auto", "hidden", Nothing} /\ s.overflow \in {"auto", "hidden"}
      /\ s.mask \in {"absent", "hidden", "shown"}
  BY DEF Pages
<1>2. node' = [node EXCEPT ![d] = s.node] /\ hidden' = [hidden EXCEPT ![d] = s.hidden]
      /\ left' = [left EXCEPT ![d] = s.left] /\ dialogWidth' = [dialogWidth EXCEPT ![d] = s.width]
      /\ original' = [original EXCEPT ![d] = s.original] /\ overflow' = s.overflow /\ mask' = s.mask
      /\ dragMask' = IF dragMask = "absent" /\ s.mask # "absent" THEN "hidden" ELSE dragMask
  BY DEF Dialog!Becomes
<1> QED BY <1>1, <1>2 DEF Dialog!TypeOK

LEMMA PageOf ==
    ASSUME Dialog!TypeOK, NEW d \in Dialogs
    PROVE  LET s == Dialog!Page(d)
           IN  /\ s \in Pages /\ s.node = node[d] /\ s.hidden = hidden[d] /\ s.left = left[d]
               /\ s.width = dialogWidth[d] /\ s.original = original[d] /\ s.overflow = overflow /\ s.mask = mask
  BY DEF Dialog!TypeOK, Dialog!Page, Pages

\* When nothing covers the page, no dialog is open.
LEMMA NothingOpen ==
    ASSUME DialogInv, mask # "shown"
    PROVE  (\A d \in Dialogs : hidden[d] # "no") /\ overflow = "auto"
<1>1. \A d \in Dialogs : hidden[d] # "no"
  BY DEF DialogInv, Dialog!MaskFollowsDialogs, Dialog!Open
<1>2. overflow # "hidden" /\ overflow \in {"auto", "hidden"}
  BY <1>1, DialogAssumption DEF DialogInv, Dialog!ScrollBarsComeBack, Dialog!Open, Dialog!TypeOK
<1> QED BY <1>1, <1>2

LEMMA OpenStep ==
    ASSUME DialogInv, NEW d \in Dialogs, NEW s \in Pages, s.node = "page", s.hidden = "no", s.mask = "shown",
           d \in FullScreen => s.width = viewport /\ s.original = "auto" /\ s.overflow = "hidden",
           d \notin FullScreen => /\ s.width = Width /\ s.overflow = overflow
                                  /\ s.left + s.width <= viewport \/ s.left = 0,
           mask # "shown", dragMask # "shown", drag = Nothing,
           Dialog!Becomes(d, s), active' = d, UNCHANGED <<drag, viewport, timers, lostDrag>>
    PROVE  DialogInv'
<1>1. Dialog!TypeOK /\ DialogPlaces /\ (\A e \in Dialogs : hidden[e] # "no") /\ overflow = "auto"
  BY NothingOpen DEF DialogInv
<1>2. /\ overflow' = s.overflow /\ mask' = "shown" /\ (dragMask' = dragMask \/ dragMask' = "hidden")
      /\ node'[d] = "page" /\ hidden'[d] = "no" /\ left'[d] = s.left /\ dialogWidth'[d] = s.width
      /\ original'[d] = s.original
      /\ \A e \in Dialogs \ {d} :
            /\ node'[e] = node[e] /\ hidden'[e] = hidden[e] /\ left'[e] = left[e]
            /\ dialogWidth'[e] = dialogWidth[e] /\ original'[e] = original[e]
  BY <1>1, Became
<1>3. Dialog!TypeOK'
  BY <1>1, Became DEF Dialog!TypeOK
<1>4. DialogPlaces'
  BY <1>1, <1>2 DEF DialogPlaces
<1>5. \A e \in Dialogs : hidden'[e] = "no" <=> e = d
  BY <1>1, <1>2
<1>6. Dialog!MaskFollowsDialogs' /\ Dialog!OneOpenDialog'
  BY <1>2, <1>5 DEF Dialog!MaskFollowsDialogs, Dialog!OneOpenDialog, Dialog!Open
<1>7. Dialog!ScrollBarsComeBack'
  BY <1>1, <1>2, <1>5, DialogAssumption DEF Dialog!ScrollBarsComeBack, Dialog!Open
<1>8. Dialog!DragMaskGoes' /\ DialogDrags'
  BY <1>2 DEF Dialog!DragMaskGoes, DialogDrags
<1>9. Dialog!StaysInWindow' /\ Dialog!FullScreenFills'
  BY <1>2, <1>5, DialogAssumption DEF Dialog!StaysInWindow, Dialog!FullScreenFills, Dialog!Open
<1> QED BY <1>3, <1>4, <1>6, <1>7, <1>8, <1>9 DEF DialogInv

LEMMA CloseStep ==
    ASSUME DialogInv, NEW d \in Dialogs, Dialog!Open(d), NEW s \in Pages, s.node = "bare", s.hidden = "yes",
           s.mask = "hidden", s.width = Width, s.overflow = IF d \in FullScreen THEN "auto" ELSE overflow,
           Dialog!Becomes(d, s), UNCHANGED <<active, drag, viewport, timers>>, lostDrag' \in BOOLEAN,
           lostDrag => lostDrag',
           drag = Nothing \/ drag.dialog # d \/ lostDrag'
    PROVE  DialogInv'
<1>1. Dialog!TypeOK /\ DialogPlaces /\ (\A e \in Dialogs \ {d} : hidden[e] # "no") /\ hidden[d] = "no"
  BY DEF DialogInv, Dialog!OneOpenDialog, Dialog!Open
<1>2. /\ overflow' = s.overflow /\ mask' = "hidden" /\ (dragMask' = dragMask \/ dragMask' = "hidden")
      /\ dragMask = "shown" => dragMask' = "shown"
      /\ node'[d] = "bare" /\ hidden'[d] = "yes" /\ dialogWidth'[d] = Width
      /\ \A e \in Dialogs \ {d} :
            /\ node'[e] = node[e] /\ hidden'[e] = hidden[e] /\ left'[e] = left[e]
            /\ dialogWidth'[e] = dialogWidth[e] /\ original'[e] = original[e]
  BY <1>1, Became
<1>3. Dialog!TypeOK'
  BY <1>1, Became DEF Dialog!TypeOK
<1>4. DialogPlaces'
  BY <1>1, <1>2 DEF DialogPlaces
<1>5. \A e \in Dialogs : hidden'[e] # "no"
  BY <1>1, <1>2
<1>6. Dialog!MaskFollowsDialogs' /\ Dialog!OneOpenDialog'
  BY <1>2, <1>5 DEF Dialog!MaskFollowsDialogs, Dialog!OneOpenDialog, Dialog!Open
<1>7. overflow' = "auto"
  <2>1. CASE d \in FullScreen
    BY <1>2, <2>1
  <2>2. CASE d \notin FullScreen
    <3>1. \A e \in FullScreen : hidden[e] # "no"
      BY <1>1, <2>2, DialogAssumption
    <3>2. overflow # "hidden" /\ overflow \in {"auto", "hidden"}
      BY <3>1 DEF DialogInv, Dialog!ScrollBarsComeBack, Dialog!Open, Dialog!TypeOK
    <3> QED BY <1>2, <2>2, <3>2
  <2> QED BY <2>1, <2>2
<1>8. Dialog!ScrollBarsComeBack'
  BY <1>5, <1>7, DialogAssumption DEF Dialog!ScrollBarsComeBack, Dialog!Open
<1>9. Dialog!DragMaskGoes' /\ DialogDrags'
  <2>1. dragMask' = "shown" => dragMask = "shown"
    BY <1>2
  <2>2. Dialog!DragMaskGoes'
    BY <2>1 DEF DialogInv, Dialog!DragMaskGoes
  <2>3. DialogDrags'
    BY <1>1, <1>2 DEF DialogInv, DialogDrags, Dialog!Open, Dialog!TypeOK
  <2> QED BY <2>2, <2>3
<1>10. Dialog!StaysInWindow' /\ Dialog!FullScreenFills'
  BY <1>5, DialogAssumption DEF Dialog!StaysInWindow, Dialog!FullScreenFills, Dialog!Open
<1> QED BY <1>3, <1>4, <1>6, <1>8, <1>9, <1>10 DEF DialogInv

LEMMA DialogInit == Dialog!Init => DialogInv
<1> SUFFICES ASSUME Dialog!Init PROVE DialogInv
  OBVIOUS
<1>1. /\ node = [d \in Dialogs |-> "absent"] /\ hidden = [d \in Dialogs |-> "undefined"]
      /\ left = [d \in Dialogs |-> 0] /\ dialogWidth = [d \in Dialogs |-> Width]
      /\ original = [d \in Dialogs |-> Nothing] /\ overflow = "auto" /\ mask = "absent" /\ dragMask = "absent"
      /\ active = Nothing /\ drag = Nothing /\ viewport \in Viewports /\ timers = {} /\ lostDrag = FALSE
  BY DEF Dialog!Init
<1>2. Dialog!TypeOK
  BY <1>1, DialogAssumption DEF Dialog!TypeOK
<1>3. DialogPlaces /\ DialogDrags
  BY <1>1 DEF DialogPlaces, DialogDrags
<1>4. \A d \in Dialogs : ~Dialog!Open(d)
  BY <1>1 DEF Dialog!Open
<1>5. Dialog!MaskFollowsDialogs /\ Dialog!OneOpenDialog /\ Dialog!ScrollBarsComeBack /\ Dialog!DragMaskGoes
      /\ Dialog!StaysInWindow /\ Dialog!FullScreenFills
  BY <1>1, <1>4, DialogAssumption DEF Dialog!MaskFollowsDialogs, Dialog!OneOpenDialog, Dialog!ScrollBarsComeBack,
       Dialog!DragMaskGoes, Dialog!StaysInWindow, Dialog!FullScreenFills
<1> QED BY <1>2, <1>3, <1>5 DEF DialogInv

\* Opens, from the toolbar and from a menu.
LEMMA OpenSteps ==
    ASSUME DialogInv, NEW d \in Dialogs, Dialog!ClickToolbar(d) \/ Dialog!OpenFromMenu(d)
    PROVE  DialogInv'
<1> DEFINE p == Dialog!Page(d)
<1>1. Dialog!TypeOK /\ mask # "shown" /\ dragMask # "shown" /\ drag = Nothing
      /\ active' = d /\ UNCHANGED <<drag, viewport, timers, lostDrag>>
  BY DEF DialogInv, Dialog!ClickToolbar, Dialog!OpenFromMenu, Dialog!Blocked
<1>2. /\ p \in Pages /\ p.node = node[d] /\ p.hidden = hidden[d] /\ p.width = dialogWidth[d]
      /\ p.overflow = overflow /\ p.mask = mask
  BY <1>1, PageOf
<1>3. hidden[d] # "no" /\ overflow = "auto" /\ viewport \in Nat
  BY <1>1, NothingOpen, DialogAssumption DEF Dialog!TypeOK
<1>4. d \notin FullScreen => p.width = Width
  BY <1>2 DEF DialogInv, DialogPlaces
<1> HIDE DEF p
<1>5. CASE Dialog!ClickToolbar(d)
  <2> DEFINE f == Dialog!Render(p)
             s == Dialog!OpenDialog(d, f)
  <2>1. f \in Pages /\ f.node = "empty" /\ f.hidden = "yes" /\ f.mask # "shown" /\ f.overflow = overflow
        /\ (f.width = p.width \/ f.width = Width)
    BY <1>1, <1>2, <1>3, Rendered
  <2>2. Dialog!Becomes(d, s)
    BY <1>5 DEF Dialog!ClickToolbar, p
  <2> HIDE DEF f
  <2>3. Stands(d, s, f) /\ s.node = "page"
    BY <1>3, <1>4, <2>1, Opened
  <2> HIDE DEF s
  <2> QED BY <1>1, <1>3, <1>4, <2>1, <2>2, <2>3, OpenStep DEF Stands
<1>6. CASE Dialog!OpenFromMenu(d)
  <2> DEFINE s == Dialog!OpenDialog(d, p)
  <2>1. Dialog!Becomes(d, s) /\ d \notin FullScreen
    BY <1>6 DEF Dialog!OpenFromMenu, p
  <2>2. p.node \in {"empty", "page"} => p.hidden = "yes"
    BY <1>1, <1>2, <1>3 DEF DialogInv, DialogPlaces, Dialog!TypeOK
  <2>3. Stands(d, s, p) /\ s.node = "page"
    BY <1>1, <1>2, <1>3, <1>4, <2>1, <2>2, Opened
  <2> HIDE DEF s
  <2> QED BY <1>1, <1>2, <1>4, <2>1, <2>3, OpenStep DEF Stands
<1> QED BY <1>5, <1>6

\* Closes, by a button, a click on the mask, or the page of the dialog.
LEMMA CloseSteps ==
    ASSUME DialogInv, NEW d \in Dialogs, Dialog!Open(d),
           NEW s, s = Dialog!CloseDialog(d, Dialog!Page(d))
                  \/ (d \notin FullScreen /\ s = Dialog!CloseDialog(d, Dialog!CloseDialog(d, Dialog!Page(d)))),
           Dialog!Becomes(d, s), UNCHANGED <<active, drag, viewport, timers>>, lostDrag' \in BOOLEAN,
           lostDrag => lostDrag', drag = Nothing \/ drag.dialog # d \/ lostDrag'
    PROVE  DialogInv'
<1> DEFINE p == Dialog!Page(d)
           q == Dialog!CloseDialog(d, p)
<1>1. Dialog!TypeOK /\ hidden[d] = "no" /\ node[d] = "page" /\ (d \in FullScreen => original[d] = "auto")
  BY DEF DialogInv, Dialog!Open, Dialog!OneOpenDialog, Dialog!ScrollBarsComeBack
<1>2. /\ p \in Pages /\ p.node = "page" /\ p.hidden = "no" /\ p.overflow = overflow
      /\ d \in FullScreen => p.original = "auto"
  BY <1>1, PageOf
<1> HIDE DEF p
<1>3. /\ q \in Pages /\ q.node = "bare" /\ q.hidden = "yes" /\ q.mask = "hidden" /\ q.width = Width
      /\ q.overflow = IF d \in FullScreen THEN "auto" ELSE overflow
  BY <1>2, Closed
<1>4. d \notin FullScreen => Dialog!CloseDialog(d, q) = q
  <2> SUFFICES ASSUME d \notin FullScreen PROVE Dialog!CloseDialog(d, q) = q
    OBVIOUS
  <2> DEFINE b == [q EXCEPT !.node = IF q.node = "page" THEN "bare" ELSE q.node]
  <2>1. Dialog!CloseDialog(d, q) = Dialog!Hide(b)
    BY DEF Dialog!CloseDialog
  <2> HIDE DEF q
  <2>2. b = [q EXCEPT !.node = "bare"]
    BY <1>3
  <2>3. [q EXCEPT !.node = "bare"] = q
    BY <1>3 DEF Pages
  <2> QED BY <1>3, <2>1, <2>2, <2>3, HideOnce
<1>5. s = q
  BY <1>4 DEF p
<1> HIDE DEF q
<1> QED BY <1>3, <1>5, CloseStep

LEMMA DialogStep == DialogInv /\ [Dialog!Next]_(Dialog!vars) => DialogInv'
<1> SUFFICES ASSUME DialogInv, [Dialog!Next]_(Dialog!vars) PROVE DialogInv'
  OBVIOUS
<1>0. Dialog!TypeOK /\ viewport \in Nat /\ viewport \in Viewports
  BY DialogAssumption DEF DialogInv, Dialog!TypeOK
<1> DEFINE Kept == UNCHANGED <<node, hidden, original, overflow, mask, active, drag, dragMask, lostDrag>>
\* What the timers, a move and a resize leave alone.
<1>1. ASSUME Kept, left' \in [Dialogs -> Nat], dialogWidth' \in [Dialogs -> Nat], viewport' \in Viewports,
             timers' \subseteq {"offset", "size"} \X Dialogs, DialogPlaces',
             Dialog!StaysInWindow', Dialog!FullScreenFills'
      PROVE  DialogInv'
  <2>1. Dialog!TypeOK'
    BY <1>0, <1>1 DEF Dialog!TypeOK
  <2>2. Dialog!MaskFollowsDialogs' /\ Dialog!OneOpenDialog'
    BY <1>1 DEF DialogInv, Dialog!MaskFollowsDialogs, Dialog!OneOpenDialog, Dialog!Open
  <2>3. Dialog!ScrollBarsComeBack'
    BY <1>1 DEF DialogInv, Dialog!ScrollBarsComeBack, Dialog!Open
  <2>4. Dialog!DragMaskGoes' /\ DialogDrags'
    BY <1>1 DEF DialogInv, Dialog!DragMaskGoes, DialogDrags, Dialog!Open
  <2> QED BY <1>1, <2>1, <2>2, <2>3, <2>4 DEF DialogInv
<1>2. CASE UNCHANGED Dialog!vars
  <2>1. Kept /\ UNCHANGED <<left, dialogWidth, viewport, timers>>
    BY <1>2 DEF Dialog!vars
  <2>2. DialogPlaces' /\ Dialog!StaysInWindow' /\ Dialog!FullScreenFills'
    BY <2>1 DEF DialogInv, DialogPlaces, Dialog!StaysInWindow, Dialog!FullScreenFills, Dialog!Open
  <2> QED BY <1>0, <1>1, <2>1, <2>2 DEF Dialog!TypeOK
<1>3. ASSUME NEW d \in Dialogs, Dialog!Close(d), ~UNCHANGED Dialog!vars PROVE DialogInv'
  <2>1. Dialog!Open(d) /\ dragMask # "shown" /\ UNCHANGED <<active, drag, viewport, timers, lostDrag>>
    BY <1>3 DEF Dialog!Close
  <2>2. drag = Nothing
    BY <2>1 DEF DialogInv, DialogDrags
  <2>3. PICK s : /\ Dialog!Becomes(d, s)
                 /\ \/ s = Dialog!CloseDialog(d, Dialog!Page(d))
                    \/ d \notin FullScreen /\ s = Dialog!CloseDialog(d, Dialog!CloseDialog(d, Dialog!Page(d)))
    BY <1>3 DEF Dialog!Close
  <2> QED BY <1>0, <2>1, <2>2, <2>3, CloseSteps DEF Dialog!TypeOK
<1>4. CASE Dialog!ClickMask
  <2>1. mask = "shown" /\ dragMask # "shown" /\ UNCHANGED <<active, drag, viewport, timers, lostDrag>>
        /\ Dialog!Becomes(active, Dialog!CloseDialog(active, Dialog!Page(active)))
    BY <1>4 DEF Dialog!ClickMask
  <2>2. active \in Dialogs /\ Dialog!Open(active) /\ drag = Nothing
    BY <2>1 DEF DialogInv, DialogDrags, Dialog!MaskFollowsDialogs, Dialog!OneOpenDialog
  <2> QED BY <1>0, <2>1, <2>2, CloseSteps DEF Dialog!TypeOK
<1>5. ASSUME NEW d \in Dialogs, Dialog!CloseByPage(d) PROVE DialogInv'
  <2>1. Dialog!Open(d) /\ UNCHANGED <<active, drag, viewport, timers>>
        /\ Dialog!Becomes(d, Dialog!CloseDialog(d, Dialog!Page(d)))
        /\ lostDrag' = (lostDrag \/ (drag # Nothing /\ drag.dialog = d))
    BY <1>5 DEF Dialog!CloseByPage
  <2>2. lostDrag' \in BOOLEAN /\ (lostDrag => lostDrag') /\ (drag = Nothing \/ drag.dialog # d \/ lostDrag')
    BY <2>1
  <2> QED BY <2>1, <2>2, CloseSteps
<1>6. ASSUME NEW d \in Dialogs, Dialog!TitleMouseDown(d) PROVE DialogInv'
  <2>1. /\ Dialog!Open(d) /\ drag = Nothing /\ drag' = [dialog |-> d, left |-> left[d]] /\ dragMask' = "shown"
        /\ UNCHANGED <<node, hidden, left, dialogWidth, original, overflow, mask, active, viewport, timers, lostDrag>>
    BY <1>6 DEF Dialog!TitleMouseDown
  <2>2. drag' \in [dialog : Dialogs, left : Nat] /\ drag'.dialog = d /\ drag' # Nothing
    BY <1>0, <2>1, DialogAssumption DEF Dialog!TypeOK
  <2>3. Dialog!TypeOK'
    BY <1>0, <2>1, <2>2 DEF Dialog!TypeOK
  <2>4. DialogPlaces' /\ DialogDrags' /\ Dialog!DragMaskGoes'
    BY <2>1, <2>2 DEF DialogInv, DialogPlaces, DialogDrags, Dialog!DragMaskGoes, Dialog!Open
  <2>5. Dialog!MaskFollowsDialogs' /\ Dialog!OneOpenDialog' /\ Dialog!ScrollBarsComeBack'
    BY <2>1 DEF DialogInv, Dialog!MaskFollowsDialogs, Dialog!OneOpenDialog, Dialog!ScrollBarsComeBack, Dialog!Open
  <2>6. Dialog!StaysInWindow' /\ Dialog!FullScreenFills'
    BY <2>1 DEF DialogInv, Dialog!StaysInWindow, Dialog!FullScreenFills, Dialog!Open
  <2> QED BY <2>3, <2>4, <2>5, <2>6 DEF DialogInv
<1>7. ASSUME NEW x \in -2 .. 2, Dialog!DragMove(x) PROVE DialogInv'
  <2> DEFINE d == drag.dialog
             y == Dialog!SafeOffset(drag.left + x, dialogWidth[d])
  <2>1. drag \in [dialog : Dialogs, left : Nat] /\ left' = [left EXCEPT ![d] = y]
        /\ UNCHANGED <<node, hidden, dialogWidth, original, overflow, mask, dragMask, active, drag, viewport, timers, lostDrag>>
    BY <1>0, <1>7 DEF Dialog!DragMove, Dialog!TypeOK
  <2>2. d \in Dialogs /\ drag.left + x \in Int /\ dialogWidth[d] \in Nat
    BY <1>0, <2>1 DEF Dialog!TypeOK
  <2>3. y \in Nat /\ (y + dialogWidth[d] <= viewport \/ y = 0)
    BY <1>0, <2>2, InWindow
  <2> HIDE DEF y, d
  <2>4. left' \in [Dialogs -> Nat] /\ left'[d] = y /\ \A e \in Dialogs \ {d} : left'[e] = left[e]
    BY <1>0, <2>1, <2>2, <2>3 DEF Dialog!TypeOK
  <2>5. Dialog!StaysInWindow'
    BY <2>1, <2>3, <2>4 DEF DialogInv, Dialog!StaysInWindow, Dialog!Open
  <2>6. DialogPlaces' /\ Dialog!FullScreenFills'
    BY <2>1 DEF DialogInv, DialogPlaces, Dialog!FullScreenFills, Dialog!Open
  <2> QED BY <1>0, <1>1, <2>1, <2>4, <2>5, <2>6 DEF Dialog!TypeOK
<1>8. CASE Dialog!MouseUp
  <2>1. /\ drag # Nothing /\ drag' = Nothing
        /\ dragMask' = IF node[drag.dialog] = "page" THEN "hidden" ELSE dragMask
        /\ UNCHANGED <<node, hidden, left, dialogWidth, original, overflow, mask, active, viewport, timers, lostDrag>>
    BY <1>8 DEF Dialog!MouseUp
  <2>2. drag \in [dialog : Dialogs, left : Nat] /\ drag.dialog \in Dialogs
    BY <1>0, <2>1 DEF Dialog!TypeOK
  <2>3. Dialog!TypeOK'
    BY <1>0, <2>1 DEF Dialog!TypeOK
  <2>4. Dialog!DragMaskGoes' /\ DialogDrags'
    BY <2>1, <2>2 DEF DialogInv, DialogDrags, Dialog!DragMaskGoes, Dialog!OneOpenDialog
  <2>5. Dialog!MaskFollowsDialogs' /\ Dialog!OneOpenDialog' /\ Dialog!ScrollBarsComeBack' /\ DialogPlaces'
    BY <2>1 DEF DialogInv, Dialog!MaskFollowsDialogs, Dialog!OneOpenDialog, Dialog!ScrollBarsComeBack, Dialog!Open,
         DialogPlaces
  <2>6. Dialog!StaysInWindow' /\ Dialog!FullScreenFills'
    BY <2>1 DEF DialogInv, Dialog!StaysInWindow, Dialog!FullScreenFills, Dialog!Open
  <2> QED BY <2>3, <2>4, <2>5, <2>6 DEF DialogInv
<1>9. ASSUME NEW v \in Viewports, Dialog!WindowResize(v) PROVE DialogInv'
  <2>1. /\ viewport' = v
        /\ timers' = timers \cup {<<"offset", d>> : d \in {e \in Dialogs : node[e] # "absent"}}
                            \cup {<<"size", d>> : d \in {e \in FullScreen : Dialog!Open(e)}}
        /\ Kept /\ UNCHANGED <<left, dialogWidth>>
    BY <1>9 DEF Dialog!WindowResize
  <2>2. timers' \subseteq {"offset", "size"} \X Dialogs
    BY <1>0, <2>1, DialogAssumption DEF Dialog!TypeOK
  <2>3. \A d \in Dialogs \ FullScreen : <<"size", d>> \in timers' => <<"size", d>> \in timers
    BY <2>1
  <2>4. DialogPlaces'
    BY <2>1, <2>3 DEF DialogInv, DialogPlaces
  <2>5. \A d \in Dialogs : Dialog!Open(d) => <<"offset", d>> \in timers' /\ (d \in FullScreen => <<"size", d>> \in timers')
    BY <2>1 DEF DialogInv, Dialog!OneOpenDialog
  <2>6. Dialog!StaysInWindow' /\ Dialog!FullScreenFills'
    BY <2>1, <2>5, DialogAssumption DEF Dialog!StaysInWindow, Dialog!FullScreenFills, Dialog!Open
  <2> QED BY <1>0, <1>1, <2>1, <2>2, <2>4, <2>6 DEF Dialog!TypeOK
<1>10. ASSUME NEW d \in Dialogs, Dialog!OffsetTimer(d) PROVE DialogInv'
  <2> DEFINE y == Dialog!SafeOffset(left[d], dialogWidth[d])
  <2>1. /\ timers' = timers \ {<<"offset", d>>} /\ Kept /\ UNCHANGED <<dialogWidth, viewport>>
        /\ left' = IF Dialog!Open(d) THEN [left EXCEPT ![d] = y] ELSE left
    BY <1>10 DEF Dialog!OffsetTimer
  <2>2. y \in Nat /\ (y + dialogWidth[d] <= viewport \/ y = 0)
    BY <1>0, InWindow DEF Dialog!TypeOK
  <2> HIDE DEF y
  <2>3. /\ left' \in [Dialogs -> Nat] /\ (Dialog!Open(d) => left'[d] = y)
        /\ \A e \in Dialogs \ {d} : left'[e] = left[e]
    BY <1>0, <2>1, <2>2 DEF Dialog!TypeOK
  <2>4. \A e \in Dialogs \ {d} : <<"offset", e>> \notin timers' => <<"offset", e>> \notin timers
    BY <2>1
  <2>5. \A e \in Dialogs : <<"size", e>> \in timers' <=> <<"size", e>> \in timers
    BY <2>1
  <2>6. Dialog!StaysInWindow'
    BY <2>1, <2>2, <2>3, <2>4 DEF DialogInv, Dialog!StaysInWindow, Dialog!Open
  <2>7. DialogPlaces' /\ Dialog!FullScreenFills'
    BY <2>1, <2>5, DialogAssumption DEF DialogInv, DialogPlaces, Dialog!FullScreenFills, Dialog!Open
  <2> QED BY <1>0, <1>1, <2>1, <2>3, <2>6, <2>7 DEF Dialog!TypeOK
<1>11. ASSUME NEW d \in Dialogs, Dialog!SizeTimer(d) PROVE DialogInv'
  <2>1. /\ <<"size", d>> \in timers /\ timers' = timers \ {<<"size", d>>} /\ Kept /\ UNCHANGED <<left, viewport>>
        /\ dialogWidth' = IF Dialog!HasContent(d) THEN [dialogWidth EXCEPT ![d] = viewport] ELSE dialogWidth
    BY <1>11 DEF Dialog!SizeTimer
  <2>2. d \in FullScreen
    BY <2>1 DEF DialogInv, DialogPlaces
  <2>3. /\ dialogWidth' \in [Dialogs -> Nat] /\ (Dialog!HasContent(d) => dialogWidth'[d] = viewport)
        /\ \A e \in Dialogs \ {d} : dialogWidth'[e] = dialogWidth[e]
    BY <1>0, <2>1 DEF Dialog!TypeOK
  <2>4. \A e \in Dialogs : /\ <<"offset", e>> \in timers' <=> <<"offset", e>> \in timers
                           /\ e # d => (<<"size", e>> \in timers' <=> <<"size", e>> \in timers)
    BY <2>1
  <2>5. DialogPlaces' /\ Dialog!StaysInWindow'
    BY <2>1, <2>2, <2>3, <2>4 DEF DialogInv, DialogPlaces, Dialog!StaysInWindow, Dialog!Open
  <2>6. Dialog!Open(d) => Dialog!HasContent(d)
    BY DEF DialogInv, Dialog!OneOpenDialog, Dialog!HasContent
  <2>7. Dialog!FullScreenFills'
    BY <2>1, <2>3, <2>4, <2>6, DialogAssumption DEF DialogInv, Dialog!FullScreenFills, Dialog!Open
  <2> QED BY <1>0, <1>1, <2>1, <2>3, <2>5, <2>7 DEF Dialog!TypeOK
<1> QED BY <1>2, <1>3, <1>4, <1>5, <1>6, <1>7, <1>8, <1>9, <1>10, <1>11, OpenSteps DEF Dialog!Next

-----------------------------------------------------------------------------
(* The modes                                                               *)

\* The modes in Firefox or in another browser.
M(Gecko) == INSTANCE EditorModes WITH body <- written, steps <- modeSteps

ModeTypes ==
    /\ written \subseteq Texts /\ text \subseteq Texts /\ field \subseteq Texts /\ last \subseteq Texts
    /\ cursor \in M(FALSE)!Places /\ savedAt \in M(FALSE)!Places
    /\ bak \in M(FALSE)!Places \cup {"none"} /\ showing \in Seq(M(FALSE)!Places)
    /\ query \in {"live", "off"} /\ bkQuery \in {"none", "live", "off"} /\ exc \subseteq Commands
    /\ default \in BOOLEAN /\ editable \in BOOLEAN /\ shown \in BOOLEAN
    /\ source \in BOOLEAN /\ leaving \in BOOLEAN /\ focused \in BOOLEAN

\* The one bookmark in the body is the one that is kept, and it is where the cursor was
\* when the editor was disabled.
MarkInv ==
    /\ modeSteps \in Nat
    /\ marks \subseteq [id : Nat \ {0}, at : M(FALSE)!Places]
    /\ \A m \in marks : m.id = lastBk
    /\ held # "none" => marks # {} /\ \A m \in marks : m.at = held

\* Source mode shows what was written last, and the initial content never; the form's field
\* is that of the last call that writes it.
ContentInv ==
    /\ last = IF source THEN text ELSE written
    /\ source => ~focused /\ ~default
    /\ act \in {"sync", "blur", "set", "append", "visual"} /\ ~source => field = written

\* In other browsers than Firefox the commands are off exactly while the editor is disabled.
CommandInv(Gecko) ==
    Gecko \/ (/\ ~leaving
              /\ editable => query = "live" /\ bkQuery = "none"
              /\ ~editable => query = "off" /\ bkQuery = "live")

ModeInv(Gecko) == ModeTypes /\ MarkInv /\ ContentInv /\ CommandInv(Gecko)

LEMMA ModeInit == ASSUME NEW Gecko \in BOOLEAN, M(Gecko)!Init PROVE ModeInv(Gecko)
<1>1. <<>> \in Seq(M(FALSE)!Places)
  OBVIOUS
<1> QED BY <1>1, Zenon DEF M!Init, M!Places, M!Home, M!None, ModeInv, ModeTypes, MarkInv, ContentInv, CommandInv

\* The bookmark stays in most steps.
LEMMA MarksStay ==
    ASSUME MarkInv, UNCHANGED <<marks, lastBk>>, held' \in {held, "none"}, modeSteps' \in Nat
    PROVE  MarkInv'
  BY Zenon DEF MarkInv

\* setDisabled and setHide keep one bookmark.
LEMMA PlaceIsKept ==
    ASSUME NEW Gecko \in BOOLEAN, ModeInv(Gecko), M(Gecko)!KeepPlace
    PROVE  /\ marks' \subseteq [id : Nat \ {0}, at : M(FALSE)!Places]
           /\ \A m \in marks' : m.id = lastBk'
           /\ lastBk = 0 => marks' # {} /\ \A m \in marks' : m.at = cursor
           /\ lastBk # 0 => UNCHANGED <<lastBk, marks>>
<1>1. CASE lastBk # 0
  BY <1>1, Zenon DEF M!KeepPlace, ModeInv, MarkInv
<1>2. CASE lastBk = 0
  <2>1. marks = {}
    BY <1>2, Zenon DEF ModeInv, MarkInv
  <2>2. lastBk' = 1 + modeSteps /\ marks' = {[id |-> 1 + modeSteps, at |-> cursor]}
    BY <1>2, <2>1 DEF M!KeepPlace, M!NewId
  <2>3. 1 + modeSteps \in Nat \ {0}
    BY DEF ModeInv, MarkInv
  <2>4. cursor \in M(FALSE)!Places
    BY Zenon DEF ModeInv, ModeTypes
  <2>5. marks' \subseteq [id : Nat \ {0}, at : M(FALSE)!Places]
    <3>1. [id |-> 1 + modeSteps, at |-> cursor] \in [id : Nat \ {0}, at : M(FALSE)!Places]
      BY <2>3, <2>4, Zenon
    <3> QED BY <2>2, <3>1, Zenon
  <2>6. marks' # {} /\ \A m \in marks' : m.id = lastBk' /\ m.at = cursor
    BY <2>2
  <2> QED BY <1>2, <2>5, <2>6, Zenon
<1> QED BY <1>1, <1>2, Zenon

\* setEnabled and setShow find it, if it is still there.
LEMMA PlaceIsFound ==
    ASSUME NEW Gecko \in BOOLEAN, NEW place, ModeInv(Gecko), M(Gecko)!PlaceKept(place)
    PROVE  place \in M(FALSE)!Places /\ marks' = {}
<1>1. CASE marks = {}
  BY <1>1 DEF M!PlaceKept, M!Found, M!Places, M!Home, ModeInv, MarkInv
<1>2. CASE marks # {}
  <2>1. M(Gecko)!Found(lastBk)
    BY <1>2 DEF M!Found, ModeInv, MarkInv
  <2>2. M(Gecko)!Mark(lastBk) \in marks
    BY <2>1 DEF M!Mark, M!Found
  <2>3. place = M(Gecko)!Mark(lastBk).at /\ marks' = {m \in marks : m.id # lastBk}
    BY <2>1 DEF M!PlaceKept
  <2> QED BY <2>2, <2>3, Zenon DEF ModeInv, MarkInv
<1> QED BY <1>1, <1>2, Zenon

LEMMA PlaceIsHeld ==
    ASSUME NEW Gecko \in BOOLEAN, ModeInv(Gecko), M(Gecko)!PlaceKept(cursor'), held # "none"
    PROVE  cursor' = held
<1>1. M(Gecko)!Found(lastBk)
  BY DEF M!Found, ModeInv, MarkInv
<1>2. M(Gecko)!Mark(lastBk) \in marks
  BY <1>1 DEF M!Mark, M!Found
<1>3. cursor' = M(Gecko)!Mark(lastBk).at
  BY <1>1 DEF M!PlaceKept
<1> QED BY <1>2, <1>3 DEF ModeInv, MarkInv

\* A command clears the initial content and the bookmark in it.
LEMMA Cleared ==
    ASSUME NEW Gecko \in BOOLEAN, ModeInv(Gecko), M(Gecko)!ClearDefault
    PROVE  /\ written' \subseteq Texts /\ last' \subseteq Texts /\ default' = FALSE
           /\ cursor' \in M(FALSE)!Places
           /\ IF default THEN marks' = {} /\ last' = {} /\ written' = {} ELSE UNCHANGED <<written, last, marks, cursor>>
  BY DEF M!ClearDefault, M!content, M!Home, M!Places, ModeInv, ModeTypes

\* The steps that the program takes, and what each leaves of the invariant.
LEMMA SwitchStep ==
    ASSUME NEW Gecko \in BOOLEAN, ModeInv(Gecko), M(Gecko)!Ready, M(Gecko)!Holding,
           \/ \E e \in {{}, Commands} : M(Gecko)!SetDisabled(e)
           \/ M(Gecko)!SetEnabled \/ M(Gecko)!SetHide \/ M(Gecko)!SetShow
    PROVE  ModeInv(Gecko)'
<1> USE DEF M!Called, M!switches, M!content, M!sourceVars, M!focusVars
<1>1. ASSUME NEW e \in {{}, Commands}, M(Gecko)!SetDisabled(e) PROVE ModeInv(Gecko)'
  <2>1. CASE editable
    <3>1. M(Gecko)!KeepPlace /\ editable' = FALSE /\ bkQuery' = query /\ query' = "off" /\ exc' = e
      BY <1>1, <2>1 DEF M!SetDisabled
    <3>2. ModeTypes' /\ ContentInv' /\ CommandInv(Gecko)'
      BY <1>1, <2>1, <3>1, Zenon DEF M!SetDisabled, ModeInv, ModeTypes, ContentInv, CommandInv
    <3>3. held' = IF lastBk = 0 THEN cursor ELSE "none"
      BY <1>1, <2>1 DEF M!SetDisabled, M!Holding, M!None
    <3>4. modeSteps' \in Nat
      BY <1>1 DEF M!SetDisabled, ModeInv, MarkInv
    <3>5. MarkInv'
      BY <3>1, <3>3, <3>4, PlaceIsKept, Zenon DEF MarkInv
    <3> QED BY <3>2, <3>5 DEF ModeInv
  <2>2. CASE ~editable
    <3>1. MarkInv'
      <4>1. UNCHANGED <<marks, lastBk>> /\ held' \in {held, "none"}
        BY <1>1, <2>2 DEF M!SetDisabled, M!Holding, M!None
      <4>2. modeSteps' \in Nat
        BY <1>1 DEF M!SetDisabled, ModeInv, MarkInv
      <4> QED BY <4>1, <4>2, MarksStay DEF ModeInv
    <3>2. ModeTypes' /\ ContentInv' /\ CommandInv(Gecko)'
      BY <1>1, <2>2, Zenon DEF M!SetDisabled, ModeInv, ModeTypes, ContentInv, CommandInv
    <3> QED BY <3>1, <3>2 DEF ModeInv
  <2> QED BY <2>1, <2>2
<1>2. CASE M(Gecko)!SetEnabled
  <2>1. held' = "none" /\ modeSteps' \in Nat
    BY <1>2 DEF M!SetEnabled, M!Holding, M!None, ModeInv, MarkInv
  <2>2. CASE editable
    BY <1>2, <2>1, <2>2, Zenon DEF M!SetEnabled, ModeInv, ModeTypes, MarkInv, ContentInv, CommandInv
  <2>3. CASE ~editable
    <3>1. M(Gecko)!PlaceKept(cursor')
      BY <1>2, <2>3 DEF M!SetEnabled
    <3>2. cursor' \in M(FALSE)!Places /\ marks' = {}
      BY <3>1, PlaceIsFound, Zenon
    <3>3. MarkInv'
      BY <2>1, <3>2 DEF MarkInv
    <3>4. ModeTypes' /\ ContentInv' /\ CommandInv(Gecko)'
      BY <1>2, <2>3, <3>2, Zenon DEF M!SetEnabled, M!None, ModeInv, ModeTypes, ContentInv, CommandInv
    <3> QED BY <3>3, <3>4 DEF ModeInv
  <2> QED BY <2>2, <2>3
<1>3. CASE M(Gecko)!SetHide
  <2>1. M(Gecko)!KeepPlace /\ held' = "none" /\ modeSteps' \in Nat
    BY <1>3 DEF M!SetHide, M!Holding, M!None, ModeInv, MarkInv
  <2>2. MarkInv'
    BY <2>1, PlaceIsKept, Zenon DEF MarkInv, ModeInv
  <2>3. ModeTypes' /\ ContentInv' /\ CommandInv(Gecko)'
    BY <1>3, Zenon DEF M!SetHide, ModeInv, ModeTypes, ContentInv, CommandInv
  <2> QED BY <2>2, <2>3 DEF ModeInv
<1>4. CASE M(Gecko)!SetShow
  <2>1. held' = "none" /\ modeSteps' \in Nat
    BY <1>4 DEF M!SetShow, M!Holding, M!None, ModeInv, MarkInv
  <2>2. CASE shown
    BY <1>4, <2>1, <2>2, Zenon DEF M!SetShow, ModeInv, ModeTypes, MarkInv, ContentInv, CommandInv
  <2>3. CASE ~shown
    <3>1. PICK p \in M(Gecko)!Places : M(Gecko)!PlaceKept(p) /\ showing' = Append(showing, p)
      BY <1>4, <2>3, Zenon DEF M!SetShow
    <3>2. p \in M(FALSE)!Places /\ marks' = {}
      BY <3>1, PlaceIsFound, Zenon
    <3>5. showing' \in Seq(M(FALSE)!Places)
      BY <3>1, <3>2, AppendProperties, Zenon DEF ModeInv, ModeTypes
    <3>3. MarkInv'
      BY <2>1, <3>2 DEF MarkInv
    <3>4. ModeTypes' /\ ContentInv' /\ CommandInv(Gecko)'
      BY <1>4, <2>3, <3>5, Zenon DEF M!SetShow, ModeInv, ModeTypes, ContentInv, CommandInv
    <3> QED BY <3>3, <3>4 DEF ModeInv
  <2> QED BY <2>2, <2>3
<1> QED BY <1>1, <1>2, <1>3, <1>4

LEMMA ContentStep ==
    ASSUME NEW Gecko \in BOOLEAN, ModeInv(Gecko), M(Gecko)!Ready, M(Gecko)!Holding,
           \/ \E t \in Texts, append \in BOOLEAN : M(Gecko)!SetContent(t, append)
           \/ M(Gecko)!Sync \/ M(Gecko)!Blur \/ M(Gecko)!Focus
           \/ \E p \in Spots : M(Gecko)!Click(p)
           \/ \E t \in Texts : M(Gecko)!Type(t)
           \/ \E new \in SUBSET Texts : M(Gecko)!EditSource(new)
    PROVE  ModeInv(Gecko)'
<1> USE DEF M!Called, M!switches, M!content, M!sourceVars, M!focusVars, M!Places, M!Home, M!None,
            M!Holding, ModeInv
<1>1. ASSUME NEW t \in Texts, NEW append \in BOOLEAN, M(Gecko)!SetContent(t, append) PROVE ModeInv(Gecko)'
  <2>1. held' = "none" /\ modeSteps' \in Nat /\ (marks' = marks \/ marks' = {}) /\ lastBk' = lastBk
    BY <1>1 DEF M!SetContent, M!Replace, MarkInv
  <2>2. MarkInv'
    BY <2>1 DEF MarkInv
  <2>3. CASE source
    BY <1>1, <2>2, <2>3 DEF M!SetContent, ModeTypes, ContentInv, CommandInv
  <2>4. CASE ~source
    <3>1. written' = (IF append THEN written \cup {t} ELSE {t}) /\ field' = written' /\ last' = written' /\ ~source'
      BY <1>1, <2>4 DEF M!SetContent, M!Replace, M!SetValue, M!HasContents, M!GetContent
    <3>2. ModeTypes'
      BY <1>1, <2>4, <3>1, Zenon DEF M!SetContent, M!Replace, ModeTypes
    <3>3. ContentInv' /\ CommandInv(Gecko)'
      BY <1>1, <2>4, <3>1 DEF M!SetContent, ContentInv, CommandInv
    <3> QED BY <2>2, <3>2, <3>3
  <2> QED BY <2>3, <2>4
<1>2. CASE M(Gecko)!Sync
  <2>1. MarkInv'
    BY <1>2, MarksStay DEF M!Sync, MarkInv
  <2>2. field' \subseteq Texts /\ (~source => field' = written)
    BY <1>2 DEF M!Sync, M!SetValue, M!HasContents, M!GetContent, ModeTypes
  <2>3. ModeTypes' /\ ContentInv' /\ CommandInv(Gecko)'
    BY <1>2, <2>2 DEF M!Sync, ModeTypes, ContentInv, CommandInv
  <2> QED BY <2>1, <2>3
<1>3. CASE M(Gecko)!Blur
  <2>1. MarkInv'
    BY <1>3, MarksStay DEF M!Blur, MarkInv
  <2>2. field' \subseteq Texts /\ (~source => field' = written)
    BY <1>3 DEF M!Blur, M!SetValue, M!HasContents, M!GetContent, ModeTypes
  <2>3. ModeTypes' /\ ContentInv' /\ CommandInv(Gecko)'
    BY <1>3, <2>2, Zenon DEF M!Blur, ModeTypes, ContentInv, CommandInv
  <2> QED BY <2>1, <2>3
<1>4. CASE M(Gecko)!Focus
  <2>1. CASE default
    <3>1. MarkInv'
      <4>1. marks' = {} /\ held' = "none"
        BY <1>4, <2>1, Zenon DEF M!Focus
      <4>2. modeSteps' \in Nat
        BY <1>4 DEF M!Focus, MarkInv
      <4> QED BY <4>1, <4>2 DEF MarkInv
    <3>2. ModeTypes' /\ ContentInv' /\ CommandInv(Gecko)'
      BY <1>4, <2>1, Zenon DEF M!Focus, ModeTypes, ContentInv, CommandInv
    <3> QED BY <3>1, <3>2
  <2>2. CASE ~default
    BY <1>4, <2>2 DEF M!Focus, ModeTypes, MarkInv, ContentInv, CommandInv
  <2> QED BY <2>1, <2>2
<1>5. ASSUME NEW p \in Spots, M(Gecko)!Click(p) PROVE ModeInv(Gecko)'
  BY <1>5 DEF M!Click, ModeTypes, MarkInv, ContentInv, CommandInv
<1>6. ASSUME NEW t \in Texts, M(Gecko)!Type(t) PROVE ModeInv(Gecko)'
  BY <1>6 DEF M!Type, ModeTypes, MarkInv, ContentInv, CommandInv
<1>7. ASSUME NEW new \in SUBSET Texts, M(Gecko)!EditSource(new) PROVE ModeInv(Gecko)'
  BY <1>7 DEF M!EditSource, ModeTypes, MarkInv, ContentInv, CommandInv
<1> QED BY <1>1, <1>2, <1>3, <1>4, <1>5, <1>6, <1>7

LEMMA SourceStep ==
    ASSUME NEW Gecko \in BOOLEAN, ModeInv(Gecko), M(Gecko)!Holding,
           \/ M(Gecko)!SourceOn \/ M(Gecko)!SourceOff \/ \E cmd \in Commands : M(Gecko)!Exec(cmd)
           \/ M(Gecko)!ShowTimer \/ M(Gecko)!GeckoTimer
    PROVE  ModeInv(Gecko)'
<1> USE DEF M!Called, M!switches, M!content, M!sourceVars, M!focusVars, M!None, M!Holding, ModeInv
<1>1. CASE M(Gecko)!SourceOn
  <2>1. M(Gecko)!ClearDefault
    BY <1>1 DEF M!SourceOn
  <2> HIDE DEF ModeInv
  <2>2. /\ written' \subseteq Texts /\ last' \subseteq Texts /\ default' = FALSE /\ cursor' \in M(FALSE)!Places
        /\ IF default THEN marks' = {} /\ last' = {} /\ written' = {} ELSE UNCHANGED <<written, last, marks, cursor>>
    BY <2>1, Cleared, Zenon
  <2>3. ModeTypes' /\ ContentInv' /\ CommandInv(Gecko)'
    BY <1>1, <2>2, Zenon DEF M!SourceOn, ModeInv, ModeTypes, ContentInv, CommandInv
  <2>4. /\ modeSteps' \in Nat /\ lastBk' = lastBk /\ held' \in {held, "none"}
        /\ default => held' = "none"
    BY <1>1, <2>2 DEF M!SourceOn, ModeInv, ModeTypes, MarkInv
  <2>5. ASSUME default PROVE MarkInv'
    BY <2>2, <2>4, <2>5, Zenon DEF MarkInv
  <2>6. ASSUME ~default PROVE MarkInv'
    BY <2>2, <2>4, <2>6, MarksStay DEF ModeInv
  <2>7. MarkInv'
    BY <2>5, <2>6 DEF ModeInv, ModeTypes
  <2> QED BY <2>3, <2>7 DEF ModeInv
<1>2. CASE M(Gecko)!SourceOff
  <2>1. cursor' \in M(FALSE)!Places
    BY <1>2 DEF M!SourceOff, M!Places, M!Home, ModeTypes
  <2>2. ModeTypes' /\ ContentInv'
    BY <1>2, <2>1, Zenon DEF M!SourceOff, ModeTypes, ContentInv
  <2>3. MarkInv' /\ CommandInv(Gecko)'
    BY <1>2 DEF M!SourceOff, MarkInv, CommandInv
  <2> QED BY <2>2, <2>3
<1>3. ASSUME NEW cmd \in Commands, M(Gecko)!Exec(cmd) PROVE ModeInv(Gecko)'
  <2>1. M(Gecko)!ClearDefault
    BY <1>3 DEF M!Exec
  <2> HIDE DEF ModeInv
  <2>2. /\ written' \subseteq Texts /\ last' \subseteq Texts /\ default' = FALSE /\ cursor' \in M(FALSE)!Places
        /\ IF default THEN marks' = {} /\ last' = {} /\ written' = {} ELSE UNCHANGED <<written, last, marks, cursor>>
    BY <2>1, Cleared, Zenon
  <2>3. ModeTypes' /\ ContentInv' /\ CommandInv(Gecko)'
    BY <1>3, <2>2, Zenon DEF M!Exec, ModeInv, ModeTypes, ContentInv, CommandInv
  <2>4. /\ modeSteps' \in Nat /\ lastBk' = lastBk /\ held' \in {held, "none"}
        /\ default => held' = "none"
    BY <1>3, <2>2 DEF M!Exec, ModeInv, ModeTypes, MarkInv
  <2>5. ASSUME default PROVE MarkInv'
    BY <2>2, <2>4, <2>5, Zenon DEF MarkInv
  <2>6. ASSUME ~default PROVE MarkInv'
    BY <2>2, <2>4, <2>6, MarksStay DEF ModeInv
  <2>7. MarkInv'
    BY <2>5, <2>6 DEF ModeInv, ModeTypes
  <2> QED BY <2>3, <2>7 DEF ModeInv
<1>4. CASE M(Gecko)!ShowTimer
  <2>1. cursor' \in M(FALSE)!Places /\ showing' \in Seq(M(FALSE)!Places)
    BY <1>4, HeadTailProperties, Zenon DEF M!ShowTimer, ModeTypes
  <2>2. ModeTypes'
    BY <1>4, <2>1, Zenon DEF M!ShowTimer, ModeTypes
  <2>3. MarkInv' /\ ContentInv' /\ CommandInv(Gecko)'
    BY <1>4, Zenon DEF M!ShowTimer, MarkInv, ContentInv, CommandInv
  <2> QED BY <2>2, <2>3
<1>5. CASE M(Gecko)!GeckoTimer
  <2>1. MarkInv'
    BY <1>5, MarksStay, Zenon DEF M!GeckoTimer, MarkInv
  <2>2. cursor' \in M(FALSE)!Places
    BY <1>5 DEF M!GeckoTimer, M!Places, M!Home, ModeTypes
  <2>3. ModeTypes' /\ ContentInv' /\ CommandInv(Gecko)'
    BY <1>5, <2>2, Zenon DEF M!GeckoTimer, ModeTypes, ContentInv, CommandInv
  <2> QED BY <2>1, <2>3
<1> QED BY <1>1, <1>2, <1>3, <1>4, <1>5

LEMMA ModeStep ==
    ASSUME NEW Gecko \in BOOLEAN, ModeInv(Gecko), [M(Gecko)!Next]_(M(Gecko)!vars)
    PROVE  ModeInv(Gecko)'
<1>1. CASE M(Gecko)!Next
  BY <1>1, SwitchStep, ContentStep, SourceStep, Zenon DEF M!Next, M!Step
<1>2. CASE UNCHANGED M(Gecko)!vars
  <2>1. MarkInv'
    BY <1>2, MarksStay, Zenon DEF M!vars, ModeInv, MarkInv
  <2>2. ModeTypes'
    BY <1>2, Zenon DEF M!vars, ModeInv, ModeTypes
  <2>3. ContentInv' /\ CommandInv(Gecko)'
    BY <1>2, Zenon DEF M!vars, ModeInv, ContentInv, CommandInv
  <2> QED BY <2>1, <2>2, <2>3 DEF ModeInv
<1> QED BY <1>1, <1>2

\* Enabling brings the cursor to where it was when the editor was disabled.
LEMMA PlaceIsRight ==
    ASSUME NEW Gecko \in BOOLEAN, ModeInv(Gecko), M(Gecko)!Next,
           act' = "enable", ~editable, held # "none"
    PROVE  cursor' = held
<1>1. M(Gecko)!SetEnabled
  BY DEF M!Next, M!Step, M!SetDisabled, M!SetHide, M!SetShow, M!SetContent, M!Sync, M!Blur, M!Focus, M!SourceOn,
         M!SourceOff, M!Click, M!Type, M!EditSource, M!Exec, M!ShowTimer, M!GeckoTimer, M!Called
<1>2. M(Gecko)!PlaceKept(cursor')
  BY <1>1 DEF M!SetEnabled
<1> QED BY <1>2, PlaceIsHeld

\* The two browsers of the run are among these.
LEMMA ModesOfRun ==
    /\ Modes!Init => M(FALSE)!Init /\ M(TRUE)!Init
    /\ Modes!Next => M(FALSE)!Next
    /\ Firefox!Next => M(TRUE)!Next
<1>1. Modes!Init => M(FALSE)!Init /\ M(TRUE)!Init
  BY DEF Modes!Init, Modes!Places, Modes!Home, Modes!None, M!Init, M!Places, M!Home, M!None
<1>2. Modes!Next => M(FALSE)!Next
  BY Zenon DEF Modes!Next, Modes!Step, Modes!Ready, Modes!Holding, Modes!Called, Modes!HasContents, Modes!GetContent,
     Modes!SetValue, Modes!Mark, Modes!Found, Modes!NewId, Modes!KeepPlace, Modes!PlaceKept, Modes!SetDisabled,
     Modes!SetEnabled, Modes!SetHide, Modes!SetShow, Modes!ShowTimer, Modes!Replace, Modes!SetContent, Modes!Sync,
     Modes!Click, Modes!Type, Modes!EditSource, Modes!Blur, Modes!Focus, Modes!State, Modes!ClearDefault, Modes!Exec,
     Modes!SourceOn, Modes!SourceOff, Modes!GeckoTimer, Modes!content, Modes!switches, Modes!sourceVars,
     Modes!focusVars, Modes!Home, Modes!None, Modes!Places,
     M!Next, M!Step, M!Ready, M!Holding, M!Called, M!HasContents, M!GetContent,
     M!SetValue, M!Mark, M!Found, M!NewId, M!KeepPlace, M!PlaceKept, M!SetDisabled,
     M!SetEnabled, M!SetHide, M!SetShow, M!ShowTimer, M!Replace, M!SetContent, M!Sync,
     M!Click, M!Type, M!EditSource, M!Blur, M!Focus, M!State, M!ClearDefault, M!Exec,
     M!SourceOn, M!SourceOff, M!GeckoTimer, M!content, M!switches, M!sourceVars,
     M!focusVars, M!Home, M!None, M!Places
<1>3. Firefox!Next => M(TRUE)!Next
  BY Zenon DEF Firefox!Next, Firefox!Step, Firefox!Ready, Firefox!Holding, Firefox!Called, Firefox!HasContents,
     Firefox!GetContent, Firefox!SetValue, Firefox!Mark, Firefox!Found, Firefox!NewId, Firefox!KeepPlace,
     Firefox!PlaceKept, Firefox!SetDisabled, Firefox!SetEnabled, Firefox!SetHide, Firefox!SetShow, Firefox!ShowTimer,
     Firefox!Replace, Firefox!SetContent, Firefox!Sync, Firefox!Click, Firefox!Type, Firefox!EditSource, Firefox!Blur,
     Firefox!Focus, Firefox!State, Firefox!ClearDefault, Firefox!Exec, Firefox!SourceOn, Firefox!SourceOff,
     Firefox!GeckoTimer, Firefox!content, Firefox!switches, Firefox!sourceVars, Firefox!focusVars, Firefox!Home,
     Firefox!None, Firefox!Places,
     M!Next, M!Step, M!Ready, M!Holding, M!Called, M!HasContents, M!GetContent,
     M!SetValue, M!Mark, M!Found, M!NewId, M!KeepPlace, M!PlaceKept, M!SetDisabled,
     M!SetEnabled, M!SetHide, M!SetShow, M!ShowTimer, M!Replace, M!SetContent, M!Sync,
     M!Click, M!Type, M!EditSource, M!Blur, M!Focus, M!State, M!ClearDefault, M!Exec,
     M!SourceOn, M!SourceOff, M!GeckoTimer, M!content, M!switches, M!sourceVars,
     M!focusVars, M!Home, M!None, M!Places
<1> QED BY <1>1, <1>2, <1>3, Zenon

LEMMA ModeGives ==
    /\ ModeInv(FALSE) => /\ Modes!TypeOK /\ Modes!NoOrphanMarks /\ Modes!LastWins
                         /\ Modes!CommandsMatchMode /\ Modes!FormFollows
    /\ ModeInv(TRUE) => Firefox!TypeOK /\ Firefox!LastWins
<1> USE DEF ModeInv, ModeTypes, MarkInv, ContentInv, CommandInv, M!Places, M!Home
<1>1. ModeInv(FALSE) => Modes!TypeOK
  BY DEF Modes!TypeOK, Modes!Places, Modes!Home, Modes!None
<1>2. ModeInv(FALSE) => Modes!NoOrphanMarks /\ Modes!LastWins
  BY DEF Modes!NoOrphanMarks, Modes!LastWins, Modes!GetContent
<1>3. ModeInv(FALSE) => Modes!CommandsMatchMode /\ Modes!FormFollows
  BY DEF Modes!CommandsMatchMode, Modes!FormFollows
<1>4. ModeInv(TRUE) => Firefox!TypeOK /\ Firefox!LastWins
  BY DEF Firefox!TypeOK, Firefox!Places, Firefox!Home, Firefox!None, Firefox!LastWins, Firefox!GetContent
<1> QED BY <1>1, <1>2, <1>3, <1>4


-----------------------------------------------------------------------------
(* Events.  While a list is walked from its end, what was registered at    *)
(* the start and not removed since either was called or still stands at a  *)
(* place that the walk has yet to come to: a removal only moves listeners  *)
(* towards the start of the list.                                          *)

\* The events of an object, for any listeners and types.
E(Types, Listeners, Handled, Firings, Results, MaxListeners, MaxDepth) == INSTANCE EventBase

\* The equation of the function that RemoveItem takes the last value of.
KeptUpto(array, item, m, f) ==
    f = [n \in 0 .. m |-> IF n = 0 THEN <<>>
                          ELSE IF array[n] = item THEN f[n - 1] ELSE Append(f[n - 1], array[n])]

Kept(array, item) == (CHOOSE f : KeptUpto(array, item, Len(array), f))[Len(array)]

\* It has a solution: the least place up to which it had none would be one after a place
\* up to which it has.
LEMMA KeptExists ==
    ASSUME NEW S, NEW array \in Seq(S), NEW item
    PROVE  \E f : KeptUpto(array, item, Len(array), f)
<1> DEFINE Bad == {m \in 0 .. Len(array) : ~ \E f : KeptUpto(array, item, m, f)}
<1>0. Len(array) \in 0 .. Len(array) /\ Bad \subseteq Nat
  OBVIOUS
<1> SUFFICES ASSUME Bad # {} PROVE FALSE
  BY <1>0
<1>1. PICK m \in Bad : \A y \in Bad : m <= y
  <2> HIDE DEF Bad
  <2> QED BY <1>0, SmallestOf
<1>2. m \in 0 .. Len(array) /\ ~ \E f : KeptUpto(array, item, m, f)
  OBVIOUS
<1>3. m # 0
  <2>1. KeptUpto(array, item, 0, [n \in 0 .. 0 |-> <<>>])
    BY DEF KeptUpto
  <2> QED BY <1>2, <2>1
<1>4. m - 1 \in 0 .. Len(array) /\ m - 1 \notin Bad
  BY <1>1, <1>2, <1>3
<1>5. PICK g : KeptUpto(array, item, m - 1, g)
  BY <1>4
<1> DEFINE f == [n \in 0 .. m |-> IF n < m THEN g[n]
                                  ELSE IF array[m] = item THEN g[m - 1] ELSE Append(g[m - 1], array[m])]
<1>6. ASSUME NEW n \in 0 .. m
      PROVE  f[n] = IF n = 0 THEN <<>>
                    ELSE IF array[n] = item THEN f[n - 1] ELSE Append(f[n - 1], array[n])
  <2>1. CASE n < m
    <3>1. n \in 0 .. m - 1 /\ f[n] = g[n]
      BY <1>2, <2>1
    <3>2. g[n] = IF n = 0 THEN <<>>
                 ELSE IF array[n] = item THEN g[n - 1] ELSE Append(g[n - 1], array[n])
      BY <1>5, <3>1 DEF KeptUpto
    <3>3. n # 0 => f[n - 1] = g[n - 1]
      BY <1>2, <2>1
    <3> QED BY <3>1, <3>2, <3>3
  <2>2. CASE n = m
    BY <1>2, <1>3, <2>2
  <2> QED BY <1>2, <2>1, <2>2
<1>7. KeptUpto(array, item, m, f)
  <2> DEFINE h == [n \in 0 .. m |-> IF n = 0 THEN <<>>
                          ELSE IF array[n] = item THEN f[n - 1] ELSE Append(f[n - 1], array[n])]
  <2>1. \A n \in 0 .. m : f[n] = h[n]
    BY <1>6
  <2>2. DOMAIN f = 0 .. m /\ f = [n \in 0 .. m |-> f[n]]
    OBVIOUS
  <2> HIDE DEF f
  <2>3. f = h
    BY <2>1, <2>2
  <2> QED BY <2>3 DEF KeptUpto
<1> QED BY <1>2, <1>7

\* What a removal leaves: every other item, no farther from the start than before.
LEMMA Removes ==
    ASSUME NEW S, NEW array \in Seq(S), NEW item
    PROVE  LET v == Kept(array, item)
           IN  /\ v \in Seq(S) /\ Len(v) <= Len(array)
               /\ \A n \in DOMAIN array : array[n] # item => \E k \in DOMAIN v : k <= n /\ v[k] = array[n]
<1> DEFINE f == CHOOSE g : KeptUpto(array, item, Len(array), g)
           v == Kept(array, item)
           OK(n) == /\ f[n] \in Seq(S) /\ Len(f[n]) <= n
                    /\ \A j \in 1 .. n : array[j] # item => \E k \in 1 .. Len(f[n]) : k <= j /\ f[n][k] = array[j]
           Bad == {n \in 0 .. Len(array) : ~ OK(n)}
<1>1. KeptUpto(array, item, Len(array), f)
  BY KeptExists
<1>2. v = f[Len(array)]
  BY DEF Kept
<1> HIDE DEF f, v
<1>3. \A n \in 0 .. Len(array) :
         f[n] = IF n = 0 THEN <<>> ELSE IF array[n] = item THEN f[n - 1] ELSE Append(f[n - 1], array[n])
  BY <1>1 DEF KeptUpto
<1>4. ASSUME NEW n \in Nat, n + 1 <= Len(array), OK(n) PROVE OK(n + 1)
  <2>1. array[n + 1] \in S
    BY <1>4
  <2>2. CASE array[n + 1] = item
    <3>1. f[n + 1] = f[n]
      BY <1>3, <1>4, <2>2
    <3>2. ASSUME NEW j \in 1 .. n + 1, array[j] # item PROVE \E k \in 1 .. Len(f[n + 1]) : k <= j /\ f[n + 1][k] = array[j]
      <4>1. j \in 1 .. n
        BY <2>2, <3>2
      <4> QED BY <1>4, <3>1, <3>2, <4>1
    <3> QED BY <1>4, <3>1, <3>2
  <2>3. CASE array[n + 1] # item
    <3>1. f[n + 1] = Append(f[n], array[n + 1])
      <4>1. n + 1 \in 0 .. Len(array) /\ n + 1 # 0 /\ (n + 1) - 1 = n
        BY <1>4
      <4> QED BY <1>3, <2>3, <4>1
    <3>2. /\ f[n + 1] \in Seq(S) /\ Len(f[n + 1]) = Len(f[n]) + 1
          /\ f[n + 1][Len(f[n]) + 1] = array[n + 1]
          /\ \A k \in 1 .. Len(f[n]) : f[n + 1][k] = f[n][k]
      BY <1>4, <2>1, <3>1
    <3>3. ASSUME NEW j \in 1 .. n + 1, array[j] # item PROVE \E k \in 1 .. Len(f[n + 1]) : k <= j /\ f[n + 1][k] = array[j]
      <4>1. CASE j = n + 1
        <5>1. Len(f[n]) + 1 \in 1 .. Len(f[n + 1]) /\ Len(f[n]) + 1 <= j
          BY <1>4, <3>2, <4>1
        <5> QED BY <3>2, <4>1, <5>1
      <4>2. CASE j \in 1 .. n
        <5>1. PICK k \in 1 .. Len(f[n]) : k <= j /\ f[n][k] = array[j]
          BY <1>4, <3>3, <4>2
        <5> QED BY <1>4, <3>2, <5>1
      <4> QED BY <1>4, <4>1, <4>2
    <3> QED BY <1>4, <3>2, <3>3
  <2> QED BY <2>2, <2>3
<1>5. Bad = {}
  <2> SUFFICES ASSUME Bad # {} PROVE FALSE
    OBVIOUS
  <2>1. PICK m \in Bad : \A y \in Bad : m <= y
    <3>1. Bad \subseteq Nat
      OBVIOUS
    <3> HIDE DEF Bad
    <3> QED BY <3>1, SmallestOf
  <2>2. OK(0)
    <3>1. f[0] = <<>> /\ 1 .. 0 = {}
      BY <1>3
    <3> QED BY <3>1
  <2>3. m - 1 \in Nat /\ m \in 0 .. Len(array)
    BY <2>2
  <2>4. m - 1 \notin Bad
    BY <2>1, <2>3
  <2> HIDE DEF OK
  <2>5. OK(m - 1) /\ ~ OK(m - 1 + 1)
    BY <2>3, <2>4
  <2> QED BY <1>4, <2>3, <2>5
<1>6. OK(Len(array))
  BY <1>5
<1> QED BY <1>2, <1>6 DEF v

CallRecords(Listeners, Firings, Results, MaxListeners) ==
    [types : Firings, i : Nat, k : 0 .. MaxListeners, running : Listeners \cup {"none", "on"},
     r : Results \cup {"undefined"}, last : Results \cup {"undefined"}, start : Seq(Listeners),
     called : Seq(Listeners), removed : SUBSET Listeners, state : {"walk", "type", "stopped", "done"}]

\* Where a registration is that was there when the type was begun.
NobodyLost(c, list) ==
    \A n \in DOMAIN c.start : \/ c.start[n] \in c.removed
                              \/ \E m \in DOMAIN c.called : c.called[m] = c.start[n]
                              \/ \E m \in DOMAIN list : m <= c.k /\ list[m] = c.start[n]
\* As long as nothing is removed the list at the start is still there, at its beginning.
Undisturbed(c, list) ==
    /\ c.k <= Len(c.start) /\ Len(c.start) <= Len(list)
    /\ Len(c.called) = Len(c.start) - c.k
    /\ \A n \in DOMAIN c.start : list[n] = c.start[n]
    /\ \A n \in DOMAIN c.called : c.called[n] = c.start[Len(c.start) + 1 - n]
WalkOK(lists, c) ==
    /\ c.i \in 0 .. Len(c.types) /\ (c.k > 0 => c.i > 0)
    /\ c.last # "undefined" => c.r = c.last
    /\ c.i > 0 => /\ NobodyLost(c, lists[c.types[c.i]])
                  /\ c.removed = {} => Undisturbed(c, lists[c.types[c.i]])

ListsOK(lists, Types, Listeners, MaxListeners) ==
    lists \in [Types -> Seq(Listeners)] /\ \A t \in Types : Len(lists[t]) <= MaxListeners

EventInv(Types, Listeners, Firings, Results, MaxListeners) ==
    /\ ListsOK(allListeners, Types, Listeners, MaxListeners)
    /\ calls \in Seq(CallRecords(Listeners, Firings, Results, MaxListeners))
    /\ \A n \in DOMAIN calls : WalkOK(allListeners, calls[n])
    /\ answer.state = "done" /\ answer.last # "undefined" => answer.r = answer.last

\* A list that grows at its end, or that loses a listener, keeps what is said of a call.
LEMMA AddedKeeps ==
    ASSUME NEW Types, NEW Listeners, NEW Firings \in SUBSET Seq(Types), NEW Results, NEW MaxListeners \in Nat,
           NEW lists \in [Types -> Seq(Listeners)], NEW t \in Types, NEW l \in Listeners,
           NEW c \in CallRecords(Listeners, Firings, Results, MaxListeners), WalkOK(lists, c)
    PROVE  WalkOK([lists EXCEPT ![t] = Append(@, l)], c)
<1> DEFINE new == [lists EXCEPT ![t] = Append(@, l)]
<1>1. SUFFICES ASSUME c.i > 0
               PROVE  /\ NobodyLost(c, new[c.types[c.i]])
                      /\ c.removed = {} => Undisturbed(c, new[c.types[c.i]])
  BY DEF WalkOK
<1>2. c.types \in Seq(Types) /\ c.types[c.i] \in Types /\ c.start \in Seq(Listeners) /\ c.k \in Nat
  BY <1>1 DEF CallRecords, WalkOK
<1> DEFINE list == lists[c.types[c.i]]
           longer == new[c.types[c.i]]
<1>3. list \in Seq(Listeners) /\ (longer = list \/ longer = Append(list, l))
  BY <1>2
<1>4. /\ DOMAIN list \subseteq DOMAIN longer /\ Len(list) <= Len(longer)
      /\ \A n \in DOMAIN list : longer[n] = list[n]
  <2> HIDE DEF list, longer
  <2>1. CASE longer = list
    BY <1>3, <2>1
  <2>2. CASE longer = Append(list, l)
    BY <1>3, <2>2
  <2> QED BY <1>3, <2>1, <2>2
<1>5. NobodyLost(c, list) /\ (c.removed = {} => Undisturbed(c, list))
  BY <1>1 DEF WalkOK
<1>6. Len(list) \in Nat /\ Len(longer) \in Nat /\ Len(c.start) \in Nat /\ DOMAIN c.start = 1 .. Len(c.start)
      /\ DOMAIN list = 1 .. Len(list)
  BY <1>2, <1>3
<1> HIDE DEF list, longer, new
<1>7. NobodyLost(c, longer)
  BY <1>4, <1>5 DEF NobodyLost
<1>8. c.removed = {} => Undisturbed(c, longer)
  <2> SUFFICES ASSUME c.removed = {} PROVE Undisturbed(c, longer)
    OBVIOUS
  <2>1. Undisturbed(c, list)
    BY <1>5
  <2>2. \A n \in DOMAIN c.start : longer[n] = c.start[n]
    BY <2>1, <1>4, <1>6 DEF Undisturbed
  <2>3. Len(c.start) <= Len(longer)
    BY <2>1, <1>4, <1>6 DEF Undisturbed
  <2> QED BY <2>1, <2>2, <2>3 DEF Undisturbed
<1> QED BY <1>7, <1>8 DEF longer

\* The listener l of t is taken away during the call.
Marked(c, t, l) == IF c.i > 0 /\ c.types[c.i] = t THEN [c EXCEPT !.removed = @ \cup {l}] ELSE c

\* So does the record of a removal, whether or not it is of the list the call walks.
LEMMA RemovedKeeps ==
    ASSUME NEW Types, NEW Listeners, NEW Firings \in SUBSET Seq(Types), NEW Results, NEW MaxListeners \in Nat,
           NEW lists \in [Types -> Seq(Listeners)], NEW t \in Types, NEW l \in Listeners, NEW v \in Seq(Listeners),
           \A n \in DOMAIN lists[t] : lists[t][n] # l => \E k \in DOMAIN v : k <= n /\ v[k] = lists[t][n],
           NEW c \in CallRecords(Listeners, Firings, Results, MaxListeners), WalkOK(lists, c)
    PROVE  /\ Marked(c, t, l) \in CallRecords(Listeners, Firings, Results, MaxListeners)
           /\ WalkOK([lists EXCEPT ![t] = v], Marked(c, t, l))
<1> DEFINE new == [lists EXCEPT ![t] = v]
<1>1. CASE ~(c.i > 0 /\ c.types[c.i] = t)
  <2>1. ASSUME c.i > 0 PROVE new[c.types[c.i]] = lists[c.types[c.i]]
    BY <1>1, <2>1 DEF CallRecords, WalkOK
  <2>2. WalkOK(new, c)
    <3> HIDE DEF new
    <3> QED BY <2>1 DEF WalkOK
  <2> QED BY <1>1, <2>2 DEF Marked
<1>2. CASE c.i > 0 /\ c.types[c.i] = t
  <2> DEFINE d == [c EXCEPT !.removed = @ \cup {l}]
  <2>1. /\ d \in CallRecords(Listeners, Firings, Results, MaxListeners)
        /\ d.types = c.types /\ d.i = c.i /\ d.k = c.k /\ d.r = c.r /\ d.last = c.last
        /\ d.start = c.start /\ d.called = c.called /\ d.removed = c.removed \cup {l}
    BY DEF CallRecords
  <2> HIDE DEF d
  <2>2. new[t] = v
    OBVIOUS
  <2>3. c.k \in Nat /\ DOMAIN lists[t] \subseteq Nat /\ DOMAIN v \subseteq Nat
    BY DEF CallRecords
  <2>4. NobodyLost(d, v)
    <3> SUFFICES ASSUME NEW n \in DOMAIN c.start, c.start[n] \notin c.removed, c.start[n] # l,
                        ~ \E m \in DOMAIN c.called : c.called[m] = c.start[n]
                 PROVE  \E m \in DOMAIN v : m <= c.k /\ v[m] = c.start[n]
      BY <2>1 DEF NobodyLost
    <3>1. PICK m \in DOMAIN lists[t] : m <= c.k /\ lists[t][m] = c.start[n]
      BY <1>2 DEF WalkOK, NobodyLost
    <3>2. PICK k \in DOMAIN v : k <= m /\ v[k] = lists[t][m]
      BY <3>1
    <3>3. k <= c.k
      BY <2>3, <3>1, <3>2
    <3> QED BY <3>1, <3>2, <3>3
  <2>5. d.removed # {}
    BY <2>1
  <2> HIDE DEF new
  <2>6. WalkOK(new, d)
    BY <1>2, <2>1, <2>2, <2>4, <2>5 DEF WalkOK
  <2>7. d \in CallRecords(Listeners, Firings, Results, MaxListeners) /\ WalkOK(new, d)
    BY <2>1, <2>6
  <2> QED BY <1>2, <2>7, Zenon DEF d, new, Marked
<1> QED BY <1>1, <1>2

\* The list of a type is taken up.
LEMMA BeginsType ==
    ASSUME NEW Types, NEW Listeners, NEW Firings \in SUBSET Seq(Types), NEW Results, NEW MaxListeners \in Nat,
           NEW lists, ListsOK(lists, Types, Listeners, MaxListeners),
           NEW c \in CallRecords(Listeners, Firings, Results, MaxListeners), WalkOK(lists, c), c.i < Len(c.types)
    PROVE  LET list == lists[c.types[c.i + 1]]
               d == [c EXCEPT !.i = @ + 1, !.k = Len(list), !.start = list, !.called = <<>>,
                              !.removed = {}, !.state = "type"]
           IN  /\ d \in CallRecords(Listeners, Firings, Results, MaxListeners)
               /\ WalkOK(lists, d)
<1> DEFINE list == lists[c.types[c.i + 1]]
           d == [c EXCEPT !.i = @ + 1, !.k = Len(list), !.start = list, !.called = <<>>,
                          !.removed = {}, !.state = "type"]
<1>1. c.types \in Seq(Types) /\ c.i \in Nat /\ c.i + 1 \in 1 .. Len(c.types)
  BY DEF CallRecords
<1>2. c.types[c.i + 1] \in Types /\ list \in Seq(Listeners) /\ Len(list) \in 0 .. MaxListeners
  BY <1>1 DEF ListsOK
<1> HIDE DEF list
<1>3. /\ d \in CallRecords(Listeners, Firings, Results, MaxListeners)
      /\ d.types = c.types /\ d.i = c.i + 1 /\ d.k = Len(list) /\ d.r = c.r /\ d.last = c.last
      /\ d.start = list /\ d.called = <<>> /\ d.removed = {}
  <2> DEFINE i == c.i + 1
             k == Len(list)
  <2>1. i \in Nat /\ k \in 0 .. MaxListeners /\ <<>> \in Seq(Listeners)
    BY <1>1, <1>2
  <2>2. d = [c EXCEPT !.i = i, !.k = k, !.start = list, !.called = <<>>, !.removed = {}, !.state = "type"]
    OBVIOUS
  <2> HIDE DEF i, k, d
  <2>3. /\ d \in CallRecords(Listeners, Firings, Results, MaxListeners)
        /\ d.types = c.types /\ d.i = i /\ d.k = k /\ d.r = c.r /\ d.last = c.last
        /\ d.start = list /\ d.called = <<>> /\ d.removed = {}
    BY <1>2, <2>1, <2>2 DEF CallRecords
  <2> QED BY <2>3 DEF i, k
<1> HIDE DEF d
<1>4. NobodyLost(d, list)
  BY <1>2, <1>3 DEF NobodyLost
<1>5. Undisturbed(d, list)
  BY <1>2, <1>3 DEF Undisturbed
<1>6. WalkOK(lists, d)
  BY <1>1, <1>3, <1>4, <1>5 DEF WalkOK, list
<1> QED BY <1>3, <1>6 DEF d, list

\* The place before k is come to.
LEMMA Visits ==
    ASSUME NEW Types, NEW Listeners, NEW Firings \in SUBSET Seq(Types), NEW Results, NEW MaxListeners \in Nat,
           NEW lists \in [Types -> Seq(Listeners)],
           NEW c \in CallRecords(Listeners, Firings, Results, MaxListeners), WalkOK(lists, c), c.k > 0, c.i > 0
    PROVE  LET k == c.k - 1
               list == lists[c.types[c.i]]
               found == k + 1 \in DOMAIN list
               d == [c EXCEPT !.k = k, !.running = IF found THEN list[k + 1] ELSE "none",
                              !.called = IF found THEN Append(@, list[k + 1]) ELSE @]
           IN  /\ d \in CallRecords(Listeners, Firings, Results, MaxListeners)
               /\ WalkOK(lists, d)
<1> DEFINE k == c.k - 1
           list == lists[c.types[c.i]]
           found == k + 1 \in DOMAIN list
           running == IF found THEN list[k + 1] ELSE "none"
           called == IF found THEN Append(c.called, list[k + 1]) ELSE c.called
           d == [c EXCEPT !.k = k, !.running = running, !.called = called]
<1>1. /\ c.types[c.i] \in Types /\ list \in Seq(Listeners) /\ k \in 0 .. MaxListeners
      /\ c.called \in Seq(Listeners) /\ c.start \in Seq(Listeners) /\ c.k = k + 1 /\ k \in Nat
  BY DEF CallRecords, WalkOK
<1> HIDE DEF list, k
<1>2. running \in Listeners \cup {"none"} /\ called \in Seq(Listeners)
  BY <1>1
<1> HIDE DEF running, called
<1>3. /\ d \in CallRecords(Listeners, Firings, Results, MaxListeners)
      /\ d.types = c.types /\ d.i = c.i /\ d.k = k /\ d.r = c.r /\ d.last = c.last
      /\ d.start = c.start /\ d.called = called /\ d.removed = c.removed
  BY <1>1, <1>2 DEF CallRecords
<1> HIDE DEF d
<1>4. /\ \A m \in DOMAIN c.called : m \in DOMAIN called /\ called[m] = c.called[m]
      /\ k + 1 \in DOMAIN list => /\ Len(called) = Len(c.called) + 1 /\ Len(called) \in DOMAIN called
                                  /\ called[Len(called)] = list[k + 1]
                                  /\ DOMAIN called = DOMAIN c.called \cup {Len(called)}
  BY <1>1 DEF called
<1>5. NobodyLost(d, list)
  <2> SUFFICES ASSUME NEW n \in DOMAIN c.start, c.start[n] \notin c.removed,
                      ~ \E m \in DOMAIN called : called[m] = c.start[n]
               PROVE  \E m \in DOMAIN list : m <= k /\ list[m] = c.start[n]
    BY <1>3 DEF NobodyLost
  <2>1. PICK m \in DOMAIN list : m <= c.k /\ list[m] = c.start[n]
    BY <1>4 DEF WalkOK, NobodyLost, list
  <2>2. m # k + 1
    BY <1>4, <2>1
  <2>3. m <= k
    BY <1>1, <2>1, <2>2
  <2> QED BY <2>1, <2>3
<1>6. c.removed = {} => Undisturbed(d, list)
  <2> SUFFICES ASSUME c.removed = {} PROVE Undisturbed(d, list)
    OBVIOUS
  <2>1. Undisturbed(c, list)
    BY DEF WalkOK, list
  <2>2. k + 1 \in DOMAIN c.start /\ k + 1 \in DOMAIN list /\ Len(c.called) = Len(c.start) - (k + 1)
        /\ list[k + 1] = c.start[k + 1] /\ Len(c.start) \in Nat
    BY <1>1, <2>1 DEF Undisturbed
  <2>3. Len(called) = Len(c.start) - k /\ called[Len(called)] = c.start[Len(c.start) + 1 - Len(called)]
    <3>1. Len(called) = Len(c.start) - k
      <4>1. Len(called) = Len(c.called) + 1
        BY <1>4, <2>2
      <4>2. k \in Nat /\ Len(c.start) \in Nat /\ Len(c.called) = Len(c.start) - (k + 1)
        BY <1>1, <2>2
      <4> QED BY <4>1, <4>2
    <3>2. Len(c.start) + 1 - Len(called) = k + 1
      BY <1>1, <2>2, <3>1
    <3> QED BY <1>4, <2>2, <3>1, <3>2
  <2>4. \A n \in DOMAIN called : called[n] = c.start[Len(c.start) + 1 - n]
    BY <1>4, <2>1, <2>2, <2>3 DEF Undisturbed
  <2>5. k <= Len(c.start)
    BY <1>1, <2>2
  <2> QED BY <1>3, <2>1, <2>3, <2>4, <2>5 DEF Undisturbed
<1>7. WalkOK(lists, d)
  BY <1>3, <1>5, <1>6 DEF WalkOK, list
<1> QED BY <1>3, <1>7 DEF d, called, running, k, list

\* The call that runs is another one.
LEMMA TopChanges ==
    ASSUME NEW R, NEW lists, NEW s \in Seq(R), s # <<>>, \A n \in DOMAIN s : WalkOK(lists, s[n]),
           NEW c \in R, WalkOK(lists, c)
    PROVE  LET new == [s EXCEPT ![Len(s)] = c]
           IN  new \in Seq(R) /\ \A n \in DOMAIN new : WalkOK(lists, new[n])
<1> DEFINE new == [s EXCEPT ![Len(s)] = c]
<1>1. new \in Seq(R) /\ DOMAIN new = DOMAIN s
      /\ \A n \in DOMAIN s : new[n] = s[n] \/ new[n] = c
  OBVIOUS
<1> HIDE DEF new
<1>2. \A n \in DOMAIN new : WalkOK(lists, new[n])
  BY <1>1, Zenon
<1> QED BY <1>1, <1>2 DEF new

\* The call that ran has returned.
LEMMA TopLeaves ==
    ASSUME NEW R, NEW lists, NEW s \in Seq(R), s # <<>>, \A n \in DOMAIN s : WalkOK(lists, s[n])
    PROVE  LET new == SubSeq(s, 1, Len(s) - 1)
           IN  new \in Seq(R) /\ \A n \in DOMAIN new : WalkOK(lists, new[n])
<1> DEFINE new == SubSeq(s, 1, Len(s) - 1)
<1>1. new \in Seq(R) /\ DOMAIN new \subseteq DOMAIN s
      /\ \A n \in DOMAIN new : new[n] = s[n]
  OBVIOUS
<1> HIDE DEF new
<1>2. \A n \in DOMAIN new : WalkOK(lists, new[n])
  BY <1>1
<1> QED BY <1>1, <1>2 DEF new

\* Every step of the events keeps the invariant.
LEMMA EventStep ==
    ASSUME NEW Types, NEW Listeners, NEW Handled, NEW Firings \in SUBSET Seq(Types), NEW Results,
           NEW MaxListeners \in Nat, NEW MaxDepth,
           EventInv(Types, Listeners, Firings, Results, MaxListeners),
           [E(Types, Listeners, Handled, Firings, Results, MaxListeners, MaxDepth)!Next]_<<allListeners, calls, answer>>
    PROVE  EventInv(Types, Listeners, Firings, Results, MaxListeners)'
<1> DEFINE R == CallRecords(Listeners, Firings, Results, MaxListeners)
           AnswerOK == answer.state = "done" /\ answer.last # "undefined" => answer.r = answer.last
           CallsOK == calls \in Seq(R) /\ \A n \in DOMAIN calls : WalkOK(allListeners, calls[n])
           Top == calls[Len(calls)]
<1>1. /\ ListsOK(allListeners, Types, Listeners, MaxListeners) /\ CallsOK /\ AnswerOK
      /\ allListeners \in [Types -> Seq(Listeners)]
  BY DEF EventInv, ListsOK
<1>2. ListsOK(allListeners, Types, Listeners, MaxListeners)' /\ CallsOK' /\ AnswerOK'
        => EventInv(Types, Listeners, Firings, Results, MaxListeners)'
  BY DEF EventInv
<1>3. calls # <<>> => /\ Top \in R /\ WalkOK(allListeners, Top)
                      /\ E(Types, Listeners, Handled, Firings, Results, MaxListeners, MaxDepth)!Top = Top
  BY <1>1 DEF E!Top
<1>4. ASSUME calls # <<>>, NEW c \in R, WalkOK(allListeners, c), calls' = [calls EXCEPT ![Len(calls)] = c],
             UNCHANGED <<allListeners, answer>>
      PROVE  EventInv(Types, Listeners, Firings, Results, MaxListeners)'
  <2>1. CallsOK'
    BY <1>1, <1>4, TopChanges
  <2> QED BY <1>1, <1>2, <1>4, <2>1
<1>5. ASSUME calls # <<>>, calls' = SubSeq(calls, 1, Len(calls) - 1), UNCHANGED allListeners, AnswerOK'
      PROVE  EventInv(Types, Listeners, Firings, Results, MaxListeners)'
  <2>1. CallsOK'
    BY <1>1, <1>5, TopLeaves
  <2> QED BY <1>1, <1>2, <1>5, <2>1
<1> HIDE DEF CallsOK, AnswerOK, R, Top
<1>6. ASSUME NEW t \in Types, NEW l \in Listeners,
             E(Types, Listeners, Handled, Firings, Results, MaxListeners, MaxDepth)!AddListener(t, l)
      PROVE  EventInv(Types, Listeners, Firings, Results, MaxListeners)'
  <2>1. /\ allListeners' = [allListeners EXCEPT ![t] = Append(@, l)] /\ UNCHANGED <<calls, answer>>
        /\ Len(allListeners[t]) < MaxListeners
    BY <1>6 DEF E!AddListener
  <2>2. ListsOK(allListeners, Types, Listeners, MaxListeners)'
    BY <1>1, <2>1 DEF ListsOK
  <2>3. ASSUME NEW c \in R, WalkOK(allListeners, c) PROVE WalkOK(allListeners', c)
    BY <1>1, <2>1, <2>3, AddedKeeps DEF R
  <2>4. CallsOK'
    <3>1. \A n \in DOMAIN calls : WalkOK(allListeners', calls[n])
      BY <1>1, <2>3 DEF CallsOK
    <3> QED BY <1>1, <2>1, <3>1 DEF CallsOK
  <2> QED BY <1>1, <1>2, <2>1, <2>2, <2>4 DEF AnswerOK
<1>7. ASSUME NEW t \in Types, NEW l \in Listeners,
             E(Types, Listeners, Handled, Firings, Results, MaxListeners, MaxDepth)!RemoveListener(t, l)
      PROVE  EventInv(Types, Listeners, Firings, Results, MaxListeners)'
  <2> DEFINE v == Kept(allListeners[t], l)
  <2>1. /\ allListeners' = [allListeners EXCEPT ![t] = v] /\ UNCHANGED answer
        /\ calls' = [n \in DOMAIN calls |-> Marked(calls[n], t, l)]
    BY <1>7 DEF E!RemoveListener, E!TypeOf, E!RemoveItem, Kept, KeptUpto, Marked
  <2>2. /\ v \in Seq(Listeners) /\ Len(v) <= Len(allListeners[t])
        /\ \A n \in DOMAIN allListeners[t] : allListeners[t][n] # l
              => \E k \in DOMAIN v : k <= n /\ v[k] = allListeners[t][n]
    <3>1. allListeners[t] \in Seq(Listeners)
      BY <1>1
    <3> QED BY <3>1, Removes
  <2> HIDE DEF v
  <2>3. ListsOK(allListeners, Types, Listeners, MaxListeners)'
    BY <1>1, <2>1, <2>2 DEF ListsOK
  <2>4. ASSUME NEW c \in R, WalkOK(allListeners, c) PROVE Marked(c, t, l) \in R /\ WalkOK(allListeners', Marked(c, t, l))
    <3>1. Marked(c, t, l) \in CallRecords(Listeners, Firings, Results, MaxListeners)
          /\ WalkOK([allListeners EXCEPT ![t] = v], Marked(c, t, l))
      <4>1. c \in CallRecords(Listeners, Firings, Results, MaxListeners)
        BY <2>4 DEF R
      <4> QED BY <1>1, <2>2, <2>4, <4>1, RemovedKeeps, Zenon
    <3> QED BY <2>1, <3>1 DEF R
  <2>5. CallsOK'
    <3>1. calls' \in Seq(R) /\ DOMAIN calls' = DOMAIN calls
      BY <1>1, <2>1, <2>4 DEF CallsOK
    <3>2. \A n \in DOMAIN calls : calls[n] \in R /\ WalkOK(allListeners, calls[n])
      BY <1>1 DEF CallsOK
    <3>3. \A n \in DOMAIN calls : calls'[n] = Marked(calls[n], t, l)
      BY <2>1
    <3>4. \A n \in DOMAIN calls : WalkOK(allListeners', calls'[n])
      BY <2>4, <3>2, <3>3
    <3> QED BY <3>1, <3>4 DEF CallsOK
  <2> QED BY <1>1, <1>2, <2>1, <2>3, <2>5 DEF AnswerOK
<1>8. ASSUME NEW types \in Firings,
             E(Types, Listeners, Handled, Firings, Results, MaxListeners, MaxDepth)!FireEvent(types)
      PROVE  EventInv(Types, Listeners, Firings, Results, MaxListeners)'
  <2> DEFINE c == [types |-> types, i |-> 0, k |-> 0, running |-> "none", r |-> "undefined",
                   start |-> <<>>, called |-> <<>>, removed |-> {}, last |-> "undefined", state |-> "walk"]
  <2>1. calls' = Append(calls, c) /\ UNCHANGED allListeners
        /\ answer'.state = "none"
    BY <1>8 DEF E!FireEvent, E!Call, E!NoAnswer, E!Answer
  <2>2. c \in R
    BY DEF R, CallRecords
  <2>3. WalkOK(allListeners, c)
    BY DEF WalkOK
  <2> HIDE DEF c
  <2>4. CallsOK'
    BY <1>1, <2>1, <2>2, <2>3 DEF CallsOK
  <2> QED BY <1>1, <1>2, <2>1, <2>4 DEF AnswerOK
<1>9. CASE E(Types, Listeners, Handled, Firings, Results, MaxListeners, MaxDepth)!NextType
  <2> DEFINE list == allListeners[Top.types[Top.i + 1]]
             d == [Top EXCEPT !.i = @ + 1, !.k = Len(list), !.start = list, !.called = <<>>,
                              !.removed = {}, !.state = "type"]
  <2>1. /\ calls # <<>> /\ Top.i < Len(Top.types) /\ UNCHANGED <<allListeners, answer>>
        /\ calls' = [calls EXCEPT ![Len(calls)] = d]
    BY <1>3, <1>9 DEF E!NextType, E!SetTop, Top
  <2>2. d \in R /\ WalkOK(allListeners, d)
    BY <1>1, <1>3, <2>1, BeginsType DEF R
  <2> QED BY <1>4, <2>1, <2>2
<1>10. CASE E(Types, Listeners, Handled, Firings, Results, MaxListeners, MaxDepth)!Visit
  <2> DEFINE k == Top.k - 1
             list == allListeners[Top.types[Top.i]]
             found == k + 1 \in DOMAIN list
             d == [Top EXCEPT !.k = k, !.running = IF found THEN list[k + 1] ELSE "none",
                              !.called = IF found THEN Append(@, list[k + 1]) ELSE @]
  <2>1. /\ calls # <<>> /\ Top.k > 0 /\ UNCHANGED <<allListeners, answer>>
        /\ calls' = [calls EXCEPT ![Len(calls)] = d]
    BY <1>3, <1>10 DEF E!Visit, E!SetTop, E!TypeOf, Top
  <2>2. Top.i > 0
    BY <1>3, <2>1 DEF WalkOK
  <2>3. d \in R /\ WalkOK(allListeners, d)
    BY <1>1, <1>3, <2>1, <2>2, Visits DEF R
  <2> QED BY <1>4, <2>1, <2>3
<1>11. ASSUME calls # <<>>, NEW c \in R, c.i = Top.i, c.k = Top.k, c.types = Top.types, c.start = Top.start,
              c.called = Top.called, c.removed = Top.removed, c.last # "undefined" => c.r = c.last
       PROVE  WalkOK(allListeners, c)
  BY <1>3, <1>11 DEF WalkOK, NobodyLost, Undisturbed
<1>12. CASE E(Types, Listeners, Handled, Firings, Results, MaxListeners, MaxDepth)!OnMethod
  <2> DEFINE running == IF Top.types[Top.i] \in Handled THEN "on" ELSE "none"
             d == [Top EXCEPT !.state = "walk", !.running = running]
  <2>1. /\ calls # <<>> /\ UNCHANGED <<allListeners, answer>>
        /\ calls' = [calls EXCEPT ![Len(calls)] = d]
    BY <1>3, <1>12 DEF E!OnMethod, E!SetTop, E!TypeOf, Top
  <2>2. running \in {"on", "none"} /\ Top \in R
    BY <1>3, <2>1
  <2> HIDE DEF running
  <2>3. /\ d \in R /\ d.i = Top.i /\ d.k = Top.k /\ d.types = Top.types /\ d.start = Top.start
        /\ d.called = Top.called /\ d.removed = Top.removed /\ d.r = Top.r /\ d.last = Top.last
    BY <2>2 DEF R, CallRecords
  <2> HIDE DEF d
  <2>4. d.last # "undefined" => d.r = d.last
    BY <1>3, <2>1, <2>3 DEF WalkOK
  <2>5. WalkOK(allListeners, d)
    BY <1>11, <2>1, <2>3, <2>4
  <2> QED BY <1>4, <2>1, <2>3, <2>5
<1>13. CASE E(Types, Listeners, Handled, Firings, Results, MaxListeners, MaxDepth)!Finish
  <2>1. /\ calls # <<>> /\ UNCHANGED allListeners /\ calls' = SubSeq(calls, 1, Len(calls) - 1)
        /\ answer'.r = Top.r /\ answer'.last = Top.last
    <3>1. calls # <<>> /\ Top \in R
      BY <1>3, <1>13 DEF E!Finish
    <3> QED BY <1>3, <1>13, <3>1 DEF E!Finish, E!Return, E!Answer, R, CallRecords
  <2>2. AnswerOK'
    BY <1>3, <2>1 DEF AnswerOK, WalkOK
  <2> QED BY <1>5, <2>1, <2>2
<1>14. ASSUME NEW result \in Results,
              E(Types, Listeners, Handled, Firings, Results, MaxListeners, MaxDepth)!ListenerReturns(result)
       PROVE  EventInv(Types, Listeners, Firings, Results, MaxListeners)'
  <2>1. calls # <<>> /\ Top \in R /\ UNCHANGED allListeners
    BY <1>3, <1>14 DEF E!ListenerReturns
  <2>2. CASE result = "true"
    <3>1. calls' = SubSeq(calls, 1, Len(calls) - 1) /\ answer'.state = "stopped"
      BY <1>3, <1>14, <2>1, <2>2 DEF E!ListenerReturns, E!Return, E!Answer, R, CallRecords
    <3> QED BY <1>5, <2>1, <3>1 DEF AnswerOK
  <2>3. CASE result # "true"
    <3> DEFINE r == IF result # "undefined" THEN result ELSE Top.r
               c == [Top EXCEPT !.running = "none", !.last = result]
               d == IF result # "undefined" THEN [c EXCEPT !.r = result] ELSE c
    <3>1. calls' = [calls EXCEPT ![Len(calls)] = d] /\ UNCHANGED answer
      BY <1>3, <1>14, <2>1, <2>3 DEF E!ListenerReturns, E!SetTop, E!Keep
    <3>2. /\ d \in R /\ d.i = Top.i /\ d.k = Top.k /\ d.types = Top.types /\ d.start = Top.start
          /\ d.called = Top.called /\ d.removed = Top.removed /\ d.last = result
          /\ result # "undefined" => d.r = result
      <4>1. CASE result = "undefined"
        BY <2>1, <4>1 DEF R, CallRecords
      <4>2. CASE result # "undefined"
        BY <2>1, <4>2 DEF R, CallRecords
      <4> QED BY <4>1, <4>2
    <3> HIDE DEF d, c
    <3>3. WalkOK(allListeners, d)
      BY <1>11, <2>1, <3>2
    <3> QED BY <1>4, <2>1, <3>1, <3>2, <3>3
  <2> QED BY <2>2, <2>3
<1>15. ASSUME NEW result \in Results,
              E(Types, Listeners, Handled, Firings, Results, MaxListeners, MaxDepth)!OnReturns(result)
       PROVE  EventInv(Types, Listeners, Firings, Results, MaxListeners)'
  <2> DEFINE d == [Top EXCEPT !.running = "none", !.r = result, !.last = result]
  <2>1. /\ calls # <<>> /\ Top \in R /\ UNCHANGED <<allListeners, answer>>
        /\ calls' = [calls EXCEPT ![Len(calls)] = d]
    BY <1>3, <1>15 DEF E!OnReturns, E!SetTop
  <2>2. /\ d \in R /\ d.i = Top.i /\ d.k = Top.k /\ d.types = Top.types /\ d.start = Top.start
        /\ d.called = Top.called /\ d.removed = Top.removed /\ d.r = d.last
    BY <2>1 DEF R, CallRecords
  <2> HIDE DEF d
  <2>3. WalkOK(allListeners, d)
    BY <1>11, <2>1, <2>2
  <2> QED BY <1>4, <2>1, <2>2, <2>3
<1>16. CASE UNCHANGED <<allListeners, calls, answer>>
  BY <1>1, <1>2, <1>16 DEF CallsOK, AnswerOK
<1> QED
  BY <1>6, <1>7, <1>8, <1>9, <1>10, <1>12, <1>13, <1>14, <1>15, <1>16 DEF E!Next

\* What the invariant says of the calls that have come to the end of a list.
LEMMA EventGives ==
    ASSUME NEW Types, NEW Listeners, NEW Handled, NEW Firings \in SUBSET Seq(Types), NEW Results,
           NEW MaxListeners \in Nat, NEW MaxDepth,
           EventInv(Types, Listeners, Firings, Results, MaxListeners)
    PROVE  /\ E(Types, Listeners, Handled, Firings, Results, MaxListeners, MaxDepth)!TypeOK
           /\ E(Types, Listeners, Handled, Firings, Results, MaxListeners, MaxDepth)!EachOnceInOrder
           /\ E(Types, Listeners, Handled, Firings, Results, MaxListeners, MaxDepth)!NobodyIsSkipped
           /\ E(Types, Listeners, Handled, Firings, Results, MaxListeners, MaxDepth)!ResultIsLastValue
<1>1. ASSUME NEW n \in DOMAIN calls
      PROVE  /\ calls[n] \in CallRecords(Listeners, Firings, Results, MaxListeners)
             /\ WalkOK(allListeners, calls[n])
  BY DEF EventInv
<1>2. E(Types, Listeners, Handled, Firings, Results, MaxListeners, MaxDepth)!TypeOK
  <2>1. allListeners \in [Types -> UNION {[1 .. n -> Listeners] : n \in 0 .. MaxListeners}]
    <3>1. ASSUME NEW t \in Types PROVE allListeners[t] \in UNION {[1 .. n -> Listeners] : n \in 0 .. MaxListeners}
      <4>1. Len(allListeners[t]) \in 0 .. MaxListeners /\ allListeners[t] \in [1 .. Len(allListeners[t]) -> Listeners]
        BY DEF EventInv, ListsOK
      <4> QED BY <4>1
    <3> QED BY <3>1 DEF EventInv, ListsOK
  <2>2. ASSUME NEW n \in DOMAIN calls
        PROVE  /\ calls[n].k \in 0 .. MaxListeners
               /\ calls[n].running \in Listeners \cup {"none", "on"}
               /\ calls[n].r \in Results \cup {"undefined"}
    BY <1>1 DEF CallRecords
  <2> QED BY <2>1, <2>2 DEF E!TypeOK
<1>3. ASSUME NEW n \in DOMAIN calls, calls[n].i > 0, calls[n].k = 0
      PROVE  LET c == calls[n]
             IN  /\ c.removed = {} => /\ Len(c.called) = Len(c.start)
                                      /\ \A m \in DOMAIN c.called : c.called[m] = c.start[Len(c.start) + 1 - m]
                 /\ \A m \in DOMAIN c.start : c.start[m] \in c.removed
                                              \/ \E j \in DOMAIN c.called : c.called[j] = c.start[m]
  <2> DEFINE c == calls[n]
             list == allListeners[c.types[c.i]]
  <2>1. c.types[c.i] \in Types /\ c.start \in Seq(Listeners) /\ c.called \in Seq(Listeners)
    BY <1>1, <1>3 DEF CallRecords, WalkOK
  <2>2. list \in Seq(Listeners)
    BY <2>1 DEF EventInv, ListsOK
  <2>3. NobodyLost(c, list) /\ (c.removed = {} => Undisturbed(c, list)) /\ c.k = 0
    BY <1>1, <1>3 DEF WalkOK
  <2> HIDE DEF list
  <2>4. \A m \in DOMAIN list : ~(m <= c.k)
    BY <2>2, <2>3
  <2> HIDE DEF c
  <2>5. \A m \in DOMAIN c.start : c.start[m] \in c.removed \/ \E j \in DOMAIN c.called : c.called[j] = c.start[m]
    BY <2>3, <2>4 DEF NobodyLost
  <2>6. c.removed = {} => /\ Len(c.called) = Len(c.start)
                          /\ \A m \in DOMAIN c.called : c.called[m] = c.start[Len(c.start) + 1 - m]
    BY <2>1, <2>3 DEF Undisturbed
  <2> QED BY <2>5, <2>6 DEF c
<1>4. E(Types, Listeners, Handled, Firings, Results, MaxListeners, MaxDepth)!EachOnceInOrder
  <2> SUFFICES ASSUME NEW c \in E(Types, Listeners, Handled, Firings, Results, MaxListeners, MaxDepth)!Walked,
                      c.removed = {}
               PROVE  /\ Len(c.called) = Len(c.start)
                      /\ \A m \in DOMAIN c.called : c.called[m] = c.start[Len(c.start) + 1 - m]
    BY DEF E!EachOnceInOrder
  <2>1. PICK n \in DOMAIN calls : c = calls[n] /\ calls[n].i > 0 /\ calls[n].k = 0
    BY DEF E!Walked
  <2>2. calls[n].removed = {}
    BY <2>1
  <2> QED BY <1>3, <2>1, <2>2
<1>5. E(Types, Listeners, Handled, Firings, Results, MaxListeners, MaxDepth)!NobodyIsSkipped
  <2> SUFFICES ASSUME NEW c \in E(Types, Listeners, Handled, Firings, Results, MaxListeners, MaxDepth)!Walked,
                      NEW m \in DOMAIN c.start, c.start[m] \notin c.removed
               PROVE  \E j \in DOMAIN c.called : c.called[j] = c.start[m]
    BY DEF E!NobodyIsSkipped, E!Members
  <2>1. PICK n \in DOMAIN calls : c = calls[n] /\ calls[n].i > 0 /\ calls[n].k = 0
    BY DEF E!Walked
  <2> QED BY <1>3, <2>1, Zenon
<1>6. E(Types, Listeners, Handled, Firings, Results, MaxListeners, MaxDepth)!ResultIsLastValue
  BY DEF EventInv, E!ResultIsLastValue
<1> QED BY <1>2, <1>4, <1>5, <1>6

\* It holds when an object has no listeners and no event is fired.
LEMMA EventInit ==
    ASSUME NEW Types, NEW Listeners, NEW Handled, NEW Firings, NEW Results, NEW MaxListeners \in Nat, NEW MaxDepth,
           E(Types, Listeners, Handled, Firings, Results, MaxListeners, MaxDepth)!Init
    PROVE  EventInv(Types, Listeners, Firings, Results, MaxListeners)
<1>1. allListeners = [t \in Types |-> <<>>] /\ calls = <<>> /\ answer.state = "none"
  BY DEF E!Init, E!NoAnswer, E!Answer, E!Call
<1> QED BY <1>1 DEF EventInv, ListsOK

-----------------------------------------------------------------------------
(* Every subject by itself                                                 *)

ToolsInv ==
    /\ subject = "undo" => UndoInv
    /\ subject = "modes" => ModeInv(FALSE)
    /\ subject = "firefox" => ModeInv(TRUE)
    /\ subject = "dialogs" => DialogInv

LEMMA ToolsInvInit == Init => ToolsInv
  BY UndoInit, ModesOfRun, ModeInit, DialogInit DEF Init, ToolsInv

\* The history is touched by its own steps alone, and so are the modes, the dialogs and
\* the events.
LEMMA OneSubject ==
    ASSUME [Next]_vars
    PROVE  /\ UndoSteps \/ UNCHANGED <<subject, undo>>
           /\ ModeSteps \/ UNCHANGED <<subject, modes>>
           /\ DialogSteps \/ UNCHANGED <<subject, dialogs>>
           /\ EventSteps \/ UNCHANGED <<subject, events>>
<1> USE DEF vars
<1>1. CASE UndoSteps
  BY <1>1 DEF UndoSteps
<1>2. CASE ModeSteps
  BY <1>2 DEF ModeSteps
<1>3. CASE EventSteps
  BY <1>3 DEF EventSteps
<1>4. CASE DialogSteps
  BY <1>4 DEF DialogSteps
<1>5. CASE ScaleSteps
  BY <1>5 DEF ScaleSteps
<1>6. CASE ScrawlSteps
  BY <1>6 DEF ScrawlSteps
<1>7. CASE DragSteps
  BY <1>7 DEF DragSteps
<1>8. CASE GridSteps
  BY <1>8 DEF GridSteps
<1> QED BY <1>1, <1>2, <1>3, <1>4, <1>5, <1>6, <1>7, <1>8 DEF Next

LEMMA ToolsInvStep == ToolsInv /\ [Next]_vars => ToolsInv'
<1> SUFFICES ASSUME ToolsInv, [Next]_vars PROVE ToolsInv'
  OBVIOUS
<1>1. ASSUME subject' = "undo" PROVE UndoInv'
  <2>1. CASE UndoSteps
    BY <2>1, UndoStep DEF UndoSteps, ToolsInv
  <2>2. CASE UNCHANGED <<subject, undo>>
    <3>1. subject = "undo" /\ UNCHANGED Undo!vars
      BY <1>1, <2>2 DEF undo, Undo!vars
    <3> QED BY <3>1, UndoStep DEF ToolsInv
  <2> QED BY <2>1, <2>2, OneSubject
<1>2. ASSUME subject' = "dialogs" PROVE DialogInv'
  <2>1. CASE DialogSteps
    BY <2>1, DialogStep DEF DialogSteps, ToolsInv
  <2>2. CASE UNCHANGED <<subject, dialogs>>
    <3>1. subject = "dialogs" /\ UNCHANGED Dialog!vars
      BY <1>2, <2>2 DEF dialogs, Dialog!vars
    <3> QED BY <3>1, DialogStep DEF ToolsInv
  <2> QED BY <2>1, <2>2, OneSubject
<1>3. CASE ModeSteps
  <2>1. subject' = "modes" => ModeInv(FALSE)'
    BY <1>3, ModesOfRun, ModeStep DEF ModeSteps, ToolsInv
  <2>2. subject' = "firefox" => ModeInv(TRUE)'
    BY <1>3, ModesOfRun, ModeStep DEF ModeSteps, ToolsInv
  <2> QED BY <1>1, <1>2, <2>1, <2>2 DEF ToolsInv
<1>4. CASE UNCHANGED <<subject, modes>>
  <2>1. \A g \in BOOLEAN : ModeInv(g) => ModeInv(g)'
    BY <1>4, ModeStep DEF modes, M!vars
  <2> QED BY <1>1, <1>2, <1>4, <2>1 DEF ToolsInv
<1> QED BY <1>3, <1>4, OneSubject

\* UndoIsSound, for every set of contents and of addresses, every maxUndoCount and
\* every maxInputCount: the buttons are right, a redo undoes an undo, and at most one
\* key is missing from the history when nothing is pending.
THEOREM UndoTheorem == Spec => []UndoIsSound
<1>1. ToolsInv => UndoIsSound
  BY UndoGives DEF ToolsInv, UndoIsSound
<1> QED BY <1>1, ToolsInvInit, ToolsInvStep, PTL DEF Spec

\* DialogsTidyUp, for every set of dialogs, full screen or not, every width and every
\* width of the window: at most one dialog is open, the shared mask is shown exactly
\* then, and the scroll bars and the drag mask are given back.
THEOREM DialogsTheorem == Spec => []DialogsTidyUp
<1>1. ToolsInv => DialogsTidyUp
  BY DEF ToolsInv, DialogsTidyUp, DialogInv
<1> QED BY <1>1, ToolsInvInit, ToolsInvStep, PTL DEF Spec

\* ModesAgree, for any pieces of text, places of the cursor and commands and any number of
\* calls: getContent returns what was written last, the form follows, a disabled editor has
\* only the exempted commands, one bookmark is left at most, and setEnabled brings the
\* cursor back.
THEOREM ModesTheorem == Spec => ModesAgree
<1>1. ToolsInv => (subject = "modes" => /\ Modes!TypeOK /\ Modes!NoOrphanMarks /\ Modes!LastWins
                                        /\ Modes!CommandsMatchMode /\ Modes!FormFollows)
  BY ModeGives DEF ToolsInv
<1>2. ToolsInv => (subject = "firefox" => Firefox!TypeOK /\ Firefox!LastWins)
  BY ModeGives DEF ToolsInv
<1>3. ToolsInv /\ [Next]_vars => [subject = "modes" => Modes!PlaceComesBack]_modes
  <2>1. ASSUME ToolsInv, ModeSteps, subject = "modes" PROVE Modes!PlaceComesBack
    BY <2>1, ModesOfRun, PlaceIsRight DEF ModeSteps, ToolsInv, Modes!PlaceComesBack, Modes!None
  <2> QED BY <2>1, OneSubject
<1> QED BY <1>1, <1>2, <1>3, ToolsInvInit, ToolsInvStep, PTL DEF Spec, ModesAgree


\* The instances that the run checks are among these; one event that is not fired again
\* is one that may be.
LEMMA EventsOfRun ==
    /\ Nested!Init => E({"ready"}, {"a", "b"}, {}, {<<"ready">>}, {"undefined"}, 3, 2)!Init
    /\ Together!Init
         => E({"ready", "change"}, {"a", "b"}, {"ready"}, {<<"ready", "change">>}, {"undefined", "true", "value"}, 2, 1)!Init
    /\ Single!Next \/ Nested!Next => E({"ready"}, {"a", "b"}, {}, {<<"ready">>}, {"undefined"}, 3, 2)!Next
    /\ Together!Next
         => E({"ready", "change"}, {"a", "b"}, {"ready"}, {<<"ready", "change">>}, {"undefined", "true", "value"}, 2, 1)!Next
<1>1. Nested!Init => E({"ready"}, {"a", "b"}, {}, {<<"ready">>}, {"undefined"}, 3, 2)!Init
  BY DEF Nested!Init, Nested!NoAnswer, Nested!Answer, Nested!Call, E!Init, E!NoAnswer, E!Answer, E!Call
<1>2. Together!Init
        => E({"ready", "change"}, {"a", "b"}, {"ready"}, {<<"ready", "change">>}, {"undefined", "true", "value"}, 2, 1)!Init
  BY DEF Together!Init, Together!NoAnswer, Together!Answer, Together!Call, E!Init, E!NoAnswer, E!Answer, E!Call
<1>3. ASSUME Single!Next PROVE E({"ready"}, {"a", "b"}, {}, {<<"ready">>}, {"undefined"}, 3, 2)!Next
  <2>1. ASSUME NEW types \in {<<"ready">>}, Single!FireEvent(types)
        PROVE  E({"ready"}, {"a", "b"}, {}, {<<"ready">>}, {"undefined"}, 3, 2)!FireEvent(types)
    <3>1. Len(calls) < 1 => Len(calls) < 2
      BY SMT
    <3> QED BY <2>1, <3>1, Zenon DEF Single!FireEvent, Single!Scripting, Single!Top, Single!Call, Single!NoAnswer,
         Single!Answer, E!FireEvent, E!Scripting, E!Top, E!Call, E!NoAnswer, E!Answer
  <2> QED
    BY <1>3, <2>1, Zenon DEF Single!Next, Single!AddListener, Single!RemoveListener, Single!NextType, Single!Visit,
       Single!OnMethod, Single!Finish, Single!ListenerReturns, Single!OnReturns, Single!Top, Single!SetTop, Single!TypeOf,
       Single!Scripting, Single!Members, Single!RemoveItem, Single!Return, Single!Answer, Single!Keep, Single!Call,
       E!Next, E!AddListener, E!RemoveListener, E!NextType, E!Visit,
       E!OnMethod, E!Finish, E!ListenerReturns, E!OnReturns, E!Top, E!SetTop, E!TypeOf,
       E!Scripting, E!Members, E!RemoveItem, E!Return, E!Answer, E!Keep, E!Call
<1>4. ASSUME Nested!Next PROVE E({"ready"}, {"a", "b"}, {}, {<<"ready">>}, {"undefined"}, 3, 2)!Next
  <2>1. ASSUME NEW t \in {"ready"}, NEW l \in {"a", "b"}, Nested!AddListener(t, l)
        PROVE  E({"ready"}, {"a", "b"}, {}, {<<"ready">>}, {"undefined"}, 3, 2)!AddListener(t, l)
    <3>1. Len(allListeners[t]) < 2 => Len(allListeners[t]) < 3
      BY SMT
    <3> QED BY <2>1, <3>1, Zenon DEF Nested!AddListener, Nested!Scripting, Nested!Top, Nested!Call,
         E!AddListener, E!Scripting, E!Top, E!Call
  <2> QED
    BY <1>4, <2>1, Zenon DEF Nested!Next, Nested!FireEvent, Nested!RemoveListener, Nested!NextType, Nested!Visit,
       Nested!OnMethod, Nested!Finish, Nested!ListenerReturns, Nested!OnReturns, Nested!Top, Nested!SetTop, Nested!TypeOf,
       Nested!Scripting, Nested!Members, Nested!RemoveItem, Nested!Return, Nested!Answer, Nested!NoAnswer, Nested!Keep,
       Nested!Call, E!Next, E!FireEvent, E!RemoveListener, E!NextType, E!Visit,
       E!OnMethod, E!Finish, E!ListenerReturns, E!OnReturns, E!Top, E!SetTop, E!TypeOf,
       E!Scripting, E!Members, E!RemoveItem, E!Return, E!Answer, E!NoAnswer, E!Keep, E!Call
<1>5. ASSUME Together!Next
      PROVE  E({"ready", "change"}, {"a", "b"}, {"ready"}, {<<"ready", "change">>}, {"undefined", "true", "value"}, 2, 1)!Next
  BY <1>5, Zenon DEF Together!Next, Together!AddListener, Together!FireEvent, Together!RemoveListener, Together!NextType,
     Together!Visit, Together!OnMethod, Together!Finish, Together!ListenerReturns, Together!OnReturns, Together!Top,
     Together!SetTop, Together!TypeOf, Together!Scripting, Together!Members, Together!RemoveItem, Together!Return,
     Together!Answer, Together!NoAnswer, Together!Keep, Together!Call,
     E!Next, E!AddListener, E!FireEvent, E!RemoveListener, E!NextType, E!Visit,
     E!OnMethod, E!Finish, E!ListenerReturns, E!OnReturns, E!Top, E!SetTop, E!TypeOf,
     E!Scripting, E!Members, E!RemoveItem, E!Return, E!Answer, E!NoAnswer, E!Keep, E!Call
<1> QED BY <1>1, <1>2, <1>3, <1>4, <1>5

\* What each subject says of its events.
RunEventInv ==
    /\ subject \in {"single", "nested"} => EventInv({"ready"}, {"a", "b"}, {<<"ready">>}, {"undefined"}, 3)
    /\ subject = "together"
         => EventInv({"ready", "change"}, {"a", "b"}, {<<"ready", "change">>}, {"undefined", "true", "value"}, 2)

\* And a step of the whole run keeps it.
LEMMA RunEventStep == RunEventInv /\ [Next]_vars => RunEventInv'
<1> SUFFICES ASSUME RunEventInv, [Next]_vars PROVE RunEventInv'
  OBVIOUS
<1>1. /\ {<<"ready">>} \in SUBSET Seq({"ready"})
      /\ {<<"ready", "change">>} \in SUBSET Seq({"ready", "change"})
  OBVIOUS
<1>2. subject' = subject /\ (EventSteps \/ UNCHANGED events)
  BY OneSubject DEF EventSteps
<1>3. ASSUME subject \in {"single", "nested"}
      PROVE  EventInv({"ready"}, {"a", "b"}, {<<"ready">>}, {"undefined"}, 3)'
  <2>1. [E({"ready"}, {"a", "b"}, {}, {<<"ready">>}, {"undefined"}, 3, 2)!Next]_<<allListeners, calls, answer>>
    BY <1>2, <1>3, EventsOfRun DEF EventSteps, events
  <2> QED BY <1>1, <1>3, <2>1, EventStep DEF RunEventInv
<1>4. ASSUME subject = "together"
      PROVE  EventInv({"ready", "change"}, {"a", "b"}, {<<"ready", "change">>}, {"undefined", "true", "value"}, 2)'
  <2>1. [E({"ready", "change"}, {"a", "b"}, {"ready"}, {<<"ready", "change">>}, {"undefined", "true", "value"}, 2, 1)!Next]_
            <<allListeners, calls, answer>>
    BY <1>2, <1>4, EventsOfRun DEF EventSteps, events
  <2> QED BY <1>1, <1>4, <2>1, EventStep DEF RunEventInv
<1> QED BY <1>2, <1>3, <1>4 DEF RunEventInv


\* ListenersAllRun: the events of each subject keep the invariant, which holds for any
\* listeners, types, results and depth of firing.
THEOREM EventsTheorem == Spec => []ListenersAllRun
<1>1. Init => RunEventInv
  <2>1. subject \in {"single", "nested"} /\ Nested!Init => RunEventInv
    BY EventsOfRun, EventInit DEF RunEventInv
  <2>2. subject = "together" /\ Together!Init => RunEventInv
    BY EventsOfRun, EventInit DEF RunEventInv
  <2>3. subject \notin {"single", "nested", "together"} => RunEventInv
    BY DEF RunEventInv
  <2> QED BY <2>1, <2>2, <2>3 DEF Init
<1>2. RunEventInv => ListenersAllRun
  <2>1. /\ {<<"ready">>} \in SUBSET Seq({"ready"})
        /\ {<<"ready", "change">>} \in SUBSET Seq({"ready", "change"})
    OBVIOUS
  <2>2. ASSUME RunEventInv, subject \in {"single", "nested"}
        PROVE  Single!TypeOK /\ Single!EachOnceInOrder /\ Single!NobodyIsSkipped
    <3>1. /\ E({"ready"}, {"a", "b"}, {}, {<<"ready">>}, {"undefined"}, 3, 2)!TypeOK
          /\ E({"ready"}, {"a", "b"}, {}, {<<"ready">>}, {"undefined"}, 3, 2)!EachOnceInOrder
          /\ E({"ready"}, {"a", "b"}, {}, {<<"ready">>}, {"undefined"}, 3, 2)!NobodyIsSkipped
      BY <2>1, <2>2, EventGives DEF RunEventInv
    <3> QED
      BY <3>1, Zenon DEF E!TypeOK, E!EachOnceInOrder, E!NobodyIsSkipped, E!Walked, E!Members,
         Single!TypeOK, Single!EachOnceInOrder, Single!NobodyIsSkipped, Single!Walked, Single!Members
  <2>3. ASSUME RunEventInv, subject = "together"
        PROVE  Together!TypeOK /\ Together!NobodyIsSkipped /\ Together!ResultIsLastValue
    <3>1. /\ E({"ready", "change"}, {"a", "b"}, {"ready"}, {<<"ready", "change">>}, {"undefined", "true", "value"}, 2, 1)!TypeOK
          /\ E({"ready", "change"}, {"a", "b"}, {"ready"}, {<<"ready", "change">>}, {"undefined", "true", "value"}, 2, 1)
                !NobodyIsSkipped
          /\ E({"ready", "change"}, {"a", "b"}, {"ready"}, {<<"ready", "change">>}, {"undefined", "true", "value"}, 2, 1)
                !ResultIsLastValue
      BY <2>1, <2>3, EventGives DEF RunEventInv
    <3> QED
      BY <3>1, Zenon DEF E!TypeOK, E!NobodyIsSkipped, E!ResultIsLastValue, E!Walked, E!Members,
         Together!TypeOK, Together!NobodyIsSkipped, Together!ResultIsLastValue, Together!Walked, Together!Members
  <2> QED BY <2>2, <2>3 DEF ListenersAllRun
<1> QED BY <1>1, <1>2, RunEventStep, PTL DEF Spec
=============================================================================
