-------------------------------- MODULE Dom --------------------------------
(***************************************************************************)
(* The document tree that the editor works on, and the helpers of domUtils *)
(* that its ranges and commands are built from.                            *)
(*                                                                         *)
(* A tree is a function from node numbers to nodes.  Node 1 is the body.   *)
(* The primitives of the browser (insertBefore, splitText, cloneNode) are  *)
(* those of a browser other than Internet Explorer.  Text is a sequence of *)
(* characters: letters, the filling character U+200B and the joiner U+200D *)
(* that stands in a bookmark.                                              *)
(***************************************************************************)
EXTENDS Naturals, Integers, Sequences, FiniteSets, FiniteSetsExt, SequencesExt, Functions, TLC

Nil == 0
Body == 1
Fill == "fill"
Joiner == "joiner"

-----------------------------------------------------------------------------
(* dtd: the classes of tags, for the tags that occur in the models         *)

BlockTags == {"body", "p", "div", "h1", "pre", "blockquote", "ul", "ol", "li", "table",
              "tbody", "tr", "td"}
EmptyTags == {"br", "img", "hr"}
RemoveEmptyTags == {"a", "b", "em", "span", "strong", "sub", "sup", "u"}
NotEmptyTags == {"table", "ul", "ol", "img", "hr", "h1"}

\* dtd[tag]: the tags that may stand inside an inline element of this tag
Allows(tag) ==
    IF tag = "span" THEN {"br", "b", "strong", "u", "em", "sub", "sup", "span"}
    ELSE {"br", "img", "b", "strong", "u", "em", "sub", "sup", "span"}

-----------------------------------------------------------------------------
(* The tree of the browser                                                 *)

Txt(cs) == [tag |-> "#", up |-> Nil, kids |-> <<>>, txt |-> cs, att |-> {}]
Elm(tag, att) == [tag |-> tag, up |-> Nil, kids |-> <<>>, txt |-> <<>>, att |-> att]

IsText(d, n) == d[n].tag = "#"
IsElem(d, n) == d[n].tag \notin {"#", "frag"}
IsBody(n) == n = Body

Parent(d, n) == d[n].up

\* getNodeIndex
Index(d, n) ==
    LET p == Parent(d, n)
    IN  IF p = Nil THEN 0 ELSE (CHOOSE k \in DOMAIN d[p].kids : d[p].kids[k] = n) - 1

Child(d, n, k) == IF k + 1 \in DOMAIN d[n].kids THEN d[n].kids[k + 1] ELSE Nil
FirstChild(d, n) == Child(d, n, 0)
LastChild(d, n) == Child(d, n, Len(d[n].kids) - 1)
Sibling(d, n, step) == IF Parent(d, n) = Nil THEN Nil ELSE Child(d, Parent(d, n), Index(d, n) + step)
NextSibling(d, n) == Sibling(d, n, 1)
PrevSibling(d, n) == Sibling(d, n, -1)
Size(d, n) == IF IsText(d, n) THEN Len(d[n].txt) ELSE Len(d[n].kids)

FreshNode(d) == Max(DOMAIN d) + 1
With(d, node) == d @@ (FreshNode(d) :> node)

Shallow(node) == [node EXCEPT !.kids = <<>>, !.up = Nil]
SetKids(d, p, kids) ==
    [m \in DOMAIN d |-> IF m = p THEN [d[m] EXCEPT !.kids = kids]
                        ELSE IF Contains(kids, m) THEN [d[m] EXCEPT !.up = p] ELSE d[m]]

Detach(d, n) ==
    IF d[n].up = Nil THEN d
    ELSE [d EXCEPT ![d[n].up].kids = SelectSeq(@, LAMBDA k : k # n), ![n].up = Nil]

\* insertBefore, or appendChild when ref is Nil; of a fragment its children go in.
Place(kids, ref) == IF ref = Nil THEN Len(kids) ELSE (CHOOSE k \in DOMAIN kids : kids[k] = ref) - 1
Splice(kids, at, nodes) == SubSeq(kids, 1, at) \o nodes \o SubSeq(kids, at + 1, Len(kids))
PutKids(d, p, nodes, ref) == SetKids(d, p, Splice(d[p].kids, Place(d[p].kids, ref), nodes))
InsertBefore(d, p, n, ref) ==
    PutKids(IF d[n].tag = "frag" THEN [d EXCEPT ![n].kids = <<>>] ELSE Detach(d, n), p,
            IF d[n].tag = "frag" THEN d[n].kids ELSE <<n>>, ref)
AppendChild(d, p, n) == InsertBefore(d, p, n, Nil)
AppendAll(d, p, nodes) == FoldLeft(LAMBDA e, n : AppendChild(e, p, n), d, nodes)

DeleteData(d, n, from, count) ==
    [d EXCEPT ![n].txt = SubSeq(@, 1, from) \o SubSeq(@, from + count + 1, Len(@))]

\* cloneNode(false) is With(d, Shallow(d[n])); cloneNode(true):
RECURSIVE CloneDeep(_, _)
CloneDeep(d, n) ==
    LET c == FreshNode(d)
    IN  FoldLeft(LAMBDA e, k : AppendChild(CloneDeep(e, k), c, FreshNode(e)),
                 With(d, Shallow(d[n])), d[n].kids)

RECURSIVE Preorder(_, _)
Preorder(d, n) == <<n>> \o FlattenSeq([k \in DOMAIN d[n].kids |-> Preorder(d, d[n].kids[k])])

\* From the topmost ancestor down to the node itself: findParents(node, true)
RECURSIVE Chain(_, _)
Chain(d, n) == IF Parent(d, n) = Nil THEN <<n>> ELSE Append(Chain(d, Parent(d, n)), n)

InDoc(d, n) == Chain(d, n)[1] = Body
Below(d, n) == Range(Preorder(d, n))

-----------------------------------------------------------------------------
(* domUtils                                                                *)

\* The number of leading ancestors that two chains share
Common(s, t) ==
    Max({0} \cup {k \in 1 .. Min({Len(s), Len(t)}) : SubSeq(s, 1, k) = SubSeq(t, 1, k)})

\* getPosition: 0 the same, 1 no common root, 2 b before a, 4 a before b,
\* 10 a inside b, 20 b inside a
Position(d, s, t, i) ==
    IF i = Len(t) THEN 10 ELSE IF i = Len(s) THEN 20 ELSE IF i = 0 THEN 1
    ELSE IF Index(d, s[i + 1]) < Index(d, t[i + 1]) THEN 4 ELSE 2
Compared(d, s, t) == Position(d, s, t, Common(s, t))
GetPosition(d, a, b) == IF a = b THEN 0 ELSE Compared(d, Chain(d, a), Chain(d, b))
\* & POSITION_PRECEDING
Precedes(d, a, b) == GetPosition(d, a, b) \in {4, 20}

GetCommonAncestor(d, a, b) ==
    LET i == Common(Chain(d, a), Chain(d, b)) IN IF i = 0 THEN Nil ELSE Chain(d, a)[i]

\* findParent, with the filter as the set of nodes that it accepts
FindParent(d, n, accept, includeSelf) ==
    LET up == Chain(d, n)
        from == IF includeSelf THEN Len(up) ELSE Len(up) - 1
        hits == {k \in 1 .. from : up[k] \in accept}
    IN  IF IsBody(n) \/ hits = {} THEN Nil ELSE up[Max(hits)]
Tagged(d, tags) == {n \in DOMAIN d : d[n].tag \in tags}
FindParentByTagName(d, n, tags, includeSelf) == FindParent(d, n, Tagged(d, tags), includeSelf)

InsertAfter(d, n, new) == InsertBefore(d, Parent(d, n), new, NextSibling(d, n))

RemoveNode(d, n) == Detach(d, n)
\* remove(node, true)
Unwrap(d, n) ==
    IF Parent(d, n) = Nil THEN d
    ELSE Detach(FoldLeft(LAMBDA e, k : InsertBefore(e, Parent(e, n), k, n), d, d[n].kids), n)

\* getDomNode: the next node in document order, without the children unless
\* startFromChild; the filter and the guard are sets of nodes, and neither the
\* guard nor the descent into children survives a node that the filter refuses.
Beyond(d, up, turn, step, guard) ==
    IF turn = {} \/ \E j \in (Max(turn) + 1) .. Len(up) : up[j - 1] \notin guard THEN Nil
    ELSE Sibling(d, up[Max(turn)], step)
After(d, up, step, guard) == Beyond(d, up, {k \in 2 .. Len(up) : Sibling(d, up[k], step) # Nil}, step, guard)
RECURSIVE GetDomNode(_, _, _, _, _, _)
Accepted(d, n, step, accept) ==
    IF n = Nil \/ n \in accept THEN n ELSE GetDomNode(d, n, step, FALSE, accept, DOMAIN d)
GetDomNode(d, n, step, startFromChild, accept, guard) ==
    Accepted(d, IF startFromChild /\ d[n].kids # <<>> THEN (IF step = 1 THEN Head(d[n].kids) ELSE Last(d[n].kids))
                ELSE After(d, Chain(d, n), step, guard), step, accept)
GetNextDomNode(d, n, startFromChild, accept) == GetDomNode(d, n, 1, startFromChild, accept, DOMAIN d)

IsBookmarkNode(d, n) == IsElem(d, n) /\ \E a \in d[n].att : a[1] = "id"
IsBlockElm(d, n) == d[n].tag \in BlockTags
IsBr(d, n) == d[n].tag = "br"
\* Of an element the nodeValue is null, which the regular expressions take as text.
IsWhitespace(d, n) == IsText(d, n) /\ Range(d[n].txt) \subseteq {Fill, " "}
IsFillChar(d, n) == IsText(d, n) /\ Range(d[n].txt) \subseteq {Fill}

RECURSIVE IsEmptyInlineElement(_, _)
IsEmptyInlineElement(d, n) ==
    /\ d[n].tag \in RemoveEmptyTags
    /\ \A k \in Range(d[n].kids) :
          /\ ~IsBookmarkNode(d, k)
          /\ IsElem(d, k) => IsEmptyInlineElement(d, k)
          /\ IsText(d, k) => IsWhitespace(d, k)

IsEmptyNode(d, n) ==
    \A k \in Range(d[n].kids) : IsBr(d, k) \/ IsBookmarkNode(d, k) \/ IsWhitespace(d, k)
IsEmptyBlock(d, n) ==
    /\ IsElem(d, n)
    /\ \A k \in Below(d, n) : /\ Range(d[k].txt) \subseteq {Fill, " "}
                              /\ k # n => d[k].tag \notin NotEmptyTags

\* Style declarations: the later ones win.
Override(old, new) == {s \in old : \A u \in new : u[1] # s[1]} \cup new
IsSameElement(d, a, b) == d[a].tag = d[b].tag /\ d[a].att = d[b].att

\* The run of siblings next to a node, nearest first
SiblingsFrom(d, n, step) ==
    LET p == d[Parent(d, n)].kids
        i == Index(d, n) + 1
    IN  IF step = 1 THEN SubSeq(p, i + 1, Len(p)) ELSE Reverse(SubSeq(p, 1, i - 1))
\* The longest prefix of a sequence that lies in a set
Leading(s, set) == SubSeq(s, 1, Max({k \in 0 .. Len(s) : \A j \in 1 .. k : s[j] \in set}))
RemoveNodes(d, nodes) == FoldLeft(RemoveNode, d, nodes)

ClearEmptySibling(d, n, next, pre) ==
    LET clearable == {m \in DOMAIN d : /\ ~IsBookmarkNode(d, m)
                                       /\ IsEmptyInlineElement(d, m) \/ IsFillChar(d, m)}
        after == IF next THEN Leading(SiblingsFrom(d, n, 1), clearable) ELSE <<>>
        before == IF pre THEN Leading(SiblingsFrom(d, n, -1), clearable) ELSE <<>>
    IN  RemoveNodes(d, after \o before)

TrimWhiteTextNode(d, n) ==
    LET white == {m \in DOMAIN d : IsWhitespace(d, m)}
        front == Leading(d[n].kids, white)
        back == Leading(Reverse(d[n].kids), white)
    IN  RemoveNodes(d, front \o back)

\* mergeSibling: the children of a neighbour with the same tag and attributes
\* move into the node.
Absorb(d, n, m, kids) ==
    IF m # Nil /\ ~IsBookmarkNode(d, m) /\ IsElem(d, m) /\ IsSameElement(d, n, m)
    THEN RemoveNode(SetKids([d EXCEPT ![m].kids = <<>>], n, kids), m) ELSE d
KidsOf(d, n) == IF n = Nil THEN <<>> ELSE d[n].kids
MergePre(d, n) == Absorb(d, n, PrevSibling(d, n), KidsOf(d, PrevSibling(d, n)) \o d[n].kids)
MergeNext(d, n) == Absorb(d, n, NextSibling(d, n), d[n].kids \o KidsOf(d, NextSibling(d, n)))
MergeSibling(d, n) == MergeNext(MergePre(d, n), n)

\* mergeChild, called with the attributes in the place of tagName: the branch
\* for attrs is never taken.
MergeSpan(d, n, c, only) ==
    LET css == Override(d[n].att, d[c].att)
    IN  IF only \/ css = d[n].att THEN Unwrap([d EXCEPT ![n].att = IF only THEN Override(d[c].att, @) ELSE @], c)
        ELSE [d EXCEPT ![c].att = css]
MergeOnly(d, n, c) == MergeSpan(d, n, c, Len(d[n].kids) = 1)
MergeOne(d, n, c) ==
    IF Parent(d, c) = Nil \/ IsBookmarkNode(d, c) THEN d
    ELSE IF d[n].tag = "span"
    THEN IF Parent(d, c) = n THEN MergeOnly(TrimWhiteTextNode(d, n), n, c) ELSE MergeSpan(d, n, c, FALSE)
    ELSE IF IsSameElement(d, n, c) THEN Unwrap(d, c) ELSE d
MergeChild(d, n) ==
    FoldLeft(LAMBDA e, c : MergeOne(e, n, c), d, SelectSeq(Tail(Preorder(d, n)), LAMBDA c : d[c].tag = d[n].tag))

\* mergeToParent
RECURSIVE MergeUp(_, _, _)
MergeOut(d, n, p) ==
    IF d[p].tag = "a" THEN MergeUp(d, n, Parent(d, p))
    ELSE IF p = Parent(d, n) THEN Unwrap(d, n) ELSE d
MergeIn(d, n, p) ==
    LET spans == (d[p].tag = "span" /\ d[p].att # d[n].att) \/ (d[p].tag = "a" /\ d[n].tag = "span")
        line == IF d[p].tag = "a" THEN {<<"text-decoration", "underline">>} ELSE {}
    IN  IF spans /\ (Len(d[p].kids) > 1 \/ p # Parent(d, n))
        THEN MergeUp([d EXCEPT ![n].att = Override(d[p].att, @)], n, Parent(d, p))
        ELSE MergeOut(IF spans THEN [d EXCEPT ![p].att = Override(Override(@, d[n].att), line)] ELSE d, n, p)
MergeUp(d, n, p) ==
    IF p = Nil THEN d
    ELSE IF d[p].tag \notin RemoveEmptyTags THEN d
    ELSE IF d[p].tag \notin {d[n].tag, "a"} THEN MergeUp(d, n, Parent(d, p))
    ELSE MergeIn(TrimWhiteTextNode(d, p), n, p)
MergeToParent(d, n) == MergeUp(d, n, Parent(d, n))

\* split: the second half of a text node becomes a node of its own, returned as
\* the fresh node.
Split(d, n, offset) ==
    LET d1 == With(d, Txt(SubSeq(d[n].txt, offset + 1, Len(d[n].txt))))
    IN  InsertAfter([d1 EXCEPT ![n].txt = SubSeq(@, 1, offset)], n, FreshNode(d))

\* breakParent: the ancestors of a node up to one of them are split around it.
TwoHulls(d, p) == With(With(d, Shallow(d[p])), Shallow(d[p]))
NestHalves(d, l, left, right) == IF left = Nil THEN d ELSE AppendChild(AppendChild(d, l, left), l + 1, right)
Deal(d, p, at, l, before, after) ==
    SetKids(SetKids(SetKids(d, p, <<at>>), l, before \o d[l].kids), l + 1, d[l + 1].kids \o after)
BreakOne(d, at, p, left, right) ==
    Deal(NestHalves(TwoHulls(d, p), FreshNode(d), left, right), p, at, FreshNode(d),
         SubSeq(d[p].kids, 1, Index(d, at)), SubSeq(d[p].kids, Index(d, at) + 2, Len(d[p].kids)))
Replace(d, n, nodes) == RemoveNode(FoldLeft(LAMBDA e, k : InsertBefore(e, Parent(d, n), k, n), d, nodes), n)
RECURSIVE BreakUp(_, _, _, _, _, _)
Broken(d, p, node, parent, l) ==
    IF p = parent THEN Replace(d, parent, <<l, node, l + 1>>) ELSE BreakUp(d, p, node, parent, l, l + 1)
BreakUp(d, at, node, parent, left, right) ==
    Broken(BreakOne(d, at, Parent(d, at), left, right), Parent(d, at), node, parent, FreshNode(d))
BreakParent(d, node, parent) == BreakUp(d, node, node, parent, Nil, Nil)

MoveChild(d, src, dst) == SetKids([d EXCEPT ![src].kids = <<>>], dst, d[dst].kids \o d[src].kids)

\* isInNodeEndBoundary and isBoundaryNode
IsInNodeEndBoundary(d, c, o, n) ==
    /\ o = Size(d, c)
    /\ \A m \in Range(Chain(d, c)) : m \in Below(d, n) \ {n} => NextSibling(d, m) = Nil

-----------------------------------------------------------------------------
(* What a reader sees, for the properties                                  *)

\* The letters and images of a subtree, in order
Visible(cs) == SelectSeq(cs, LAMBDA c : c \notin {Fill, Joiner})
RECURSIVE Content(_, _)
Content(d, n) ==
    Visible(d[n].txt) \o (IF d[n].tag \in {"img", "br"} THEN <<d[n].tag>> ELSE <<>>)
      \o FlattenSeq([k \in DOMAIN d[n].kids |-> Content(d, d[n].kids[k])])
\* The content before a boundary point
RECURSIVE ContentBefore(_, _, _)
ContentBefore(d, c, o) ==
    LET here == IF IsText(d, c) THEN Visible(SubSeq(d[c].txt, 1, o))
                ELSE FlattenSeq([k \in 1 .. Min({o, Len(d[c].kids)}) |-> Content(d, d[c].kids[k])])
    IN  IF Parent(d, c) = Nil THEN here ELSE ContentBefore(d, Parent(d, c), Index(d, c)) \o here
\* The inline elements around the text node that holds a letter
Styles(d, letter) ==
    {[tag |-> d[m].tag, att |-> d[m].att] :
        m \in {m \in DOMAIN d : /\ d[m].tag \in RemoveEmptyTags
                                /\ \E n \in Below(d, m) : letter \in Range(d[n].txt)}}

\* The tree that is left in the document, numbered in document order
Numbers(d) == LET order == Preorder(d, Body) IN [n \in Range(order) |-> CHOOSE k \in DOMAIN order : order[k] = n]
Renumbered(d) ==
    LET order == Preorder(d, Body)
        num == Numbers(d)
    IN  [k \in DOMAIN order |->
            [d[order[k]] EXCEPT !.kids = [i \in DOMAIN @ |-> num[@[i]]],
                                !.up = IF @ = Nil THEN Nil ELSE num[@]]]
=============================================================================
