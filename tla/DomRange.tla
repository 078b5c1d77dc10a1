------------------------------ MODULE DomRange ------------------------------
(***************************************************************************)
(* dom.Range: the editor's own range over the document, and every method   *)
(* that moves it or changes the tree through it.                           *)
(*                                                                         *)
(* A method is an operator from s to s, where s.d is the tree and s.r the  *)
(* range; methods that yield a node or a fragment leave it in s.out, and   *)
(* s.ok says that nothing was thrown.                                      *)
(***************************************************************************)
EXTENDS Dom

CONSTANT Webkit   \* browser.webkit

Rng(sc, so, ec, eo) == [sc |-> sc, so |-> so, ec |-> ec, eo |-> eo, collapsed |-> sc = ec /\ so = eo]
On(d, r) == [d |-> d, r |-> r, out |-> Nil, ok |-> TRUE]
UpdateCollapse(r) == [r EXCEPT !.collapsed = r.sc = r.ec /\ r.so = r.eo]
Tree(s, d) == [s EXCEPT !.d = d]

\* range[method](arg): the methods that call one another, found by their names
RECURSIVE Do(_, _, _)

-----------------------------------------------------------------------------
(* End points                                                              *)

\* setEndPoint: an element without children is never a container.
Closed(d, n) == d[n].tag \in EmptyTags
SetStart(s, n, o) ==
    [s EXCEPT !.r = UpdateCollapse(
        IF Closed(s.d, n) THEN [@ EXCEPT !.sc = Parent(s.d, n), !.so = Index(s.d, n)]
        ELSE [@ EXCEPT !.sc = n, !.so = o])]
SetEnd(s, n, o) ==
    [s EXCEPT !.r = UpdateCollapse(
        IF Closed(s.d, n) THEN [@ EXCEPT !.ec = Parent(s.d, n), !.eo = Index(s.d, n) + 1]
        ELSE [@ EXCEPT !.ec = n, !.eo = o])]
SetStartAfter(s, n) == SetStart(s, Parent(s.d, n), Index(s.d, n) + 1)
SetStartBefore(s, n) == SetStart(s, Parent(s.d, n), Index(s.d, n))
SetEndAfter(s, n) == SetEnd(s, Parent(s.d, n), Index(s.d, n) + 1)
SetEndBefore(s, n) == SetEnd(s, Parent(s.d, n), Index(s.d, n))
SetEndAtLast(s, n) == SetEnd(s, n, Size(s.d, n))
SelectNode(s, n) == SetEndAfter(SetStartBefore(s, n), n)
SelectNodeContents(s, n) == SetEndAtLast(SetStart(s, n, 0), n)
Collapse(s, toStart) ==
    [s EXCEPT !.r = IF toStart THEN Rng(@.sc, @.so, @.sc, @.so) ELSE Rng(@.ec, @.eo, @.ec, @.eo)]

\* selectOneNode
SelectsOneNode(s) ==
    /\ ~s.r.collapsed /\ IsElem(s.d, s.r.sc) /\ s.r.sc = s.r.ec /\ s.r.eo - s.r.so = 1

CommonAncestor(s, includeSelf, ignoreTextNode) ==
    LET r == s.r
        one == Child(s.d, r.sc, r.so)
    IN  IF r.sc # r.ec THEN GetCommonAncestor(s.d, r.sc, r.ec)
        ELSE IF includeSelf /\ SelectsOneNode(s) /\ IsElem(s.d, one) THEN one
        ELSE IF includeSelf /\ SelectsOneNode(s) /\ ~ignoreTextNode THEN one
        ELSE IF ignoreTextNode /\ IsText(s.d, r.sc) THEN Parent(s.d, r.sc) ELSE r.sc

-----------------------------------------------------------------------------
(* Moving the boundaries without changing what is selected                 *)

\* check of shrinkBoundary
Shrinkable(d, n) == n # Nil /\ IsElem(d, n) /\ ~IsBookmarkNode(d, n) /\ ~Closed(d, n)
RECURSIVE ShrinkStart(_)
ShrinkStart(s) ==
    LET child == Child(s.d, s.r.sc, s.r.so)
    IN  IF IsElem(s.d, s.r.sc) /\ Shrinkable(s.d, child) THEN ShrinkStart(SetStart(s, child, 0)) ELSE s
RECURSIVE ShrinkEnd(_)
ShrinkEnd(s) ==
    LET child == Child(s.d, s.r.ec, s.r.eo - 1)
    IN  IF IsElem(s.d, s.r.ec) /\ s.r.eo > 0 /\ Shrinkable(s.d, child)
        THEN ShrinkEnd(SetEnd(s, child, Len(s.d[child].kids))) ELSE s
ShrinkBoundary(s, ignoreEnd) ==
    LET s1 == ShrinkStart(s)
    IN  IF s.r.collapsed THEN Collapse(s1, TRUE) ELSE IF ignoreEnd THEN s1 ELSE ShrinkEnd(s1)

AdjustStart(s) ==
    IF ~IsText(s.d, s.r.sc) THEN s
    ELSE IF s.r.so = 0 THEN SetStartBefore(s, s.r.sc)
    ELSE IF s.r.so >= Len(s.d[s.r.sc].txt) THEN SetStartAfter(s, s.r.sc) ELSE s
AdjustEnd(s) ==
    IF ~IsText(s.d, s.r.ec) THEN s
    ELSE IF s.r.eo = 0 THEN SetEndBefore(s, s.r.ec)
    ELSE IF s.r.eo >= Len(s.d[s.r.ec].txt) THEN SetEndAfter(s, s.r.ec) ELSE s
TxtToElmBoundary(s, ignoreCollapsed) ==
    IF ignoreCollapsed \/ ~s.r.collapsed THEN AdjustEnd(AdjustStart(s)) ELSE s

\* The text under the start is split; an end in the same text or right after it moves on.
EndAfterSplit(s1, s, new) ==
    IF s.r.sc = s.r.ec THEN SetEnd(s1, new, s.r.eo - s.r.so)
    ELSE IF Parent(s.d, s.r.sc) = s.r.ec THEN [s1 EXCEPT !.r.eo = @ + 1] ELSE s1
SplitStart(s) ==
    SetStartBefore(EndAfterSplit(Tree(s, Split(s.d, s.r.sc, s.r.so)), s, FreshNode(s.d)), FreshNode(s.d))
\* A boundary at the front or at the back of its text goes beside it.
TrimStart(s) ==
    IF ~IsText(s.d, s.r.sc) THEN s
    ELSE IF s.r.so > 0 /\ s.r.so < Len(s.d[s.r.sc].txt) THEN SplitStart(s) ELSE AdjustStart(s)
SplitEnd(s) == IF s.r.eo < Len(s.d[s.r.ec].txt) THEN Tree(s, Split(s.d, s.r.ec, s.r.eo)) ELSE s
TrimEnd(s) ==
    IF ~IsText(s.d, s.r.ec) THEN s
    ELSE IF s.r.eo = 0 THEN SetEndBefore(s, s.r.ec) ELSE SetEndAfter(SplitEnd(s), s.r.ec)
AfterStart(s, cursor, ignoreEnd) == IF cursor THEN Collapse(s, TRUE) ELSE IF ignoreEnd THEN s ELSE TrimEnd(s)
TrimBoth(s, ignoreEnd) == AfterStart(TrimStart(s), IsText(s.d, s.r.sc) /\ s.r.collapsed, ignoreEnd)
TrimBoundary(s, ignoreEnd) == TrimBoth(TxtToElmBoundary(s, FALSE), ignoreEnd)

\* adjustmentBoundary
RECURSIVE StartOut(_)
StartOut(s) ==
    IF ~IsBody(s.r.sc) /\ s.r.so = Size(s.d, s.r.sc) /\ s.r.so > 0
    THEN StartOut(SetStartAfter(s, s.r.sc)) ELSE s
RECURSIVE EndOut(_)
EndOut(s) ==
    IF ~IsBody(s.r.ec) /\ s.r.eo = 0 /\ Size(s.d, s.r.ec) > 0
    THEN EndOut(SetEndBefore(s, s.r.ec)) ELSE s
AdjustmentBoundary(s) == IF s.r.collapsed THEN s ELSE EndOut(StartOut(s))

\* enlarge, with stopFn as a set of nodes
RECURSIVE StartUp(_, _)
StartUp(s, stop) ==
    IF s.r.so # 0 \/ s.r.sc \in stop \/ IsBody(s.r.sc) THEN s
    ELSE StartUp(SetStartBefore(s, s.r.sc), stop)
RECURSIVE EndUp(_, _)
EndUp(s, stop) ==
    IF s.r.eo # Size(s.d, s.r.ec) \/ s.r.ec \in stop \/ IsBody(s.r.ec) THEN s
    ELSE EndUp(SetEndAfter(s, s.r.ec), stop)

\* The outermost inline node around n, and then the last one beside it that is
\* still inline; a block itself stays.
LastInline(node, beside) == IF beside = <<>> THEN node ELSE Last(beside)
EdgeFrom(d, node, step) ==
    LastInline(node, Leading(SiblingsFrom(d, node, step), {m \in DOMAIN d : ~IsBlockElm(d, m)}))
Outermost(d, up) ==
    LET k == Max({j \in DOMAIN up : IsBlockElm(d, up[j])}) IN IF k = Len(up) THEN up[k] ELSE up[k + 1]
BlockEdge(d, n, step) == EdgeFrom(d, Outermost(d, Chain(d, n)), step)

\* enlarge(true): a temporary text stands where a boundary has no node after it.
NodeAt(d, c, o) == IF IsText(d, c) THEN c ELSE Child(d, c, o)
TmpAtStart(s, tmp) == IF NodeAt(s.d, s.r.sc, s.r.so) = Nil THEN Tree(s, AppendChild(s.d, s.r.sc, tmp)) ELSE s
StartToEdge(s) == SetStartBefore(s, BlockEdge(s.d, NodeAt(s.d, s.r.sc, s.r.so), -1))
TmpAtEnd(s, tmp) ==
    IF IsText(s.d, s.r.ec) \/ Child(s.d, s.r.ec, s.r.eo) = tmp THEN s
    ELSE Tree(s, InsertBefore(s.d, s.r.ec, tmp, Child(s.d, s.r.ec, s.r.eo)))
EndToEdge(s, tmp) == SetEndAfter(s, BlockEdge(s.d, IF IsText(s.d, s.r.ec) THEN s.r.ec ELSE tmp, 1))
DropTmp(s, tmp) ==
    [Tree(s, RemoveNode(s.d, tmp)) EXCEPT !.r.eo = IF Parent(s.d, tmp) = s.r.ec THEN @ - 1 ELSE @]
EnlargeToBlock(s) ==
    LET tmp == FreshNode(s.d)
    IN  DropTmp(EndToEdge(TmpAtEnd(StartToEdge(TmpAtStart(Tree(s, With(s.d, Txt(<<>>))), tmp)), tmp), tmp), tmp)

EnlargeUp(s, stop) == IF s.r.collapsed THEN s ELSE EndUp(StartUp(s, stop), stop)
Enlarge(s, toBlock, stop) == EnlargeUp(IF toBlock THEN EnlargeToBlock(s) ELSE s, stop)

RECURSIVE EnlargeStartToBlockElm(_)
EnlargeStartToBlockElm(s) ==
    IF IsBlockElm(s.d, s.r.sc) THEN s ELSE EnlargeStartToBlockElm(SetStartBefore(s, s.r.sc))
RECURSIVE EnlargeEndToBlockElm(_)
EnlargeEndToBlockElm(s) ==
    IF IsBlockElm(s.d, s.r.ec) THEN s ELSE EnlargeEndToBlockElm(SetEndAfter(s, s.r.ec))
EnlargeToBlockElm(s, ignoreEnd) ==
    IF ignoreEnd THEN EnlargeStartToBlockElm(s) ELSE EnlargeEndToBlockElm(EnlargeStartToBlockElm(s))

-----------------------------------------------------------------------------
(* Contents                                                                *)

\* execContentsAction.  The fragment is filled along the two chains of
\* ancestors of the end points below their common part: copies of the ancestors,
\* and what lies between, moved when move holds and copied otherwise.  x holds
\* the range, the nodes at its ends, their chains, and where these part.
Slice(cs, from, to) == SubSeq(cs, from + 1, to)
Give(d, to, n, ref, move) ==
    InsertBefore(IF move THEN d ELSE CloneDeep(d, n), to, IF move THEN n ELSE FreshNode(d), ref)
GiveText(d, to, cs) == AppendChild(With(d, Txt(cs)), to, FreshNode(d))
GiveHull(d, to, n) == AppendChild(With(d, Shallow(d[n])), to, FreshNode(d))

\* The nodes after n up to a stop; before n down to a stop
Until(s, stop) == Leading(s, Range(s) \ stop)

StartNode(d, n, clone, x, move) ==
    IF n # x.start THEN GiveHull(d, clone, n)
    ELSE IF x.tmp THEN d
    ELSE IF ~IsText(d, x.r.sc) THEN Give(d, clone, n, Nil, move)
    ELSE [GiveText(d, clone, Slice(d[n].txt, x.r.so, Len(d[n].txt)))
            EXCEPT ![n].txt = IF move THEN SubSeq(@, 1, x.r.so) ELSE @]
StartLevel(d, j, clone, x, move) ==
    FoldLeft(LAMBDA e, n : Give(e, clone, n, Nil, move), StartNode(d, x.starts[j], clone, x, move),
             Until(SiblingsFrom(d, x.starts[j], 1), {x.end} \cup (IF j <= Len(x.ends) THEN {x.ends[j]} ELSE {})))
RECURSIVE StartSide(_, _, _, _, _)
StartSide(d, j, clone, x, move) ==
    IF j > Len(x.starts) THEN d
    ELSE StartSide(StartLevel(d, j, clone, x, move), j + 1, FreshNode(d), x, move)

EndNode(d, n, clone, x, move) ==
    IF n # x.end THEN GiveHull(d, clone, n)
    ELSE IF ~IsText(d, x.r.ec) THEN d
    ELSE [GiveText(d, clone, SubSeq(d[n].txt, 1, x.r.eo))
            EXCEPT ![n].txt = IF move THEN SubSeq(@, x.r.eo + 1, Len(@)) ELSE @]
EndLevel(d, j, clone, x, move) ==
    FoldLeft(LAMBDA e, n : Give(e, clone, n, FirstChild(e, clone), move), EndNode(d, x.ends[j], clone, x, move),
             IF j # x.fork \/ x.inner THEN Until(SiblingsFrom(d, x.ends[j], -1), {x.start}) ELSE <<>>)
RECURSIVE EndSide(_, _, _, _, _)
EndSide(d, j, clone, x, move) ==
    IF j > Len(x.ends) THEN d
    ELSE EndSide(EndLevel(d, j, clone, x, move), j + 1, FreshNode(d), x, move)

\* Both ends in one text node: the offsets are taken as offsets into it, even
\* one that is an offset into its parent.  The browser refuses an offset past
\* the end and takes a negative count as everything that follows.
CutText(d, s, x, frag, move) ==
    LET len == Len(d[x.start].txt)
        to == IF s.r.eo < s.r.so THEN len ELSE Min({s.r.eo, len})
        one == GiveText(d, frag, Slice(d[x.start].txt, s.r.so, to))
    IN  IF s.r.so > len THEN [s EXCEPT !.ok = FALSE]
        ELSE IF move THEN Collapse(Tree(s, DeleteData(one, x.start, s.r.so, to - s.r.so)), TRUE)
        ELSE Tree(s, one)

\* Where the range goes when the contents are gone
CutAt(x) == IF x.fork > Len(x.ends) THEN x.ends[x.fork - 1]
            ELSE IF x.inner THEN x.starts[x.fork - 1] ELSE x.ends[x.fork]
CutEnd(d, x, frag, move) == EndSide(d, x.fork, IF x.inner THEN FirstChild(d, frag) ELSE frag, x, move)
CutHull(d, x, frag) == IF x.inner THEN GiveHull(d, frag, x.starts[x.fork - 1]) ELSE d
AfterCut(d, s, x, move) ==
    Tree(IF move THEN Collapse(SetStartBefore(Tree(s, d), CutAt(x)), TRUE) ELSE s,
         RemoveNodes(d, SelectSeq(<<x.start, x.end>>, LAMBDA n : n \notin DOMAIN s.d)))
CutTree(d, s, x, frag, move) ==
    AfterCut(CutEnd(CutHull(StartSide(d, x.fork, frag, x, move), x, frag), x, frag, move), s, x, move)

Ends(d, r) == [r |-> r, start |-> NodeAt(d, r.sc, r.so), end |-> NodeAt(d, r.ec, r.eo)]
Paths(d, x) == x @@ [starts |-> Chain(d, x.start), ends |-> Chain(d, x.end)]
Forked(x, s) == LET fork == Common(x.starts, x.ends) + 1
                IN  x @@ [fork |-> fork, inner |-> fork > Len(x.starts), tmp |-> x.start \notin DOMAIN s.d]
Cut(d, s, x, frag, move) ==
    [IF x.start = x.end /\ IsText(d, x.start) THEN CutText(d, s, x, frag, move) ELSE CutTree(d, s, x, frag, move)
       EXCEPT !.out = frag]
CutFrom(d, s, move) ==
    Cut(With(d, Elm("frag", {})), s, Forked(Paths(d, Ends(d, s.r)), s), FreshNode(d), move)
\* A temporary text stands where an end has no node after it.
Standing(d, c, o) == IF NodeAt(d, c, o) = Nil THEN GiveText(d, c, <<>>) ELSE d
ExecContents(s, move) == CutFrom(Standing(Standing(s.d, s.r.sc, s.r.so), s.r.ec, s.r.eo), s, move)

\* cloneContents, and with move extractContents; out is Nil when collapsed
Contents(s, move) == IF s.r.collapsed THEN [s EXCEPT !.out = Nil] ELSE ExecContents(s, move)
CloneContents(s) == Do(s, "contents", FALSE)
ExtractContents(s) == Do(s, "contents", TRUE)

DropEmptyText(s, n) ==
    IF s.ok /\ Webkit /\ IsText(s.d, n) /\ s.d[n].txt = <<>>
    THEN Collapse(Tree(SetStartBefore(s, n), RemoveNode(s.d, n)), TRUE) ELSE s
Deleted(s) == DropEmptyText(s, s.r.sc)
DeleteContents(s) == Deleted(ExtractContents(s))

\* insertNode of a node or fragment that is already in the tree function
PutAt(s, n, length) ==
    [Tree(s, InsertBefore(s.d, s.r.sc, n, Child(s.d, s.r.sc, s.r.so)))
       EXCEPT !.r.eo = IF s.r.sc = s.r.ec THEN @ + length ELSE @]
InsertNode(s, n) ==
    LET nodes == IF s.d[n].tag = "frag" THEN s.d[n].kids ELSE <<n>>
    IN  SetStartBefore(PutAt(Do(s, "trimBoundary", TRUE), n, Len(nodes)), IF nodes = <<>> THEN Nil ELSE nodes[1])

-----------------------------------------------------------------------------
(* Bookmarks                                                               *)

\* createBookmark; out is [start, end], end is Nil for a collapsed range
NewMark(d, which) ==
    LET n == FreshNode(d)
    IN  AppendChild(With(With(d, Elm("span", {<<"id", which>>})), Txt(<<Joiner>>)), n, n + 1)
Marked(d, cursor) == IF cursor THEN NewMark(d, "start") ELSE NewMark(NewMark(d, "start"), "end")
MarkEnd(s, n) == IF n = Nil THEN s ELSE SetEndBefore(Do(Collapse(s, FALSE), "insertNode", n), n)
CreateBookmark(s) ==
    LET start == FreshNode(s.d)
        end == IF s.r.collapsed THEN Nil ELSE start + 2
    IN  [SetStartAfter(MarkEnd(Do(Tree(s, Marked(s.d, s.r.collapsed)), "insertNode", start), end), start)
           EXCEPT !.out = [start |-> start, end |-> end]]

StartAtMark(s, n) == Tree(SetStartBefore(s, n), RemoveNode(s.d, n))
EndAtMark(s, n) == Tree(SetEndBefore(s, n), RemoveNode(s.d, n))

\* Mutant: the start mark is removed only after the end is set.
MoveToBookmarkLate(s, b) ==
    IF b.end = Nil THEN Collapse(StartAtMark(s, b.start), TRUE)
    ELSE LET t == EndAtMark(SetStartBefore(s, b.start), b.end) IN Tree(t, RemoveNode(t.d, b.start))

MoveToBookmark(s, b) ==
    IF b.end = Nil THEN Collapse(StartAtMark(s, b.start), TRUE)
    ELSE EndAtMark(StartAtMark(s, b.start), b.end)

-----------------------------------------------------------------------------
(* Inline styles                                                           *)

\* filterFn of applyInlineStyle
Stylable(d) == {n \in DOMAIN d : IF IsText(d, n) THEN ~IsWhitespace(d, n) ELSE d[n].tag # "br"}
Inner(d, tag) == {n \in DOMAIN d : IsText(d, n) \/ d[n].tag \in Allows(tag)}

\* The last node of the run that is wrapped, and the node that ended the run
RECURSIVE RunEnd(_, _, _, _, _)
RunEnd(d, pre, node, end, tag) ==
    IF node = Nil \/ node \notin Inner(d, tag) \/ node = end THEN [pre |-> pre, node |-> node]
    ELSE RunEnd(d, node, GetDomNode(d, node, 1, IsElem(d, node), DOMAIN d, Tagged(d, Allows(tag))), end, tag)

\* The nested copies of a list of elements, the outermost first
Nested(d, list) ==
    LET n == FreshNode(d)
        made == FoldLeft(LAMBDA e, x : With(e, Elm(x.tag, x.att)), d, list)
    IN  FoldLeft(LAMBDA e, k : AppendChild(e, n + k - 1, n + k), made, [k \in 1 .. Len(list) - 1 |-> k])

\* The runs of inline nodes up to the end mark, each wrapped into the elements
\* of the list; attributes and merging are those of the innermost one.
WrapRun(s, list, att) ==
    LET top == FreshNode(s.d)
        elm == top + Len(list) - 1
    IN  [Do(Tree(s, AppendChild([Nested(s.d, list) EXCEPT ![elm].att = Override(@, att)], elm, s.out)), "insertNode", top)
           EXCEPT !.out = elm]
\* A decoration on a link goes to the link itself.
MergeRun(s, link, tag, att) ==
    IF tag = "span" /\ link # Nil /\ \E a \in att : a[1] = "text-decoration"
    THEN [Tree(s, Unwrap([s.d EXCEPT ![link].att = Override(@, att)], s.out)) EXCEPT !.out = link]
    ELSE Tree(s, ClearEmptySibling(MergeSibling(s.d, s.out), s.out, TRUE, TRUE))
MergeInto(s, tag, att) == MergeRun(s, FindParentByTagName(s.d, s.out, {"a"}, TRUE), tag, att)
MergeInner(s) == Tree(s, MergeChild(s.d, s.out))

RECURSIVE StyleRuns(_, _, _, _, _, _)
AfterRun(s, ended, end, list, att) ==
    IF ended THEN MergeToParent(s.d, s.out)
    ELSE StyleRuns(MergeToParent(s.d, s.out), s.r, GetNextDomNode(s.d, s.out, FALSE, Stylable(s.d)), end, list, att)
TakeRun(s, run, end, list, att) ==
    AfterRun(MergeInner(MergeInto(WrapRun(ExtractContents(SetEndAfter(s, run.pre)), list, att),
                                  Last(list).tag, att)),
             run.node = end, end, list, att)
StyleRuns(d, r, current, end, list, att) ==
    IF current = Nil \/ ~Precedes(d, current, end) THEN d
    ELSE IF current \notin Inner(d, Last(list).tag)
    THEN StyleRuns(d, r, GetNextDomNode(d, current, TRUE, Stylable(d)), end, list, att)
    ELSE TakeRun(SetStartBefore(On(d, r), current), RunEnd(d, Nil, current, end, Last(list).tag), end, list, att)

\* applyInlineStyle.  A range that covers nothing collapses while it is trimmed;
\* its bookmark has no end, and the comparison with it throws.
StyleMarked(s, b, list, att) ==
    LET current == GetNextDomNode(s.d, b.start, FALSE, Stylable(s.d))
    IN  IF b.end = Nil /\ current # Nil THEN [s EXCEPT !.ok = FALSE]
        ELSE MoveToBookmark(IF b.end = Nil THEN s ELSE Tree(s, StyleRuns(s.d, s.r, current, b.end, list, att)), b)
StyleBetween(s, list, att) == StyleMarked(s, s.out, list, att)
ApplyInlineStyles(s, list, att) ==
    LET blocks == {n \in DOMAIN s.d : IsBlockElm(s.d, n)}
        widened == Do(Do(s, "trimBoundary", FALSE), "enlarge", [toBlock |-> FALSE, stop |-> blocks])
    IN  IF s.r.collapsed THEN s
        ELSE StyleBetween(Do(AdjustmentBoundary(widened), "createBookmark", Nil), list, att)
OneStyle(tag, att) == [list |-> <<[tag |-> tag, att |-> {}]>>, att |-> att]

\* removeInlineStyle
RECURSIVE UnwrapBetween(_, _, _, _)
UnwrapBetween(d, current, end, tags) ==
    LET next == GetNextDomNode(d, current, TRUE, {n \in DOMAIN d : IsElem(d, n)})
    IN  IF current = Nil \/ current = end THEN d
        ELSE UnwrapBetween(IF d[current].tag \in tags THEN Unwrap(d, current) ELSE d, next, end, tags)

\* The part of an element before the first mark, or after the last one, is cut off.
Replant(s) == Do(s, "insertNode", s.out).d
MarkBefore(d, mark, n) == InsertBefore(d, Parent(d, n), mark, n)
MarkAfter(d, mark, n) == InsertBefore(d, Parent(d, n), mark, NextSibling(d, n))
CutBefore(s, n) ==
    IF n = Nil THEN s
    ELSE LET x == ExtractContents(SetStartBefore(SetEndBefore(s, s.out.start), n))
         IN  Tree(s, MarkBefore(ClearEmptySibling(Replant(x), n, FALSE, TRUE), s.out.start, n))
CutAfter(s, n) ==
    IF n = Nil \/ s.out.end = Nil THEN s
    ELSE LET x == ExtractContents(SetEndAfter(SetStartAfter(s, s.out.end), n))
         IN  Tree(s, MarkAfter(ClearEmptySibling(Replant(x), n, TRUE, FALSE), s.out.end, n))
UnwrapMarked(s, b, tags) ==
    MoveToBookmark(Tree(s, UnwrapBetween(s.d, GetNextDomNode(s.d, b.start, FALSE, {n \in DOMAIN s.d : IsElem(s.d, n)}),
                                         b.end, tags)), b)
CutOut(s, start, end, tags) ==
    IF s.out.end = Nil /\ end # Nil THEN [CutBefore(s, start) EXCEPT !.ok = FALSE]
    ELSE UnwrapMarked(CutAfter(CutBefore(s, start), end), s.out, tags)
StyledAt(s, n, tags) == FindParentByTagName(s.d, n, tags, TRUE)
TakeOff(s, tags) ==
    CutOut(Do(s, "createBookmark", Nil), StyledAt(s, s.r.sc, tags), StyledAt(s, s.r.ec, tags), tags)
RemoveInlineStyle(s, tags) ==
    IF s.r.collapsed THEN s ELSE TakeOff(AdjustmentBoundary(ShrinkBoundary(s, FALSE)), tags)

-----------------------------------------------------------------------------
(* Selecting                                                               *)

\* getClosedNode: the one image or line that is selected
ClosedAt(s) ==
    LET child == Child(s.d, s.r.sc, s.r.so)
    IN  IF SelectsOneNode(s) /\ child # Nil /\ Closed(s.d, child) THEN child ELSE Nil
GetClosedNode(s) == IF s.r.collapsed THEN Nil ELSE ClosedAt(ShrinkBoundary(AdjustmentBoundary(s), FALSE))

\* removeFillData
RECURSIVE RemoveEmptyUp(_, _, _)
RemoveEmptyUp(d, n, keep) ==
    IF n # Nil /\ IsEmptyInlineElement(d, n) /\ keep \notin Below(d, n)
    THEN RemoveEmptyUp(RemoveNode(d, n), Parent(d, n), keep) ELSE d
RemoveFillData(d, fill, keep) ==
    IF fill = Nil \/ ~InDoc(d, fill) THEN d
    ELSE IF IsFillChar(d, fill) THEN RemoveEmptyUp(RemoveNode(d, fill), Parent(d, fill), keep)
    ELSE [d EXCEPT ![fill].txt = SelectSeq(@, LAMBDA c : c # Fill)]
\* mergeSibling of the range
MergeFill(d, n) ==
    LET fills == {m \in DOMAIN d : IsFillChar(d, m)}
    IN  RemoveNodes(d, Leading(SiblingsFrom(d, n, -1), fills) \o Leading(SiblingsFrom(d, n, 1), fills))

\* checkOffset
CheckOffset(s) ==
    LET fit(c, o) == IF IsText(s.d, c) /\ o > Len(s.d[c].txt) THEN Len(s.d[c].txt) ELSE o
    IN  [s EXCEPT !.r.so = fit(s.r.sc, s.r.so), !.r.eo = fit(s.r.ec, s.r.eo)]

\* select: a cursor that has no text before it gets a filling character to
\* stand in; the filling character of the last time goes away.  out is fillData.
NeedsFill(s) ==
    LET c == s.r.sc
        child == NodeAt(s.d, c, s.r.so)
        beside == IF child # Nil THEN PrevSibling(s.d, child) ELSE LastChild(s.d, c)
    IN  /\ s.r.collapsed
        /\ ~(IsText(s.d, c) /\ s.r.so > 0)
        /\ beside = Nil \/ ~IsText(s.d, beside)
StandIn(s, n, fill) ==
    [CheckOffset(Collapse(SetStart(Tree(s, MergeFill(RemoveFillData(s.d, fill, n), n)), n, IF Webkit THEN 1 ELSE 0), TRUE))
       EXCEPT !.out = n]
Select(s, fill, notInsertFillData) ==
    LET n == FreshNode(s.d)
    IN  IF ~notInsertFillData /\ NeedsFill(s)
        THEN StandIn(Do(Tree(s, With(s.d, Txt(<<Fill>>))), "insertNode", n), n, fill)
        ELSE [CheckOffset(s) EXCEPT !.out = fill]

-----------------------------------------------------------------------------
(* Addresses: the way from the body to a boundary, as child numbers        *)

\* getNodeIndex(node, true): adjacent text nodes count once.
IndexOfRun(d, n) ==
    Cardinality({m \in Range(SiblingsFrom(d, n, -1)) : ~IsText(d, m) \/ ~IsText(d, NextSibling(d, m))})
NodeIndex(d, n, ignoreTxt) == IF ignoreTxt THEN IndexOfRun(d, n) ELSE Index(d, n)

\* The offset past the last child: fillings before a run count nothing.
RECURSIVE RunsFrom(_, _)
RunsFrom(d, n) ==
    LET after == SiblingsFrom(d, n, 1)
        texts == Leading(after, {m \in DOMAIN d : IsText(d, m)})
        skip == IF IsText(d, n) THEN Len(texts) ELSE 0
        past == IF Len(after) > skip THEN after[skip + 1] ELSE Nil
    IN  IF n = Nil THEN 0
        ELSE IF IsFillChar(d, n) THEN RunsFrom(d, NextSibling(d, n))
        ELSE 1 + RunsFrom(d, past)

GetAddress(d, c, o, isStart, ignoreTxt) ==
    LET path == [k \in 1 .. Len(Chain(d, c)) - 1 |-> NodeIndex(d, Chain(d, c)[k + 1], ignoreTxt)]
        texts == Leading(SiblingsFrom(d, c, -1), {m \in DOMAIN d : IsText(d, m)})
        letters(n) == Len(SelectSeq(d[n].txt, LAMBDA x : x # Fill))
        last == CASE ignoreTxt /\ IsText(d, c) -> FoldLeft(LAMBDA k, n : k + letters(n), o, texts)
                  [] ignoreTxt /\ ~IsText(d, c) ->
                        IF Child(d, c, o) # Nil THEN IndexOfRun(d, Child(d, c, o)) ELSE RunsFrom(d, FirstChild(d, c))
                  [] OTHER -> IF isStart /\ IsFillChar(d, c) THEN 0 ELSE o
    IN  Append(path, last)
CreateAddress(s, ignoreTxt) ==
    LET a == GetAddress(s.d, s.r.sc, s.r.so, TRUE, ignoreTxt)
    IN  [startAddress |-> a,
         endAddress |-> IF s.r.collapsed THEN a ELSE GetAddress(s.d, s.r.ec, s.r.eo, FALSE, ignoreTxt)]

\* getNode of moveToAddress: [node |-> n] for "before n", else a container and offset
RECURSIVE Resolve(_, _, _)
Resolve(d, n, a) ==
    LET c == Child(d, n, Head(a))
    IN  IF c = Nil THEN [at |-> n, off |-> Head(a)]
        ELSE IF Len(a) = 1 THEN [at |-> n, off |-> Index(d, c)] ELSE Resolve(d, c, Tail(a))
MoveToAddress(s, addr) ==
    LET a == Resolve(s.d, Body, addr.startAddress)
        b == Resolve(s.d, Body, addr.endAddress)
    IN  SetEnd(SetStart(s, a.at, a.off), b.at, b.off)

\* The tree that the browser builds again from its own markup, without the
\* filling characters that the parser drops: texts side by side are one.
Reparsed(d) ==
    LET bare == [n \in DOMAIN d |-> [d[n] EXCEPT !.txt = SelectSeq(@, LAMBDA c : c # Fill)]]
        drop(e, n) == IF IsText(e, n) /\ e[n].txt = <<>> THEN RemoveNode(e, n) ELSE e
        join(e, n) ==
            LET m == IF IsText(e, n) /\ Parent(e, n) # Nil THEN PrevSibling(e, n) ELSE Nil
            IN  IF m # Nil /\ IsText(e, m) THEN RemoveNode([e EXCEPT ![m].txt = @ \o e[n].txt], n) ELSE e
        order == Preorder(d, Body)
    IN  FoldLeft(join, FoldLeft(drop, bare, order), Reverse(order))

-----------------------------------------------------------------------------

Do(s, method, a) ==
    CASE method = "trimBoundary" -> TrimBoundary(s, a)
      [] method = "enlarge" -> Enlarge(s, a.toBlock, a.stop)
      [] method = "contents" -> Contents(s, a)
      [] method = "deleteContents" -> DeleteContents(s)
      [] method = "insertNode" -> InsertNode(s, a)
      [] method = "createBookmark" -> CreateBookmark(s)
      [] method = "applyInlineStyle" -> ApplyInlineStyles(s, a.list, a.att)
      [] method = "removeInlineStyle" -> RemoveInlineStyle(s, a)
      [] method = "select" -> Select(s, a.fill, a.noFill)
=============================================================================
