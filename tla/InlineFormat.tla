---------------------------- MODULE InlineFormat ----------------------------
(***************************************************************************)
(* The commands that style letters: basestyle, font, removeformat, link    *)
(* and formatmatch.  A letter stands for the temporary texts ('font',      *)
(* 'match') that they put at a cursor and take away again.  Style          *)
(* declarations and attributes are pairs in the attributes of a node.      *)
(*                                                                         *)
(* Left out: font borders, background colours, fontsize and fontfamily     *)
(* (which run as forecolor does), links whose text is an address itself,   *)
(* and format matching between images.                                     *)
(***************************************************************************)
EXTENDS EditorFrame

CONSTANTS BaseTags,   \* tags of the basestyle commands
          Colors      \* values of forecolor

VARIABLES list, flag   \* formatmatch: the elements to copy, and whether it is on

vars == <<frame, list, flag>>
Match == <<list, flag>>

Init == InitFrame /\ list = <<>> /\ flag = FALSE

\* execCommand, and the methods of the range that the commands call
RECURSIVE Exec(_, _, _)
Then(s, name, a) == IF s.ok THEN Exec(s, name, a) ELSE s

Temp == "temp"
PutText(s, cs) == Exec(Tree(s, With(s.d, Txt(cs))), "insertNode", FreshNode(s.d))
Values(att, style) == {a[2] : a \in {a \in att : a[1] = style}}
RemoveStyle(d, n, style) == [d EXCEPT ![n].att = {a \in @ : a[1] # style}]
Elems(d) == {n \in DOMAIN d : IsElem(d, n)}
ElemsBelow(d, n, tag) == SelectSeq(Tail(Preorder(d, n)), LAMBDA m : d[m].tag = tag)

-----------------------------------------------------------------------------
(* removeformat                                                            *)

FormatTags == {"b", "em", "span", "strong", "sub", "sup", "u"}
\* removeAttributes of class, style and the like
Bare(d, n) == [d EXCEPT ![n].att = {a \in @ : a[1] \in {"href", "id"}}]
Plain(d, n) == IsBlockElm(d, n) /\ d[n].tag \notin {"table", "tbody", "tr", "td", "ul", "ol"}

\* The inline elements around a bookmark are broken open.
RECURSIVE BreakOut(_, _)
BreakOut(d, n) ==
    IF IsBlockElm(d, Parent(d, n)) THEN d
    ELSE BreakOut(ClearEmptySibling(BreakParent(d, n, Parent(d, n)), n, TRUE, TRUE), n)

Unstyled(d, n, style) ==
    IF d[n].tag = "span" /\ d[n].att = {} /\ style # "text-decoration" THEN Unwrap(d, n) ELSE d
StripElem(d, n, tags, style, wipe) ==
        IF Closed(d, n) \/ IsBookmarkNode(d, n) THEN d
        ELSE IF d[n].tag \in tags /\ style = "" THEN Unwrap(d, n)
        ELSE IF d[n].tag \in tags THEN Unstyled(RemoveStyle(d, n, style), n, style)
        ELSE IF wipe /\ d[n].tag \notin {"table", "tbody", "tr", "td", "ul", "ol"} THEN Bare(d, n) ELSE d

RECURSIVE Strip(_, _, _, _, _, _)
Strip(d, n, end, tags, style, wipe) ==
    IF n = Nil \/ n = end THEN d
    ELSE Strip(StripElem(d, n, tags, style, wipe),
               GetNextDomNode(d, n, TRUE, Elems(d)), end, tags, style, wipe)

\* Empty elements around the ends go.
Prunable(d, n) == IsElem(d, n) /\ IsEmptyNode(d, n) /\ d[n].tag \in RemoveEmptyTags
RECURSIVE PruneStart(_)
Pruned(s, n) ==
    [Tree(s, RemoveNode(s.d, n)) EXCEPT !.r.eo = IF s.r.sc = s.r.ec THEN @ - 1 ELSE @]
PruneStart(s) ==
    IF Prunable(s.d, s.r.sc) THEN PruneStart(Pruned(SetStartBefore(s, s.r.sc), s.r.sc)) ELSE s
RECURSIVE PruneEnd(_)
PruneEnd(s) ==
    LET n == s.r.ec
    IN  IF Prunable(s.d, n) THEN PruneEnd(Tree(SetEndBefore(s, n), RemoveNode(s.d, n))) ELSE s

PruneEnds(s) == IF s.r.collapsed THEN PruneStart(s) ELSE PruneEnd(PruneStart(s))

\* optimize of link: the range grows over the links that its ends lie in.
OverLinks(s) ==
    LET a == FindParentByTagName(s.d, s.r.sc, {"a"}, TRUE)
        b == FindParentByTagName(s.d, s.r.ec, {"a"}, TRUE)
        s1 == IF a # Nil THEN SetStartBefore(s, a) ELSE s
    IN  IF b # Nil THEN SetEndAfter(s1, b) ELSE s1

\* removeformat(tags, style); wipe: attributes are removed as well
Format(tags, style, wipe) == [tags |-> tags, style |-> style, wipe |-> wipe]
Clean(d, n, f) == IF f.wipe /\ f.style = "" /\ Plain(d, n) THEN Bare(d, n) ELSE d
CleanUp(d, b, f) == Clean(Clean(d, Parent(d, b.start), f), Parent(d, b.end), f)
StripMarked(d, b, f) ==
    CleanUp(Strip(d, GetNextDomNode(d, b.start, FALSE, Elems(d)), b.end, f.tags, f.style, f.wipe /\ f.style = ""), b, f)
RemoveBetween(s, b, outer, f) ==
    IF b.end = Nil THEN [s EXCEPT !.ok = FALSE]
    ELSE PruneEnds(MoveToBookmark(
            MoveToBookmark(Tree(s, StripMarked(BreakOut(BreakOut(s.d, b.start), b.end), b, f)), b), outer))
RemoveMarked(s, outer, f) == RemoveBetween(s, s.out, outer, f)
RemoveFrom(s, cursor, f) ==
    RemoveMarked(Exec(OverLinks(IF cursor THEN Exec(s, "enlarge", [toBlock |-> TRUE, stop |-> {}]) ELSE s),
                      "createBookmark", Nil), s.out, f)
RemoveFormat(s, f) == RemoveFrom(Exec(s, "createBookmark", Nil), s.r.collapsed, f)

-----------------------------------------------------------------------------
(* basestyle: bold, italic, subscript and superscript                      *)

Scripts == {"sub", "sup"}

\* At a cursor an empty text keeps the place while the elements around it go.
OutOf(s, tags) == CursorAt(Exec(PutText(s, <<>>), "removeInlineStyle", tags), FreshNode(s.d))
InNew(s, tag) ==
    LET elm == FreshNode(s.d)
    IN  Collapse(SetStart(Exec(Tree(s, With(s.d, Elm(tag, {}))), "insertNode", elm), elm, 0), TRUE)
BaseAtCursor(s, tag, on) ==
    IF on THEN WithoutNode(OutOf(s, {tag}), FreshNode(s.d))
    ELSE InNew(IF tag \in Scripts THEN OutOf(s, Scripts) ELSE s, tag)
\* The tag (SUB) is compared with the name of the command (subscript): the other
\* script always goes, and so does this one.
BaseOnSelection(s, tag, on) ==
    LET t == IF tag \in Scripts THEN Exec(s, "removeInlineStyle", Scripts) ELSE s
    IN  IF on THEN Then(t, "removeInlineStyle", {tag}) ELSE Then(t, "applyInlineStyle", OneStyle(tag, {}))
BaseStyle(s, tag) ==
    LET on == InPath(s, {tag}) # Nil
    IN  IF s.r.collapsed THEN BaseAtCursor(s, tag, on) ELSE BaseOnSelection(s, tag, on)

-----------------------------------------------------------------------------
(* font: forecolor and underline                                           *)

StyleOf == [forecolor |-> "color", underline |-> "text-decoration"]
NeedCmd == {"underline"}        \* styles that are toggled
NeedSetChild == {"forecolor"}   \* styles that are taken off the spans inside

RECURSIVE MergeWithParent(_, _)
MergeWithParent(d, n) ==
    LET p == Parent(d, n)
        others == {k \in Range(d[p].kids) : ~IsBookmarkNode(d, k) /\ ~IsBr(d, k)}
    IN  IF p # Nil /\ d[p].tag = "span" /\ Cardinality(others) = 1
        THEN MergeWithParent(Unwrap([d EXCEPT ![p].att = Override(@, d[n].att)], n), p) ELSE d

\* The span takes in the spans of the same style that follow it.
RECURSIVE TakeNext(_, _)
TakeNext(d, n) ==
    LET next == NextSibling(d, n)
    IN  IF next # Nil /\ d[next].tag = "span" /\ d[next].att = d[n].att
        THEN TakeNext(RemoveNode(MoveChild(d, next, n), next), n) ELSE d

Unspanned(d, n) == IF d[n].att = {} THEN Unwrap(d, n) ELSE d
\* mergeChild of font: the spans inside the first span of the selection lose
\* the style.
StripSpan(d, n, style) ==
    IF Parent(d, n) = Nil \/ IsBookmarkNode(d, n) THEN d ELSE Unspanned(RemoveStyle(d, n, style), n)
StripSpans(s, n, style) ==
    MoveToBookmark(Tree(s, FoldLeft(LAMBDA d, m : StripSpan(d, m, style), s.d, ElemsBelow(s.d, n, "span"))), s.out)
StripFirst(s, n, style) ==
    IF s.r.collapsed \/ n = Nil \/ s.d[n].tag # "span" THEN s
    ELSE StripSpans(Exec(s, "createBookmark", Nil), n, style)
StripAtStart(s, style) == StripFirst(s, IF IsElem(s.d, s.r.sc) THEN Child(s.d, s.r.sc, s.r.so) ELSE Nil, style)
FontMergeChild(s, cmd) == IF cmd \in NeedSetChild THEN StripAtStart(AdjustmentBoundary(s), StyleOf[cmd]) ELSE s

MergeOneSpan(d, n) ==
    IF Parent(d, n) = Nil \/ IsBookmarkNode(d, n) THEN d ELSE MergeWithParent(TakeNext(d, n), n)
MergeBelow(s, b, common, cmd) ==
    IF common = Nil THEN [s EXCEPT !.ok = FALSE]   \* a bookmark outside the document
    ELSE FontMergeChild(MoveToBookmark(Tree(s, FoldLeft(MergeOneSpan, s.d, ElemsBelow(s.d, common, "span"))), b), cmd)
MergeMarked(s, b, cmd) ==
    LET outer == {n \in DOMAIN s.d : IsBlockElm(s.d, n) \/ s.d[n].tag = "a"}
    IN  MergeBelow(s, b, IF b.end # Nil THEN GetCommonAncestor(s.d, b.start, b.end)
                         ELSE FindParent(s.d, b.start, outer, FALSE), cmd)
MergeFrom(s, cmd) == MergeMarked(s, s.out, cmd)
MergeSpans(s, cmd) == MergeFrom(Exec(s, "createBookmark", Nil), cmd)

\* queryCommandValue of underline
UnderlinedAt(d, up) ==
    LET top == Max({k \in DOMAIN up : IsBlockElm(d, up[k])})
    IN  \E k \in (top + 1) .. Len(up) :
          \/ "underline" \in Values(d[up[k]].att, "text-decoration")
          \/ d[up[k]].tag \in {"a", "u"} /\ Values(d[up[k]].att, "text-decoration") = {}
Underlined(s) == UnderlinedAt(s.d, Chain(s.d, GetStart(s)))

SpanTags == {"span", "a"}

Unformatted(s, cmd) ==
    IF cmd \in NeedCmd THEN Exec(s, "removeformat", Format(SpanTags, StyleOf[cmd], FALSE)) ELSE s
FontOnSelection(s, cmd, value) ==
    Then(Then(Unformatted(s, cmd), "applyInlineStyle", OneStyle("span", {<<StyleOf[cmd], value>>})), "mergeSpans", cmd)

\* At a cursor: an empty span there takes the style, otherwise a new span with
\* the styles of the spans around it.  The temporary text goes after the select.
StyleSpan(d, n, att) == IF n = Nil THEN d ELSE [d EXCEPT ![n].att = Override(@, att)]
InSpan(s, text, att) ==
    CursorAt(Tree(s, StyleSpan(s.d, FindParentByTagName(s.d, text, {"span"}, TRUE), att)), text)
SpanBefore(s, text, css) ==
    LET new == FreshNode(s.d)
    IN  Collapse(SetStart(Tree(s, InsertBefore(With(s.d, Elm("span", css)), Parent(s.d, text), new, text)), new, 0), TRUE)
NewSpan(s, text, att) ==
    LET spans == SelectSeq(Chain(s.d, text), LAMBDA n : s.d[n].tag = "span")
    IN  IF s.ok THEN SpanBefore(s, text, Override(FoldLeft(LAMBDA a, n : Override(a, s.d[n].att), {}, spans), att)) ELSE s
FontAtText(s, text, empty, cmd, att) ==
    IF empty THEN InSpan(Unformatted(s, cmd), text, att)
    ELSE IF cmd \in NeedCmd /\ FindParentByTagName(s.d, text, {"a"}, TRUE) # Nil THEN CursorAt(s, text)
    ELSE Then(NewSpan(Unformatted(s, cmd), text, att), "mergeSpans", cmd)
EmptySpan(d, n) == n # Nil /\ \A k \in Range(d[n].kids) : IsText(d, k) /\ IsFillChar(d, k)
FontAtCursor(s, cmd, value) ==
    LET text == FreshNode(s.d)
    IN  FontAtText(SelectNode(PutText(s, <<Temp>>), text), text,
                   EmptySpan(s.d, FindParentByTagName(s.d, s.r.sc, {"span"}, TRUE)), cmd, {<<StyleOf[cmd], value>>})

\* forecolor "default".  The range that was read before removeformat is used
\* after it, although removeformat may have split or replaced its containers.
\* Behaviours are followed no further when they are not in the document any more.
DefaultAfter(t, s, cmd) ==
    IF ~t.ok THEN t
    ELSE Exec(IF s.r.collapsed THEN WithoutNode(CursorAt(t, FreshNode(s.d)), FreshNode(s.d))
              ELSE [t EXCEPT !.r = s.r], "mergeSpans", cmd)
FontDefault(s, cmd) ==
    DefaultAfter(Exec(IF s.r.collapsed THEN PutText(s, <<Temp>>) ELSE s,
                      "removeformat", Format(SpanTags, StyleOf[cmd], FALSE)), s, cmd)

-----------------------------------------------------------------------------
(* link and unlink                                                         *)

Return(s, b) == IF s.ok THEN MoveToBookmark(s, b) ELSE s
UnlinkMarked(s) == Return(Exec(OverLinks(s), "removeInlineStyle", {"a"}), s.out)
Unlink(s) == UnlinkMarked(Exec(s, "createBookmark", Nil))

\* queryCommandValue of link
LinkAtCursor(s, near) == IF near # Nil /\ ~IsInNodeEndBoundary(s.d, s.r.sc, s.r.so, near) THEN near ELSE Nil
LinkInside(d, start, end, common) ==
    LET around == FindParentByTagName(d, common, {"a"}, TRUE)
        inside == {n \in Below(d, common) : /\ d[n].tag = "a"
                                            /\ GetPosition(d, n, start) \in {2, 10, 20}
                                            /\ GetPosition(d, n, end) \in {4, 20}}
    IN  IF around # Nil THEN around
        ELSE IF IsElem(d, common) /\ inside # {} THEN Min(inside) ELSE Nil
LinkOnSelection(s) ==
    LET d == s.d
        r == s.r
    IN  LinkInside(d, IF NodeAt(d, r.sc, r.so) = Nil THEN r.sc ELSE NodeAt(d, r.sc, r.so),
                   IF IsText(d, r.ec) \/ r.eo = 0 THEN r.ec ELSE Child(d, r.ec, r.eo - 1),
                   CommonAncestor(s, FALSE, FALSE))
LinkAt(s) ==
    IF s.r.collapsed
    THEN LinkAtCursor(s, FindParentByTagName(s.d, IF IsElem(s.d, s.r.sc) THEN s.r.sc ELSE Parent(s.d, s.r.sc), {"a"}, TRUE))
    ELSE LinkOnSelection(ShrinkBoundary(s, FALSE))

\* Mutant: the range of before the old link was removed still counts.
LinkStale(s, href, letter) ==
    LET s1 == OverLinks(AdjustmentBoundary(s))
        s2 == IF ~s.r.collapsed \/ LinkAt(s) # Nil THEN Exec(s1, "removeInlineStyle", {"a"}) ELSE s1
    IN  IF s.r.collapsed THEN s2 ELSE Exec(s2, "applyInlineStyle", OneStyle("a", {<<"href", href>>}))

NewLink(s, href, letter) ==
    LET a == FreshNode(s.d)
    IN  SelectNode(Exec(Tree(s, AppendChild(With(With(s.d, Elm("a", {<<"href", href>>})), Txt(<<letter>>)), a, a + 1)),
                        "insertNode", a), a)
\* A cursor at the end of a link leaves it first.
LinkHere(s, r, near, href, letter) ==
    NewLink(IF near # Nil /\ IsInNodeEndBoundary(s.d, r.sc, r.so, near) THEN Collapse(SetStartAfter(s, near), TRUE) ELSE s,
            href, letter)
LinkOn(s, r, href, letter) ==
    IF ~s.ok THEN s
    ELSE IF r.collapsed THEN LinkHere(s, r, FindParentByTagName(s.d, r.sc, {"a"}, TRUE), href, letter)
    ELSE Exec(s, "applyInlineStyle", OneStyle("a", {<<"href", href>>}))
\* The range is read again when an old link was removed.
LinkOff(s, href, letter) == LinkOn(s, s.r, href, letter)
Link(s, href, letter) ==
    LET s1 == OverLinks(AdjustmentBoundary(s))
    IN  IF ~s.r.collapsed \/ LinkAt(s) # Nil THEN LinkOff(Exec(s1, "removeInlineStyle", {"a"}), href, letter)
        ELSE LinkOn(s1, s.r, href, letter)

-----------------------------------------------------------------------------
(* The commands                                                            *)

\* select, and then the temporary text of a command at a cursor is removed
Selecting(s) == Then(s, "select", Filling)
SelectWithout(s, cursor, text) == CheckOffset(IF cursor THEN WithoutNode(s, text) ELSE s)
SelectThen(s, cursor, text) == IF s.ok THEN SelectWithout(Exec(s, "select", Filling), cursor, text) ELSE s

Font(s, cmd, value) ==
    SelectThen(IF s.r.collapsed THEN FontAtCursor(s, cmd, value) ELSE FontOnSelection(s, cmd, value),
               s.r.collapsed, FreshNode(s.d))
InDocument(s) == InDoc(s.d, s.r.sc) /\ InDoc(s.d, s.r.ec)
Default(s) == IF s.ok /\ ~InDocument(s) THEN [s EXCEPT !.ok = FALSE] ELSE Selecting(s)
DoLink(s, href, letter) == Then(Collapse(Link(s, href, letter), FALSE), "select", NoFilling)

\* addList, at the mouseup that ends a new selection
Matched(s, cursor, text) ==
    IF list = <<>> \/ ~s.ok THEN s
    ELSE Exec(IF cursor THEN SelectNode(s, text) ELSE s, "applyInlineStyle", [list |-> list, att |-> {}])
AddList(s) ==
    LET text == FreshNode(s.d)
        t == Matched(Exec(IF s.r.collapsed THEN PutText(s, <<Temp>>) ELSE s, "removeformat", Format(FormatTags, "", FALSE)),
                     s.r.collapsed, text)
    IN  SelectThen(IF s.r.collapsed THEN CursorAt(t, text) ELSE t, s.r.collapsed, text)

\* The browser puts a typed letter where the cursor is.
Type(s, c) ==
    LET in == IsText(s.d, s.r.sc)
    IN  [Collapse(SetStart(IF in THEN Tree(s, [s.d EXCEPT ![s.r.sc].txt = InsertAt(@, s.r.so + 1, c)])
                           ELSE PutText(s, <<c>>), IF in THEN s.r.sc ELSE FreshNode(s.d), IF in THEN s.r.so + 1 ELSE 1), TRUE)
           EXCEPT !.out = fill]

Exec(s, name, a) ==
    CASE name = "removeformat" -> RemoveFormat(s, a)
      [] name = "mergeSpans" -> MergeSpans(s, a)
      [] name = "base" -> Selecting(BaseStyle(s, a[2]))
      [] name = "font" -> Font(s, a[2], a[3])
      [] name = "default" -> Default(FontDefault(s, "forecolor"))
      [] name = "clear" -> Selecting(Exec(s, "removeformat", Format(FormatTags, "", TRUE)))
      [] name = "unlink" -> Selecting(Unlink(s))
      [] name = "link" -> DoLink(s, a[2], a[3])
      [] name = "matched" -> AddList(s)
      [] name = "type" -> Type(s, a[2])
      [] OTHER -> Do(s, name, a)

\* What the user may do, as the name of a command and its arguments
Underline == <<"font", "underline", IF Underlined(GetRange) THEN "none" ELSE "underline">>
Linkable == ~rng.collapsed \/ FindParentByTagName(doc, GetRange.r.sc, {"a"}, TRUE) # Nil
NewLetters == {"x", "y"} \ Range(Content(doc, Body))
Selections ==
    {Rng(p[1][1], p[1][2], p[2][1], p[2][2]) :
        p \in {p \in Points(doc) \X Points(doc) :
                 p[1] = p[2] \/ Len(ContentBefore(doc, p[1][1], p[1][2])) < Len(ContentBefore(doc, p[2][1], p[2][2]))}}
Commands ==
    {<<"base", tag>> : tag \in BaseTags}
      \cup {<<"font", "forecolor", v>> : v \in Colors} \cup {Underline}
      \cup {<<"default">>, <<"clear">>}
      \cup (IF Linkable THEN {<<"unlink">>} ELSE {})
      \cup {<<"link", "new", c>> : c \in NewLetters \cap {"x"}}
      \cup {<<"type", c>> : c \in IF rng.collapsed THEN NewLetters \cap {"y"} ELSE {}}
      \cup {<<"matched", r>> : r \in IF flag THEN Selections ELSE {}}

\* The range that a command is called on
CalledOn(c) == IF c[1] = "type" THEN S ELSE IF c[1] = "matched" THEN RangeOf(On(doc, c[2])) ELSE GetRange

Call(c) ==
    /\ Command(Exec(CalledOn(c), c[1], c), c)
    /\ flag' = (flag /\ c[1] # "matched")
    /\ UNCHANGED list

\* formatmatch: the inline elements around the start of the selection, without
\* the first link, are kept for the next mouseup.
Copied(inline) ==
    LET links == {k \in DOMAIN inline : inline[k].tag = "a"}
    IN  IF links = {} THEN inline ELSE RemoveAt(inline, Min(links))
InlineAround(n) ==
    LET up == SelectSeq(Chain(doc, n), LAMBDA m : IsElem(doc, m) /\ ~IsBlockElm(doc, m))
    IN  [k \in DOMAIN up |-> [tag |-> doc[up[k]].tag, att |-> doc[up[k]].att]]
FormatMatch ==
    /\ GetClosedNode(S) = Nil
    /\ flag' = ~flag
    /\ list' = IF flag THEN <<>> ELSE Copied(InlineAround(ShrinkBoundary(Collapse(GetRange, TRUE), FALSE).r.sc))
    /\ Install(S, fill, <<"match">>)

Step == (\E c \in Commands : Call(c)) \/ FormatMatch
Next == Ready /\ Step

Spec == Init /\ [][Next]_vars

-----------------------------------------------------------------------------
(* Properties                                                              *)

\* The value that a style has for a letter: the innermost declaration counts.
LetterNode(d, c) == CHOOSE n \in DOMAIN d : c \in Range(d[n].txt)
Effective(d, n, style) ==
    LET up == Chain(d, n)
        on == {k \in DOMAIN up : Values(d[up[k]].att, style) # {}}
    IN  IF on = {} THEN {} ELSE Values(d[up[Max(on)]].att, style)
\* Underlines of elements around a letter add up.
Color(d, c) == Effective(d, LetterNode(d, c), "color")
Links(d, c) == {n \in Range(Chain(d, LetterNode(d, c))) : d[n].tag = "a"}

Chosen == Range(Selected(doc, rng))
\* The letters of links that the selection touches
Touched == {c \in Letters(doc) : \E e \in Letters(doc) \cap Chosen : Links(doc, c) \cap Links(doc, e) # {}}

\* The document is a tree in which the selection lies, and no temporary text
\* of a command ('font', 'match') is left in it.
TypeOK == Failed \/ (TreeOK /\ RangeOK /\ ~Contains(Content(doc, Body), Temp))

\* Styling changes no text, and the same text is selected after a command (for
\* font 'default' and formatmatch only the first).
KeepsSelection == /\ act'[1] \in {"base", "font", "clear", "unlink"} => SamePlace
                  /\ act'[1] \in {"default", "matched"} => SameContent

\* bold and italic toggle: with the cursor in the style the cursor is then out
\* of it, and the other way round; on a selection that starts in the style all
\* selected letters lose it, otherwise all get it.  No other letter changes.
ToggleIsExact ==
    [][act'[1] = "base" =>
         LET tag == act'[2]
             on == InPath(GetRange, {tag}) # Nil
         IN  /\ rng.collapsed => (FindParentByTagName(doc', rng'.sc, {tag}, TRUE) = Nil) = on
             /\ \A c \in Letters(doc) :
                  IF c \in Chosen THEN (tag \in TagsOf(doc', c)) = ~on
                  ELSE TagsOf(doc', c) = TagsOf(doc, c)]_vars

\* A colour reaches the first selected letter and every selected letter that had
\* no colour of its own, and no letter outside the selection; at a cursor it is
\* the colour of what is typed next.
Colored == act'[1] = "font" /\ act'[2] = "forecolor"
ColorIsExact ==
    [][Colored =>
         /\ \A c \in Letters(doc) \ Chosen : Color(doc', c) = Color(doc, c)
         /\ rng.collapsed => Effective(doc', rng'.sc, "color") = {act'[3]}
         /\ \A c \in Letters(doc) \cap Chosen :
               Color(doc, c) = {} \/ c = Selected(doc, rng)[1] => Color(doc', c) = {act'[3]}]_vars

\* Removing formats takes all of them off the selected letters and off no letter
\* outside the selection and the links that it touches.
ClearIsExact ==
    [][(act'[1] = "clear" /\ ~rng.collapsed) =>
         \A c \in Letters(doc) :
            IF c \in Chosen THEN TagsOf(doc', c) \subseteq {"a"} /\ Color(doc', c) = {}
            ELSE c \in Touched \/ (TagsOf(doc', c) = TagsOf(doc, c) /\ Color(doc', c) = Color(doc, c))]_vars

\* A link reaches every selected letter, unlink leaves none of them linked, and
\* links outside the selection stay.  No letter is ever inside two links.
LinkIsExact ==
    [][/\ act'[1] \in {"link", "matched", "base"} => \A c \in Letters(doc') : Cardinality(Links(doc', c)) <= 1
       /\ act'[1] = "link" =>
             \A c \in Letters(doc) : (Links(doc', c) # {}) = (c \in Chosen \/ Links(doc, c) # {})
       /\ act'[1] = "unlink" => \A c \in Chosen \cap Letters(doc) : Links(doc', c) = {}]_vars

\* Format matching gives the selected letters exactly the elements around the
\* start of the selection that it was called on.
MatchIsExact ==
    [][act'[1] = "matched" =>
         \A c \in Letters(doc) \cap Range(Selected(doc, act'[2])) :
            TagsOf(doc', c) \ {"a"} = {list[k].tag : k \in DOMAIN list}]_vars
=============================================================================
