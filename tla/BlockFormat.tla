---------------------------- MODULE BlockFormat ----------------------------
(***************************************************************************)
(* The commands that work on whole blocks: justify, directionality,        *)
(* paragraph (with indent, rowspacing and lineheight, which call it),      *)
(* blockquote, and with them touppercase and selectall.  A letter stands   *)
(* for the temporary text that a command puts at a cursor and takes away   *)
(* again.  Style declarations and dir are pairs in the attributes.         *)
(***************************************************************************)
EXTENDS EditorFrame

CONSTANTS ParagraphTags   \* arguments of the command paragraph

vars == frame
Init == InitFrame

\* execCommand, and the methods of the range that the commands call
RECURSIVE Exec(_, _, _)
Then(s, name, a) == IF s.ok THEN Exec(s, name, a) ELSE s

Temp == "temp"
Capital == [a |-> "A", b |-> "B", c |-> "C"]
Headings == {"h1"}
NotExchange == {"td", "li", "pre"}

IsBlock(d, n) == IsBlockElm(d, n)
Inline(d) == {n \in DOMAIN d : ~IsBlock(d, n)}
\* filterFn; directionality takes line breaks as well
Walked(d, cmd) ==
    {n \in DOMAIN d : IF IsText(d, n) THEN ~IsWhitespace(d, n)
                      ELSE ~IsBookmarkNode(d, n) /\ (cmd = "dir" \/ ~IsBr(d, n))}

\* The last node of the run of inline nodes that starts with n
RECURSIVE LastOfRun(_, _, _)
LastOfRun(d, n, end) ==
    LET next == GetDomNode(d, n, 1, FALSE, DOMAIN d, Inline(d))
    IN  IF next = Nil \/ next = end \/ IsBlock(d, next) THEN n ELSE LastOfRun(d, next, end)

\* A new element around the contents of the range; out is the element
PutInto(s, new) ==
    IF s.ok THEN [Exec(Tree(s, AppendChild(s.d, new, s.out)), "insertNode", new) EXCEPT !.out = new] ELSE s
Wrapped(s, a) == PutInto(Exec(Tree(s, With(s.d, Elm(a.tag, a.att))), "contents", TRUE), FreshNode(s.d))
Wrapper(tag, att) == [tag |-> tag, att |-> att]

\* Mutant: the block is looked for around the first node only.
StyleRunFirst(s, att) ==
    LET block == FindParent(s.d, s.r.sc, Tagged(s.d, BlockTags), FALSE)
    IN  IF block \in {Nil, Body} THEN Exec(s, "wrap", Wrapper("p", att))
        ELSE [Tree(s, [s.d EXCEPT ![block].att = Override(@, att)]) EXCEPT !.out = block]

\* doJustify, doDirectionality: the block around a run takes the style; a run
\* outside of all blocks becomes a paragraph.  out is where the walk goes on.
StyleRun(s, att) ==
    LET common == CommonAncestor(s, FALSE, FALSE)
    IN  IF ~IsBody(common) /\ IsBlock(s.d, common)
        THEN [Tree(s, [s.d EXCEPT ![common].att = Override(@, att)]) EXCEPT !.out = common]
        ELSE Exec(s, "wrap", Wrapper("p", att))

\* doParagraph: a new block around the run takes the place and the styles of
\* the block that it was in; only a style on a heading leaves the heading.
Exchange(s, para, parent, a) ==
    IF s.d[parent].tag \in NotExchange THEN [s EXCEPT !.out = parent]
    ELSE IF ~IsBlock(s.d, parent) \/ IsBody(parent) THEN s
    ELSE IF a.att # {} /\ s.d[parent].tag \in Headings /\ a.tag \notin Headings
    THEN [Tree(s, Unwrap([s.d EXCEPT ![parent].att = Override(@, a.att)], para)) EXCEPT !.out = parent]
    ELSE Tree(s, Unwrap([s.d EXCEPT ![para].att = Override(s.d[parent].att, @)], parent))
AfterWrap(s, a) == IF s.ok THEN Exchange(s, s.out, Parent(s.d, s.out), a) ELSE s
ParagraphRun(s, a) == AfterWrap(Exec(s, "wrap", Wrapper(a.tag, a.att)), a)

\* The walk over the blocks between the bookmarks; a names the command, the tag
\* and the style.
RECURSIVE Walk(_, _, _, _)
WalkFrom(s, end, a) == IF s.ok THEN Walk(s, GetNextDomNode(s.d, s.out, FALSE, Walked(s.d, a.cmd)), end, a) ELSE s
OneRun(s, a) == IF a.cmd = "paragraph" THEN ParagraphRun(s, a) ELSE StyleRun(s, a.att)
Walk(s, current, end, a) ==
    IF current = Nil THEN s
    ELSE IF GetPosition(s.d, current, end) \in {2, 10} THEN s
    ELSE IF IsBlock(s.d, current) THEN Walk(s, GetNextDomNode(s.d, current, TRUE, Walked(s.d, a.cmd)), end, a)
    ELSE WalkFrom(OneRun(SetEndAfter(SetStartBefore(s, current), LastOfRun(s.d, current, end)), a), end, a)

Return(s, b, outer) == IF s.ok THEN MoveToBookmark(MoveToBookmark(s, b), outer) ELSE s
WalkBetween(s, b, outer, a) ==
    IF b.end = Nil THEN [s EXCEPT !.ok = FALSE]
    ELSE Return(Walk(s, GetNextDomNode(s.d, b.start, FALSE, Walked(s.d, a.cmd)), b.end, a), b, outer)
WalkMarked(s, outer, a) == WalkBetween(s, s.out, outer, a)
Whole == [toBlock |-> TRUE, stop |-> {}]
MarkBlocks(s, a) == WalkMarked(Exec(Exec(s, "enlarge", Whole), "createBookmark", Nil), s.out, a)
DoBlocks(s, a) == MarkBlocks(Exec(s, "createBookmark", Nil), a)

\* At a cursor a temporary text is inserted first and removed afterwards; out is
\* the block that it stood in.
LeaveText(s, text) == IF s.ok THEN [WithoutNode(CursorAt(s, text), text) EXCEPT !.out = Parent(s.d, text)] ELSE s
AtCursor(s, a) ==
    LET text == FreshNode(s.d)
    IN  LeaveText(Exec(Exec(Tree(s, With(s.d, Txt(<<Temp>>))), "insertNode", text), "blocks", a), text)

OnBlocks(s, a) == IF s.r.collapsed THEN AtCursor(s, a) ELSE Exec(s, "blocks", a)
Blocks(cmd, tag, att) == [cmd |-> cmd, tag |-> tag, att |-> att]

\* fillNode: an empty block gets a line break to stand in.
FillNode(d, n) == AppendChild(With(SetKids(d, n, <<>>), Elm("br", {})), n, FreshNode(d))

-----------------------------------------------------------------------------
(* The commands on blocks                                                  *)

Selecting(s) == Then(s, "select", Filling)

Justify(s, align) == OnBlocks(s, Blocks("justify", "", {<<"text-align", align>>}))

\* With the cursor in an element that has a direction only that element changes.
Direct(s, up, on, att) ==
    IF s.r.collapsed /\ on # {} THEN Tree(s, [s.d EXCEPT ![up[Max(on)]].att = Override(@, att)])
    ELSE OnBlocks(s, Blocks("dir", "", att))
DirectFrom(s, up, att) == Direct(s, up, {k \in DOMAIN up : \E a \in s.d[up[k]].att : a[1] = "dir"}, att)
Directionality(s, forward) == DirectFrom(s, Chain(s.d, GetStart(s)), {<<"dir", forward>>})

FillHollow(s, cursor) ==
    IF cursor /\ s.ok /\ IsBlock(s.d, s.out) /\ IsEmptyNode(s.d, s.out) THEN Tree(s, FillNode(s.d, s.out)) ELSE s
Paragraph(s, tag, att) == FillHollow(OnBlocks(s, Blocks("paragraph", tag, att)), s.r.collapsed)
IndentedAt(d, n) == n # Nil /\ \E a \in d[n].att : a[1] = "text-indent" /\ a[2] # "0em"
Indented(s) == IndentedAt(s.d, InPath(s, {"p"} \cup Headings))
\* rowspacing runs with a margin as lineheight does.
LineHeight == <<"style", "line-height", "2em">>
Indent == <<"style", "text-indent", IF Indented(GetRange) THEN "0em" ELSE "2em">>

-----------------------------------------------------------------------------
(* blockquote                                                              *)

Quote == {"blockquote"}
\* The tags that dtd.blockquote does not list
OutsideQuote == {"td", "tr", "tbody", "li"}
BlockOf(d, n) ==
    LET block == IF IsBlock(d, n) THEN n ELSE FindParent(d, n, Tagged(d, BlockTags), FALSE)
        li == FindParentByTagName(d, block, {"li"}, TRUE)
    IN  IF li # Nil THEN li ELSE block

BreakQuote(d, block, obj) ==
    IF d[block].tag \in {"li", "td"} \/ block \in {obj, Body} THEN Unwrap(d, obj) ELSE BreakParent(d, block, obj)

\* With the cursor in a quotation: the blocks of the selection are broken out of it.
CleanQuote(d, q, a, b) ==
    IF d[q].kids = <<>> THEN RemoveNode(d, q)
    ELSE IF GetPosition(d, q, a) \in {2, 10} /\ Precedes(d, q, b) THEN Unwrap(d, q) ELSE d
CleanQuotes(d, a, b) ==
    FoldLeft(LAMBDA e, q : CleanQuote(e, q, a, b), d, SelectSeq(Preorder(d, Body), LAMBDA n : d[n].tag \in Quote))
BreakLast(d, b, last) == IF last = Nil THEN d ELSE BreakQuote(d, b, last)
BreakEnd(d, a, b) == BreakLast(d, b, IF a = b THEN Nil ELSE FindParentByTagName(d, b, Quote, FALSE))
UnquoteBlocks(s, a, b, obj) == MoveToBookmark(Tree(s, CleanQuotes(BreakEnd(BreakQuote(s.d, a, obj), a, b), a, b)), s.out)
UnquoteMarked(s, obj) == UnquoteBlocks(s, BlockOf(s.d, s.r.sc), BlockOf(s.d, s.r.ec), obj)
Unquote(s, obj) == UnquoteMarked(Exec(s, "createBookmark", Nil), obj)

\* The outermost node around n that a quotation may hold; stop is set when one
\* of the elements around it may not stand in a quotation.
TopOf(d, n) ==
    LET up == Chain(d, IF IsText(d, n) THEN Parent(d, n) ELSE n)
        barred == {k \in DOMAIN up : d[up[k]].tag \in OutsideQuote}
        k == IF barred = {} THEN 1 ELSE Max(barred)
    IN  [node |-> IF k = Len(up) THEN up[k] ELSE up[k + 1], stop |-> barred # {}]

\* Otherwise the top-level blocks of the selection go into a new quotation.
QuoteFrom(s, a) ==
    IF IsBody(a.node) THEN SetStart(s, Body, 0)
    ELSE IF s.r.collapsed THEN SelectNode(s, a.node) ELSE SetStartBefore(s, a.node)
QuoteTo(s, b) == IF IsBody(b.node) THEN SetEndAtLast(s, Body) ELSE SetEndAfter(s, b.node)
Quotable(s, done) == IF done THEN s ELSE QuoteTo(s, TopOf(s.d, s.r.ec))
NoInner(d, n) == FoldLeft(Unwrap, d, SelectSeq(Tail(Preorder(d, n)), LAMBDA m : d[m].tag \in Quote))
Unquoted(w, s) == IF w.ok THEN MoveToBookmark(Tree(s, NoInner(w.d, w.out)), s.out) ELSE w
QuoteTop(s, a) ==
    Unquoted(Exec(Quotable(QuoteFrom(s, a), s.r.collapsed /\ ~IsBody(a.node) /\ ~a.stop), "wrap", Wrapper("blockquote", {})), s)
QuoteMarked(s) == QuoteTop(s, TopOf(s.d, s.r.sc))
QuoteBlocks(s) == QuoteMarked(Exec(s, "createBookmark", Nil))

QuoteObj(s) == InPath(s, Quote)
Blockquote(s, obj) == IF obj # Nil THEN Unquote(s, obj) ELSE QuoteBlocks(s)

-----------------------------------------------------------------------------
(* touppercase and selectall                                               *)

Uppered(cs) == [k \in DOMAIN cs |-> IF cs[k] \in DOMAIN Capital THEN Capital[cs[k]] ELSE cs[k]]

UpperWalked(d) == {m \in DOMAIN d : ~IsBr(d, m) /\ ~IsWhitespace(d, m)}
RECURSIVE Upper(_, _, _)
Upper(d, n, end) ==
    IF n = Nil \/ n = end \/ ~Precedes(d, n, end) THEN d
    ELSE Upper([d EXCEPT ![n].txt = Uppered(@)],
               GetNextDomNode(d, n, TRUE, UpperWalked(d)), end)
UpperMarked(s, b) ==
    MoveToBookmark(Tree(s, Upper(s.d, GetNextDomNode(s.d, b.start, FALSE, UpperWalked(s.d)), b.end)), b)
UpperFrom(s) == UpperMarked(s, s.out)
ToUpperCase(s) == UpperFrom(Exec(s, "createBookmark", Nil))

SelectEmpty(s) == IF IsEmptyBlock(doc, Body) THEN Collapse(s, TRUE) ELSE s
SelectAll(s) == Exec(SelectEmpty(SelectNodeContents(s, Body)), "select", NoFilling)

-----------------------------------------------------------------------------

Exec(s, name, a) ==
    CASE name = "wrap" -> Wrapped(s, a)
      [] name = "blocks" -> DoBlocks(s, a)
      [] name = "justify" -> Selecting(Justify(s, a[2]))
      [] name = "dir" -> Selecting(Directionality(s, a[2]))
      [] name = "paragraph" -> Selecting(Paragraph(s, a[2], {}))
      [] name = "style" -> Selecting(Paragraph(s, "p", {<<a[2], a[3]>>}))
      [] name = "quote" -> Selecting(Blockquote(s, QuoteObj(s)))
      [] name = "upper" -> Selecting(ToUpperCase(s))
      [] name = "all" -> SelectAll(s)
      [] OTHER -> Do(s, name, a)

\* What the user may do, as the name of a command and its arguments
Commands ==
    {<<"dir", "rtl">>, LineHeight, Indent, <<"quote", QuoteObj(GetRange) # Nil>>, <<"all">>}
      \cup {<<"justify", "center">> : n \in {InPath(GetRange, {"td"})} \cap {Nil}}
      \cup {<<"paragraph", tag>> : tag \in ParagraphTags}
      \cup (IF GetRange.r.collapsed THEN {} ELSE {<<"upper">>})
Step == \E c \in Commands : Command(Exec(GetRange, c[1], c), c)
Next == Ready /\ Step

Spec == Init /\ [][Next]_vars

-----------------------------------------------------------------------------
(* Properties                                                              *)

Chosen == Range(Selected(doc, rng))
LetterNode(d, c) == CHOOSE n \in DOMAIN d : c \in Range(d[n].txt)
\* The innermost block around a letter; the whole body for a letter outside blocks
Home(d, c) ==
    LET n == FindParent(d, LetterNode(d, c), Tagged(d, BlockTags), FALSE) IN IF n = Nil THEN Body ELSE n
Look(d, c) == [tag |-> d[Home(d, c)].tag, att |-> d[Home(d, c)].att]
\* The blocks that the selection touches, for a selection with its ends in text
Settled == IsText(doc, GetRange.r.sc) /\ IsText(doc, GetRange.r.ec)
HomeOf(n) == LET b == FindParent(doc, n, Tagged(doc, BlockTags), FALSE) IN IF b = Nil THEN Body ELSE b
Reached(c) == Home(doc, c) \in {HomeOf(GetRange.r.sc), HomeOf(GetRange.r.ec)}
                                 \cup {Home(doc, e) : e \in Letters(doc) \cap Chosen}
InBody(c) == IsBody(Home(doc, c))
Quoted(d, c) == {n \in Range(Chain(d, LetterNode(d, c))) : d[n].tag \in Quote}

\* No command throws; the document is a tree in which the selection lies, and no
\* temporary text of a command is left in it.
TypeOK == ~Failed /\ TreeOK /\ RangeOK /\ ~Contains(Content(doc, Body), Temp)

\* Formatting blocks changes no text, apart from a line break that an empty
\* block gets, and leaves the same text selected.
KeepsSelection == act'[1] \in {"justify", "dir", "paragraph", "style", "quote"} =>
         LET text(cs) == SelectSeq(cs, LAMBDA c : c # "br")
         IN  /\ text(Content(doc', Body)) = text(Content(doc, Body))
             /\ text(Before(doc', rng')) = text(Before(doc, rng))
             /\ text(UpToEnd(doc', rng')) = text(UpToEnd(doc, rng))

\* Alignment and direction reach exactly the blocks that the selection touches.
AlignIsExact ==
    [][(act'[1] \in {"justify", "dir"} /\ Settled) =>
         LET set == {<<IF act'[1] = "dir" THEN "dir" ELSE "text-align", act'[2]>>}
         IN  \A c \in Letters(doc) :
               IF c \in Chosen \/ (Reached(c) /\ ~InBody(c)) THEN Look(doc', c).att = Override(Look(doc, c).att, set)
               ELSE InBody(c) \/ Look(doc', c) = Look(doc, c)]_vars

\* paragraph changes the tag of exactly the blocks that the selection touches
\* and keeps their styles; indent and lineheight keep headings.
ParagraphIsExact ==
    [][(act'[1] \in {"paragraph", "style"} /\ Settled) =>
         \A c \in Letters(doc) :
            IF ~Reached(c) THEN InBody(c) \/ Look(doc', c) = Look(doc, c)
            ELSE (InBody(c) /\ c \notin Chosen) \/
                 IF act'[1] = "paragraph"
                 THEN Look(doc', c) = [tag |-> act'[2], att |-> Look(doc, c).att]
                 ELSE Look(doc', c) = [tag |-> IF Look(doc, c).tag \in Headings THEN Look(doc, c).tag ELSE "p",
                                       att |-> Override(Look(doc, c).att, {<<act'[2], act'[3]>>})]]_vars

\* No letter is ever in two quotations; a quotation takes in every selected
\* letter, and taking it away frees every selected letter and no other block.
QuoteIsExact ==
    [][(act'[1] = "quote" /\ Settled) =>
         \A c \in Letters(doc) :
            /\ Cardinality(Quoted(doc', c)) <= 1
            /\ c \in Chosen \/ (Reached(c) /\ ~InBody(c)) => (Quoted(doc', c) = {}) = act'[2]
            /\ ~Reached(c) /\ act'[2] => (Quoted(doc', c) = {}) = (Quoted(doc, c) = {})]_vars
=============================================================================
