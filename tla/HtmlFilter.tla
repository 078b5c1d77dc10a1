----------------------------- MODULE HtmlFilter -----------------------------
(***************************************************************************)
(* How the editor takes contents in and gives it out: htmlparser, the      *)
(* input and output rules of defaultfilter, and filterNode with the rules  *)
(* for pasting as plain text.  The state is the parser's; what the filters *)
(* make of the tree that it has built is asked for in the properties.      *)
(*                                                                         *)
(* The browser is not Internet Explorer; markup inside script is left out. *)
(***************************************************************************)
EXTENDS UNode

CONSTANTS Opens,        \* the opening tags of the contents (tokens)
          Comments,     \* the comments of the contents (tokens)
          MaxTokens     \* bound: the length of the contents

VARIABLES count,        \* the tokens that were read
          inText,       \* the last one was a text
          t, cur        \* the tree, and currentParent
vars == <<count, inText, t, cur>>

-----------------------------------------------------------------------------
(* htmlparser                                                              *)

NeedParentNode(tag) ==
    CASE tag \in {"td", "th"} -> <<"tr">>
      [] tag = "tr" -> <<"tbody", "thead", "tfoot">>
      [] tag \in {"tbody", "thead", "caption"} -> <<"table">>
      [] tag = "li" -> <<"ul", "ol">>
      [] tag \in {"dt", "dd"} -> <<"dl">>
      [] OTHER -> <<>>

\* The node itself and what is above it, up to the root
RECURSIVE Climb(_, _)
Climb(d, n) == IF n = Root THEN <<>> ELSE <<n>> \o Climb(d, d[n].up)
NearestIn(d, n, tags) ==
    LET s == SelectSeq(Climb(d, n), LAMBDA k : d[k].tag \in tags)
    IN  IF s = <<>> THEN Nil ELSE Head(s)

Push(d, p, node) == PutAt(With(d, node), p, Len(Kids(d, p)) + 1, Fresh(d))

\* The new tree and the new currentParent
RECURSIVE Element(_, _, _)
Element(d, parent, tok) ==
    LET need == NeedParentNode(tok.v)
        there == NearestIn(d, parent, Range(need))
        st == IF need = <<>> THEN [t |-> d, cur |-> parent]
              ELSE IF there # Nil THEN [t |-> d, cur |-> there]
              ELSE Element(d, parent, OpenTok(need[1], NoAttrs, <<>>))
    IN  [t |-> Push(st.t, st.cur, Node(tok.v, <<>>, tok.att, tok.style)),
         cur |-> IF tok.v \in EmptyTags THEN st.cur ELSE Fresh(st.t)]

Text(d, parent, data) ==
    IF d[parent].tag \in {"ul", "ol"}
    THEN Push(Push(d, parent, CreateElement("li")), Fresh(d), CreateText(data))
    ELSE Push(d, parent, CreateText(data))

\* The end tag of an element that is not open is passed over.
Close(d, n, tag) ==
    LET there == NearestIn(d, n, {tag}) IN IF there = Nil THEN n ELSE d[there].up

Feed(st, tok) ==
    CASE tok.k = "open" -> Element(st.t, st.cur, tok)
      [] tok.k = "close" -> [st EXCEPT !.cur = Close(st.t, st.cur, tok.v)]
      [] tok.k = "text" -> [st EXCEPT !.t = Text(st.t, st.cur, tok.v)]
      [] tok.k = "comment" -> [st EXCEPT !.t = Push(st.t, st.cur, NewComment(tok.v))]
HtmlParser(toks) == FoldLeft(Feed, [t |-> NewTree, cur |-> Root], toks).t

Init == count = 0 /\ inText = FALSE /\ t = NewTree /\ cur = Root

Read(tok) ==
    /\ count < MaxTokens /\ count' = count + 1 /\ inText' = (tok.k = "text")
    /\ LET st == Feed([t |-> t, cur |-> cur], tok) IN t' = st.t /\ cur' = st.cur
InCdata == t[cur].tag \in CdataTags
ReadOpen == ~InCdata /\ \E o \in Opens : Read(o)
ReadClose == \E o \in Opens : /\ o.v \notin EmptyTags /\ (InCdata => o.v = t[cur].tag)
                              /\ Read(CloseTok(o.v))
\* Each text is a new word.
Word(i) == <<"w1", "w2", "w3", "w4", "w5", "w6", "w7">>[i]
ReadText == ~inText /\ Read(TextTok(<<Word(count + 1)>>))
ReadComment == ~InCdata /\ \E c \in Comments : Read(c)

Next == ReadOpen \/ ReadClose \/ ReadText \/ ReadComment
Spec == Init /\ [][Next]_vars

-----------------------------------------------------------------------------
(* The input rule of defaultfilter, for one node                           *)

Unwrap(d, n) == RemoveChild(d, d[n].up, n, TRUE)
Drop(d, n) == RemoveChild(d, d[n].up, n, FALSE)
BareInline(d, n) == d[n].tag \in InlineTags \ EmptyTags /\ HasNoAttrs(d, n)
CleanInline(d, n) ==
    IF Kids(d, n) = <<>> THEN Drop(d, n) ELSE IF d[n].tag = "span" THEN Unwrap(d, n) ELSE d

\* A paragraph in a paragraph, and what follows it, moves behind the outer one.
SplitP(d, n) ==
    LET ps == SelectSeq(Kids(d, n), LAMBDA k : d[k].tag = "p")
        moved == IF ps = <<>> THEN <<>> ELSE SubSeq(Kids(d, n), Place(d, n, Head(ps)), Len(Kids(d, n)))
        \* each one behind the one before
        step(acc, k) == [d |-> InsertAfter(acc.d, d[n].up, k, acc.last), last |-> k]
    IN  FoldLeft(step, [d |-> d, last |-> n], moved).d
Filled(d, n) == IF Kids(d, n) = <<>> THEN InnerHTML(d, n, <<CreateElement("br")>>) ELSE d
RuleP(d, n) ==
    LET val == GetAttr(d, n, "align") IN
    Filled(SplitP(IF val = "" THEN d ELSE SetStyle(SetAttr(d, n, "align", ""), n, "text-align", val), n), n)

\* Mutant: what is not a block is left behind.
RECURSIVE DivToPBlocks(_, _, _)
DivToPBlocks(d, n, p) ==
    LET k == FirstChild(d, n) IN
    IF k = Nil THEN Drop(d, n)
    ELSE IF d[k].tag \in BlockTags THEN DivToPBlocks(InsertBefore(d, d[n].up, k, n), n, p)
    ELSE DivToPBlocks(Drop(d, k), n, p)

\* p is the paragraph that takes the inline contents; it is not in the tree yet.
RECURSIVE DivToP(_, _, _)
DivToP(d, n, p) ==
    LET k == FirstChild(d, n)
        full == Kids(d, p) # <<>>
    IN  IF k = Nil THEN Drop(IF full THEN InsertBefore(d, d[n].up, p, n) ELSE d, n)
        ELSE IF d[k].tag \notin BlockTags THEN DivToP(AppendChild(d, p, k), n, p)
        ELSE IF full THEN DivToP(With(InsertBefore(d, d[n].up, p, n), CreateElement("p")), n, Fresh(d))
        ELSE DivToP(InsertBefore(d, d[n].up, k, n), n, p)
RuleDiv(d, n) == DivToP(With(d, CreateElement("p")), n, Fresh(d))

RuleLi(d, n) ==
    FoldLeft(LAMBDA f, k : InsertAfter(f, f[n].up, k, n),
             IF GetAttr(d, n, "class") = "list-x" THEN d ELSE ClearAttrs(d, n),
             GetNodesByTagName(d, n, <<"ol", "ul">>))

\* A table in a cell becomes its text.
RuleTable(d, n) ==
    IF NearestIn(d, n, {"td"}) = Nil THEN d
    ELSE Drop(InsertBefore(With(d, CreateText(TextOf(d, n))), d[n].up, Fresh(d), n), n)

RuleScript(d, n) ==
    LET data == TextOf(d, n) IN
    InnerHTML([SetAttr(SetAttr(d, n, "cdata_tag", d[n].tag), n, "cdata_data", IF data = <<>> THEN "" ELSE data[1])
               EXCEPT ![n].tag = "div"], n, <<>>)

UnwrapBare(d, n) == IF HasNoAttrs(d, n) THEN Unwrap(d, n) ELSE d
DropMark(d, n) == IF GetAttr(d, n, "id") = "bookmark" THEN Drop(d, n) ELSE d
RuleSpan(d, n) ==
    DropMark(IF GetStyle(d, n, "white-space") = "" THEN d
             ELSE UnwrapBare(SetStyle(d, n, "white-space", ""), n), n)

InputRule(d, n) ==
    LET tag == d[n].tag IN
    IF ~IsElement(d, n) THEN d
    ELSE IF BareInline(d, n) /\ tag \notin CdataTags THEN CleanInline(d, n)
    ELSE CASE tag \in CdataTags -> RuleScript(d, n)
           [] tag = "a" -> IF GetAttr(d, n, "href") = "" THEN d ELSE SetAttr(d, n, "_href", GetAttr(d, n, "href"))
           [] tag = "img" -> IF GetAttr(d, n, "src") = "data" THEN Drop(d, n)
                             ELSE SetAttr(d, n, "_src", GetAttr(d, n, "src"))
           [] tag = "span" -> RuleSpan(d, n)
           [] tag = "p" -> RuleP(d, n)
           [] tag = "div" -> IF GetAttr(d, n, "cdata_tag") # "" THEN d ELSE RuleDiv(d, n)
           [] tag = "dl" -> [d EXCEPT ![n].tag = "ul"]
           [] tag \in {"dt", "dd"} -> [d EXCEPT ![n].tag = "li"]
           [] tag = "li" -> RuleLi(d, n)
           [] tag \in {"td", "th", "caption"} ->
                IF Kids(d, n) = <<>> THEN AppendChild(With(d, CreateElement("br")), n, Fresh(d)) ELSE d
           [] tag = "table" -> RuleTable(d, n)
           [] OTHER -> d

RestoreScript(d, n) ==
    LET data == GetAttr(d, n, "cdata_data")
        e == [d EXCEPT ![n].tag = GetAttr(d, n, "cdata_tag")]
    IN  AppendChild(With(SetAttr(SetAttr(e, n, "cdata_tag", ""), n, "cdata_data", ""),
                         CreateText(IF data = "" THEN <<>> ELSE <<data>>)), n, Fresh(d))
Rename(d, n, from, to) ==
    IF GetAttr(d, n, from) = "" THEN d ELSE SetAttr(SetAttr(d, n, to, GetAttr(d, n, from)), n, from, "")

OutputRule(d, n) ==
    LET tag == d[n].tag IN
    IF ~IsElement(d, n) THEN d
    ELSE IF BareInline(d, n) THEN CleanInline(d, n)
    ELSE CASE tag = "div" -> IF GetAttr(d, n, "cdata_tag") # "" THEN RestoreScript(d, n) ELSE d
           [] tag = "a" -> Rename(d, n, "_href", "href")
           [] tag = "span" -> DropMark(d, n)
           [] tag = "img" -> Rename(d, n, "_src", "src")
           [] OTHER -> d

\* nodeTraversal: a node whose children were all removed is not asked again.
Rule(d, n, input) == IF input THEN InputRule(d, n) ELSE OutputRule(d, n)
RECURSIVE TraverseFrom(_, _, _, _)
AskAgain(d, c, input) == IF d[c].up # Nil /\ Kids(d, c) # <<>> THEN Rule(d, c, input) ELSE d
Resume(d, n, i, c, input) == TraverseFrom(d, n, IF d[c].up = Nil THEN i ELSE i + 1, input)
RECURSIVE NodeTraversal(_, _, _)
NodeTraversal(d, n, input) ==
    IF Kids(d, n) = <<>> THEN Rule(d, n, input) ELSE TraverseFrom(d, n, 1, input)
TraverseFrom(d, n, i, input) ==
    IF i > Len(Kids(d, n)) THEN d
    ELSE LET c == Kids(d, n)[i] IN Resume(AskAgain(NodeTraversal(d, c, input), c, input), n, i, c, input)
Traversal(d, input) == IF Kids(d, Root) = <<>> THEN d ELSE TraverseFrom(d, Root, 1, input)

\* setContent and getContent
Input(d) == Traversal(d, TRUE)
Output(d) == Traversal(d, FALSE)

-----------------------------------------------------------------------------
(* filterNode with filterTxtRules                                          *)

DropTags == {"script", "style", "input"}
Sep == "sep"    \* the blanks that are put behind a cell
PlainTd(d, n) ==
    IF TextOf(d, n) = <<>> THEN Drop(d, n)
    ELSE Unwrap(InsertAfter(With(d, CreateText(<<Sep>>)), d[n].up, Fresh(d), n), n)
PlainFn(d, n) ==
    LET tag == d[n].tag IN
    CASE tag \in {"ul", "ol", "dl", "dt", "dd", "li"} -> Unwrap(d, n)
      [] tag \in {"caption", "th", "tr", "h1"} -> [d EXCEPT ![n].tag = "p"]
      [] tag = "div" -> RuleDiv(d, n)
      [] tag = "td" -> PlainTd(d, n)
HasPlainFn(tag) == tag \in {"ul", "ol", "dl", "dt", "dd", "li", "caption", "th", "tr", "h1", "div", "td"}

RECURSIVE FilterNode(_, _)
RECURSIVE FilterFrom(_, _, _)
\* on with what is in n, or in the place of n if n is gone
FilterOn(d, n, p, i) == IF d[n].up # Nil THEN FilterFrom(d, n, 1) ELSE FilterFrom(d, p, i)
FilterBehind(d, c, p, i) == FilterFrom(d, p, IF d[c].up = Nil THEN i ELSE i + 1)
FilterNode(d, n) ==
    LET tag == d[n].tag
        p == d[n].up
        i == GetIndex(d, n) + 1
    IN  CASE tag = "#text" -> d
          [] tag = "#comment" -> Drop(d, n)
          [] tag \in DropTags \cup CdataTags -> Drop(d, n)
          [] tag \in {"p", "br"} -> FilterFrom(ClearAttrs(d, n), n, 1)
          [] HasPlainFn(tag) -> FilterOn(PlainFn(d, n), n, p, i)
          [] OTHER -> FilterFrom(Unwrap(d, n), p, i)
FilterFrom(d, p, i) ==
    IF i > Len(Kids(d, p)) THEN d
    ELSE LET c == Kids(d, p)[i] IN FilterBehind(FilterNode(d, c), c, p, i)
FilterPlain(d) == FilterFrom(d, Root, 1)

-----------------------------------------------------------------------------
(* Properties                                                              *)

\* The nodes that hang in the tree
InTree(d) == Range(Preorder(d, Root))

\* Adjacent texts are one text to the parser.
RECURSIVE Merge(_)
Merge(toks) ==
    IF Len(toks) < 2 THEN toks
    ELSE IF toks[1].k = "text" /\ toks[2].k = "text"
    THEN Merge(<<TextTok(toks[1].v \o toks[2].v)>> \o SubSeq(toks, 3, Len(toks)))
    ELSE <<Head(toks)>> \o Merge(Tail(toks))

\* setContent loses no word but those of a bookmark and doubles none, whatever
\* it does with the elements around them.
WordsAgree(d, kept) ==
    LET words == TextOf(d, Root)
        \* the text of a script is kept as an attribute
        hidden == {GetAttr(kept, n, "cdata_data") : n \in InTree(kept)} \ {""}
        marks == UNION {Range(TextOf(d, n)) : n \in {m \in InTree(d) : GetAttr(d, m, "id") = "bookmark"}}
        out == TextOf(kept, Root)
    IN  IsInjective(out) /\ Range(out) \cup hidden = Range(words) \ marks
NoWordLost == WordsAgree(t, Input(t))

\* Every element has contents of its own.  An element whose children are all
\* removed or moved is not asked again, and is left behind empty.
Solid(d) ==
    \A n \in InTree(d) :
      IsElement(d, n) /\ d[n].tag \notin EmptyTags \cup CdataTags \cup {"ul", "table", "tbody", "tr"} =>
      \E k \in Range(Kids(d, n)) :
         d[k].tag \in {"#text"} \cup EmptyTags /\ GetAttr(d, k, "src") # "data"

\* Contents that was set, read and set again is the same contents.
Set(d) == Merge(ToHtml(Input(d)))
Get(held) == Merge(ToHtml(Output(HtmlParser(held))))
SameAgain(held) == Set(HtmlParser(Get(held))) = held
ContentIsStable == Solid(t) => SameAgain(Set(t))

\* What the rules promise of the contents: no paragraph in a paragraph, no
\* division but one that stands for a script, no list in a list item, no table
\* in a cell.
Under(d, n, tags) == NearestIn(d, d[n].up, tags) # Nil
ShapeOK(d) ==
    \A n \in InTree(d) \ {Root} :
      CASE d[n].tag = "p" -> d[d[n].up].tag # "p"
        [] d[n].tag = "div" -> "cdata_tag" \in DOMAIN d[n].att
        [] d[n].tag \in {"ul", "ol"} -> ~Under(d, n, {"li"})
        [] d[n].tag = "table" -> ~Under(d, n, {"td"})
        [] OTHER -> TRUE
InputShape == Solid(t) => ShapeOK(Input(t))

\* Plain text keeps every word outside scripts, in its order, and no element
\* but paragraphs and line breaks.
SameWords(d) ==
    LET hidden == UNION {Range(TextOf(t, n)) : n \in {m \in InTree(t) : t[m].tag \in DropTags \cup CdataTags}}
    IN  /\ \A n \in InTree(d) : d[n].tag \in {"#root", "#text", "p", "br"} /\ (n # Root => HasNoAttrs(d, n))
        /\ SelectSeq(TextOf(d, Root), LAMBDA w : w # Sep)
             = SelectSeq(TextOf(t, Root), LAMBDA w : w \notin hidden)
PlainIsExact == SameWords(FilterPlain(t))
=============================================================================
