------------------------------- MODULE UNode -------------------------------
(***************************************************************************)
(* The editor's own document tree (UE.uNode), in which contents is parsed, *)
(* filtered and written out.  Every node has a list of children and,       *)
(* separately, a pointer to its parent; the operations keep the two in     *)
(* step themselves.                                                        *)
(*                                                                         *)
(* A tree is a function from node numbers to nodes; node 1 is the root.    *)
(* HTML is a sequence of tokens, a text a sequence of words.  The escaping *)
(* of entities, blanks and the indentation of toHtml(true) are left out.   *)
(***************************************************************************)
EXTENDS Naturals, Sequences, FiniteSets, FiniteSetsExt, SequencesExt, Functions, TLC

Nil == 0
Root == 1
NoAttrs == [a \in {} |-> ""]

-----------------------------------------------------------------------------
(* dtd                                                                     *)

EmptyTags == {"br", "img", "hr", "input"}
CdataTags == {"script", "style"}
\* $inline: 'a' is not in it
InlineTags == {"b", "span", "i", "em", "strong", "br", "img", "script", "style"}
BlockTags == {"p", "div", "ul", "ol", "dl", "table", "h1", "pre", "blockquote", "hr"}

-----------------------------------------------------------------------------
(* Nodes                                                                   *)

Node(tag, data, att, style) ==
    [tag |-> tag, up |-> Nil, kids |-> <<>>, data |-> data, att |-> att, style |-> style]
CreateElement(tag) == Node(tag, <<>>, NoAttrs, <<>>)
CreateText(data) == Node("#text", data, NoAttrs, <<>>)
NewComment(data) == Node("#comment", data, NoAttrs, <<>>)
NewTree == <<Node("#root", <<>>, NoAttrs, <<>>)>>

IsElement(t, n) == t[n].tag \notin {"#root", "#text", "#comment"}
IsText(t, n) == t[n].tag = "#text"
MayHaveChildren(t, n) == t[n].tag \notin {"#text", "#comment"} \cup EmptyTags
Fresh(t) == Max(DOMAIN t) + 1
With(t, node) == (Fresh(t) :> node) @@ t

Kids(t, n) == t[n].kids
FirstChild(t, n) == IF Kids(t, n) = <<>> THEN Nil ELSE Head(Kids(t, n))
LastChild(t, n) == IF Kids(t, n) = <<>> THEN Nil ELSE Last(Kids(t, n))
\* The place of n among the children of p, 0 if it is none of them
Place(t, p, n) ==
    IF n \in Range(Kids(t, p)) THEN CHOOSE i \in DOMAIN Kids(t, p) :
          Kids(t, p)[i] = n /\ \A j \in 1 .. i - 1 : Kids(t, p)[j] # n
    ELSE 0
GetIndex(t, n) == Place(t, t[n].up, n) - 1
NextSibling(t, n) ==
    LET i == Place(t, t[n].up, n)
    IN  IF i = 0 \/ i = Len(Kids(t, t[n].up)) THEN Nil ELSE Kids(t, t[n].up)[i + 1]
PreviousSibling(t, n) ==
    LET i == Place(t, t[n].up, n) IN IF i <= 1 THEN Nil ELSE Kids(t, t[n].up)[i - 1]

SetKids(t, n, ks) == [t EXCEPT ![n].kids = ks]
SetUp(t, S, p) == [n \in DOMAIN t |-> IF n \in S THEN [t[n] EXCEPT !.up = p] ELSE t[n]]

-----------------------------------------------------------------------------
(* Changes of the tree                                                     *)

\* The node that is removed still lists the children that are kept.
RemoveChild(t, p, n, keep) ==
    LET i == Place(t, p, n)
        pre == SubSeq(Kids(t, p), 1, i - 1)
        post == SubSeq(Kids(t, p), i + 1, Len(Kids(t, p)))
        kept == IF keep THEN Kids(t, n) ELSE <<>>
    IN  IF i = 0 THEN t
        ELSE SetUp(SetUp(SetKids(t, p, pre \o kept \o post), {n}, Nil), Range(kept), p)

Unlink(t, n) == IF t[n].up = Nil THEN t ELSE RemoveChild(t, t[n].up, n, FALSE)
PutAt(t, p, i, n) == SetUp(SetKids(t, p, InsertAt(Kids(t, p), i, n)), {n}, p)

PutLast(t, p, n) == PutAt(t, p, Len(Kids(t, p)) + 1, n)
Without(t, p, n) == SetKids(t, p, SelectSeq(Kids(t, p), LAMBDA k : k # n))
AppendChild(t, p, n) ==
    IF ~MayHaveChildren(t, p) THEN t ELSE PutLast(Without(Unlink(t, n), p, n), p, n)

\* target is taken out first: if source is not a child of p it stays out
PutBeside(t, p, target, source, after) ==
    LET i == Place(t, p, source) IN IF i = 0 THEN t ELSE PutAt(t, p, i + after, target)
InsertBefore(t, p, target, source) == PutBeside(Unlink(t, target), p, target, source, 0)
InsertAfter(t, p, target, source) == PutBeside(Unlink(t, target), p, target, source, 1)

PutInPlace(t, p, target, source) ==
    LET i == Place(t, p, source) IN
    IF i = 0 THEN t
    ELSE SetUp(SetUp(SetKids(t, p, [Kids(t, p) EXCEPT ![i] = target]), {source}, Nil), {target}, p)
ReplaceChild(t, p, target, source) == PutInPlace(Unlink(t, target), p, target, source)

\* The children leave; nodes are the leaves that the text was parsed to.
RECURSIVE AppendAll(_, _, _)
AppendAll(t, p, nodes) ==
    IF nodes = <<>> THEN t
    ELSE AppendAll(AppendChild(With(t, Head(nodes)), p, Fresh(t)), p, Tail(nodes))
SetInner(t, n, nodes) ==
    IF ~IsElement(t, n) \/ t[n].tag \in EmptyTags THEN t
    ELSE AppendAll(SetKids(SetUp(t, Range(Kids(t, n)), Nil), n, <<>>), n, nodes)
InnerHTML(t, n, nodes) == SetInner(t, n, nodes)
InnerText(t, n, data) == SetInner(t, n, <<CreateText(data)>>)

-----------------------------------------------------------------------------
(* Attributes and styles                                                   *)

GetAttr(t, n, a) == IF a \in DOMAIN t[n].att THEN t[n].att[a] ELSE ""
SetAttr(t, n, a, v) ==
    [t EXCEPT ![n].att = IF v = "" THEN [b \in DOMAIN @ \ {a} |-> @[b]] 
                           ELSE [b \in DOMAIN @ \cup {a} |-> IF b = a THEN v ELSE @[b]]]
\* setAttr()
ClearAttrs(t, n) == [t EXCEPT ![n].att = NoAttrs, ![n].style = <<>>]
HasNoAttrs(t, n) == DOMAIN t[n].att = {} /\ t[n].style = <<>>

GetStyle(t, n, name) ==
    LET s == SelectSeq(t[n].style, LAMBDA d : d[1] = name) IN IF s = <<>> THEN "" ELSE s[1][2]
\* The match takes the semicolon along, so the declaration after one that is
\* removed is not looked at.
RECURSIVE RemoveDecls(_, _)
RemoveDecls(style, name) ==
    IF style = <<>> THEN <<>>
    ELSE IF Head(style)[1] # name THEN <<Head(style)>> \o RemoveDecls(Tail(style), name)
    ELSE IF Len(style) = 1 THEN <<>>
    ELSE <<style[2]>> \o RemoveDecls(SubSeq(style, 3, Len(style)), name)
SetStyle(t, n, name, v) ==
    [t EXCEPT ![n].style = (IF v = "" THEN <<>> ELSE <<<<name, v>>>>) \o RemoveDecls(@, name)]

-----------------------------------------------------------------------------
(* Walks                                                                   *)

RECURSIVE Preorder(_, _)
Preorder(t, n) == <<n>> \o FlattenSeq([i \in DOMAIN Kids(t, n) |-> Preorder(t, Kids(t, n)[i])])
Below(t, n) == Tail(Preorder(t, n))
\* One walk for each name
GetNodesByTagName(t, n, tags) ==
    FlattenSeq([i \in DOMAIN tags |-> SelectSeq(Below(t, n), LAMBDA k : t[k].tag = tags[i])])

\* toHtml
OpenTok(tag, att, style) == [k |-> "open", v |-> tag, att |-> att, style |-> style]
CloseTok(tag) == [k |-> "close", v |-> tag]
TextTok(data) == [k |-> "text", v |-> data]
CommentTok(data) == [k |-> "comment", v |-> data]
RECURSIVE NodeToHtml(_, _)
NodeToHtml(t, n) ==
    LET inner == FlattenSeq([i \in DOMAIN Kids(t, n) |-> NodeToHtml(t, Kids(t, n)[i])])
        nd == t[n]
    IN  CASE nd.tag = "#root" -> inner
          [] nd.tag = "#text" -> IF nd.data = <<>> THEN <<>> ELSE <<TextTok(nd.data)>>
          [] nd.tag = "#comment" -> <<CommentTok(nd.data)>>
          [] OTHER -> <<OpenTok(nd.tag, nd.att, nd.style)>> \o inner
                       \o (IF nd.tag \in EmptyTags THEN <<>> ELSE <<CloseTok(nd.tag)>>)
ToHtml(t) == NodeToHtml(t, Root)
\* innerText() without an argument
TextOf(t, n) == LET h == SelectSeq(NodeToHtml(t, n), LAMBDA k : k.k = "text")
                IN  FlattenSeq([i \in DOMAIN h |-> h[i].v])
=============================================================================
