---------------------------- MODULE EditorFrame ----------------------------
(***************************************************************************)
(* A document in the editor and the selection in it, as the commands find  *)
(* them: the selection at the start is a cursor anywhere in a loaded       *)
(* document or covers some content.  The modules of the commands extend    *)
(* this one.                                                               *)
(***************************************************************************)
EXTENDS DomRange

CONSTANTS Docs,       \* the documents at the start
          MaxSteps    \* bound: commands

VARIABLES doc, rng,
          fill,       \* fillData, the text node with the last filling character
          act,        \* history: the last command and its argument
          steps

frame == <<doc, rng, fill, act, steps>>

Points(d) == UNION {{<<n, o>> : o \in 0 .. Size(d, n)} : n \in {n \in DOMAIN d : ~Closed(d, n)}}

InitFrame ==
    /\ doc \in Docs
    /\ \E a, b \in Points(doc) :
          /\ a = b \/ Len(ContentBefore(doc, a[1], a[2])) < Len(ContentBefore(doc, b[1], b[2]))
          /\ rng = Rng(a[1], a[2], b[1], b[2])
    /\ fill = Nil
    /\ act = <<"open">>
    /\ steps = 0

S == On(doc, rng)
Failed == act[1] = "throws"
Ready == ~Failed /\ steps < MaxSteps

\* Nodes that are no longer in the document are forgotten.
Number(d, n) == IF n \in DOMAIN Numbers(d) THEN Numbers(d)[n] ELSE Nil
Install(s, newFill, name) ==
    /\ doc' = Renumbered(s.d)
    /\ rng' = [s.r EXCEPT !.sc = Number(s.d, @), !.ec = Number(s.d, @)]
    /\ fill' = Number(s.d, newFill)
    /\ act' = name
    /\ steps' = steps + 1

\* The end of a command that ended with range.select(), or threw
Command(s, name) ==
    Install(s, IF s.ok THEN s.out ELSE fill, IF s.ok THEN name ELSE <<"throws", name[1]>>)
Filling == [fill |-> fill, noFill |-> FALSE]
NoFilling == [fill |-> fill, noFill |-> TRUE]

\* selection.getRange: a cursor at the very front of the body moves to the
\* innermost first element.
RECURSIVE Optimize(_, _)
Optimize(s, n) ==
    IF n # Nil /\ FirstChild(s.d, n) # Nil THEN Optimize(SetStart(s, n, 0), FirstChild(s.d, n)) ELSE s
RangeOf(s) ==
    IF s.r.collapsed /\ IsBody(s.r.sc) /\ s.r.so = 0
    THEN Collapse(Optimize(s, FirstChild(s.d, Body)), TRUE) ELSE s
GetRange == RangeOf(S)

\* selection.getStart and getStartElementPath
Element(d, n) == IF IsText(d, n) THEN Parent(d, n) ELSE n
StartElement(s) ==
    LET n == s.r.sc
        kids == s.d[n].kids
    IN  Element(s.d, IF IsElem(s.d, n) /\ kids # <<>> THEN Child(s.d, n, Min({Len(kids) - 1, s.r.so})) ELSE n)
GetStart(s) == StartElement(ShrinkBoundary(s, FALSE))
InPath(s, tags) == FindParentByTagName(s.d, GetStart(s), tags, TRUE)

CursorAt(s, n) == Collapse(SetStartBefore(s, n), TRUE)
WithoutNode(s, n) == Tree(s, RemoveNode(s.d, n))

-----------------------------------------------------------------------------
(* What the properties speak of                                            *)

Before(d, r) == ContentBefore(d, r.sc, r.so)
UpToEnd(d, r) == ContentBefore(d, r.ec, r.eo)
Selected(d, r) == SubSeq(Content(d, Body), Len(Before(d, r)) + 1, Len(UpToEnd(d, r)))
Rest(d, r) == LET all == Content(d, Body)
              IN  SubSeq(all, 1, Len(Before(d, r))) \o SubSeq(all, Len(UpToEnd(d, r)) + 1, Len(all))
UpTo(d, n) == ContentBefore(d, Parent(d, n), Index(d, n))
Letters(d) == Range(Content(d, Body)) \ {"img", "br"}
TagsOf(d, c) == {s.tag : s \in Styles(d, c)}
SameContent == Content(doc', Body) = Content(doc, Body)
SamePlace == /\ SameContent
             /\ Before(doc', rng') = Before(doc, rng)
             /\ UpToEnd(doc', rng') = UpToEnd(doc, rng)

\* The document is a tree under its body, in which the selection lies.
TreeOK ==
    /\ doc[Body].tag = "body" /\ doc[Body].up = Nil
    /\ \A n \in DOMAIN doc \ {Body} :
          {p \in DOMAIN doc : Contains(doc[p].kids, n)} = {doc[n].up}
    /\ {rng.sc, rng.ec} \subseteq DOMAIN doc
    /\ fill \in DOMAIN doc \cup {Nil}
RangeOK ==
    /\ rng.so \in 0 .. Size(doc, rng.sc)
    /\ rng.eo \in 0 .. Size(doc, rng.ec)
    /\ Len(Before(doc, rng)) <= Len(UpToEnd(doc, rng))
=============================================================================
