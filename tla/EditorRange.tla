---------------------------- MODULE EditorRange ----------------------------
(***************************************************************************)
(* A document, the editor's range over it, and the commands of the editor  *)
(* calling the methods of the range one after another.  The documents and  *)
(* the range at the start are those of a user who selected something in a  *)
(* loaded document; a bookmark or an address taken in one step is used in  *)
(* a later one, after other methods have changed the tree.                 *)
(***************************************************************************)
EXTENDS EditorFrame

CONSTANT StyleTags    \* tags that are applied and removed

VARIABLE mark         \* a bookmark that is in the document, as [start, end]

vars == <<frame, mark>>

NoMark == [start |-> Nil, end |-> Nil]

Init == InitFrame /\ mark = NoMark

-----------------------------------------------------------------------------

\* enlarge(true) can leave the flag of a cursor between blocks FALSE; behaviours
\* are followed no further than that.
FlagIsRight == rng.collapsed <=> (rng.sc = rng.ec /\ rng.so = rng.eo)

\* The boundary lies between two text nodes side by side.
InsideRun(d, c, o) == /\ IsElem(d, c) /\ o > 0 /\ Child(d, c, o) # Nil
                      /\ IsText(d, Child(d, c, o)) /\ IsText(d, Child(d, c, o - 1))

\* The calls that a command makes: a method and its argument.  The fragment of
\* extractContents is put back where the range then is, as removeInlineStyle
\* does.  To reload is to take an address, write the document out, parse it again
\* and go to the address.  (An address cannot tell a place between two text nodes
\* side by side from the front of the first; such ranges are left out.)
Moves == {<<"shrinkBoundary", FALSE>>, <<"trimBoundary", FALSE>>, <<"txtToElmBoundary", TRUE>>,
          <<"adjustmentBoundary", Nil>>, <<"enlarge", [toBlock |-> FALSE, stop |-> {}]>>}
Widenings == {<<"enlarge", [toBlock |-> TRUE, stop |-> {}]>>, <<"enlargeToBlockElm", FALSE>>}
Letter == "x"
Calls ==
    Moves \cup Widenings
      \cup {<<"deleteContents", Nil>>}
      \cup {<<m, Nil>> : m \in IF rng.collapsed THEN {} ELSE {"cloneContents", "extractContents"}}
      \cup {<<"insertText", c>> : c \in {Letter} \ Range(Content(doc, Body))}
      \cup {<<"createBookmark", Nil>> : m \in {mark} \cap {NoMark}}
      \cup {<<"moveToBookmark", m>> : m \in {mark} \ {NoMark}}
      \cup {<<"applyInlineStyle", OneStyle(t[1], t[2])>> : t \in StyleTags}
      \cup {<<"removeInlineStyle", {t[1]}>> : t \in StyleTags}
      \cup {<<"select", f>> : f \in {Filling, NoFilling}}
      \cup {<<"reload", Nil>> : n \in IF InsideRun(doc, rng.sc, rng.so) \/ InsideRun(doc, rng.ec, rng.eo) THEN {} ELSE {Nil}}

RECURSIVE Exec(_, _, _)
PutBack(s) == IF s.ok THEN Exec(s, "insertNode", s.out) ELSE s
Exec(s, method, a) ==
    CASE method = "shrinkBoundary" -> ShrinkBoundary(s, a)
      [] method = "txtToElmBoundary" -> TxtToElmBoundary(s, a)
      [] method = "adjustmentBoundary" -> AdjustmentBoundary(s)
      [] method = "enlargeToBlockElm" -> EnlargeToBlockElm(s, a)
      [] method = "cloneContents" -> Exec(s, "contents", FALSE)
      [] method = "extractContents" -> PutBack(Exec(s, "contents", TRUE))
      [] method = "insertText" -> Exec(Tree(s, With(s.d, Txt(<<a>>))), "insertNode", FreshNode(s.d))
      [] method = "moveToBookmark" -> MoveToBookmark(s, a)
      [] method = "reload" -> MoveToAddress(Tree(s, Reparsed(s.d)), CreateAddress(s, TRUE))
      [] OTHER -> Do(s, method, a)

MarkAfterCall(c, s) ==
    IF c[1] = "createBookmark" THEN s.out ELSE IF c[1] = "moveToBookmark" THEN NoMark ELSE mark
Invoke(c, s) ==
    LET m == MarkAfterCall(c, s)
    IN  /\ Install(s, IF c[1] = "select" THEN s.out ELSE fill,
                   IF ~s.ok THEN <<"throws">>
                   ELSE IF c[1] = "cloneContents" THEN <<c[1], Content(s.d, s.out)>>
                   ELSE IF c[1] \in {"select", "moveToBookmark"} THEN <<c[1]>> ELSE c)
        /\ mark' = [start |-> Number(s.d, m.start), end |-> Number(s.d, m.end)]

Step == \E c \in Calls : Invoke(c, Exec(S, c[1], c[2]))
Next == Ready /\ FlagIsRight /\ Step

Spec == Init /\ [][Next]_vars

-----------------------------------------------------------------------------
(* Properties                                                              *)

\* One end is an offset into an element, and the other lies in the text node there.
Mixed(d, r) ==
    LET at(c, o) == IF IsText(d, c) THEN c ELSE Child(d, c, o)
        n == at(r.sc, r.so)
    IN  n # Nil /\ n = at(r.ec, r.eo) /\ IsText(d, n) /\ r.sc # r.ec
CleanTexts(d) == \A n \in DOMAIN d : IsText(d, n) => d[n].txt # <<>> /\ ~Contains(d[n].txt, Fill)

\* The document stays a tree under its body, with the range, the bookmark and the
\* filling text in it.
TypeOK == TreeOK /\ {mark.start, mark.end} \subseteq DOMAIN doc \cup {Nil}

\* Whatever methods are called in whatever order, the offsets of the range lie
\* within their containers and the end never comes before the start, although
\* only one end is moved at a time and text nodes are split under the other one
\* (setEndPoint, trimBoundary, insertNode).
RangeStaysSane == Failed \/ RangeOK

\* shrinkBoundary, trimBoundary, txtToElmBoundary, adjustmentBoundary and
\* enlarge(false) change how the range is written down, not what it covers: the
\* same letters and images are before it and in it; so does select, which may put
\* a filling character into the document and remove the last one.
MoveKeepsSelection ==
    [][act' \in Moves \/ act'[1] = "select" => SamePlace]_vars

\* deleteContents removes exactly the selected content and leaves the cursor in
\* its place; extractContents and insertNode give the same content again;
\* cloneContents copies exactly the selection and leaves the document alone.
\* Mixed ranges are the exception.
ContentsAreExact ==
    [][act'[1] \in {"deleteContents", "extractContents", "cloneContents"} /\ ~Mixed(doc, rng) =>
         /\ act'[1] = "deleteContents" => Content(doc', Body) = Rest(doc, rng) /\ Before(doc', rng') = Before(doc, rng)
         /\ act'[1] = "extractContents" => Content(doc', Body) = Content(doc, Body)
         /\ act'[1] = "cloneContents" => act'[2] = Selected(doc, rng) /\ Content(doc', Body) = Content(doc, Body)]_vars

\* A bookmark does not disturb the content or the range (createBookmark), and
\* the range returns to where the marks are by then, whatever was moved, split,
\* wrapped or deleted around them (moveToBookmark).
BookmarkKeepsPlace ==
    [][/\ act'[1] = "createBookmark" => SamePlace
       /\ act'[1] = "moveToBookmark" =>
             /\ Content(doc', Body) = Content(doc, Body)
             /\ Before(doc', rng') = UpTo(doc, mark.start)
             /\ UpToEnd(doc', rng') = UpTo(doc, IF mark.end = Nil THEN mark.start ELSE mark.end)]_vars

\* applyInlineStyle puts every selected letter, and no other, inside the tag,
\* takes no other formatting away and loses no content while it cuts the tree
\* apart and merges it again.
StyleIsExact ==
    [][act'[1] = "applyInlineStyle" =>
         /\ Content(doc', Body) = Content(doc, Body)
         /\ \A c \in Letters(doc) :
              TagsOf(doc', c) = TagsOf(doc, c) \cup
                  (IF Contains(Selected(doc, rng), c) THEN {act'[2].list[1].tag} ELSE {})]_vars

\* removeInlineStyle takes the tag off every selected letter and off no other,
\* also where the selection begins or ends inside the element.
UnstyleIsExact ==
    [][act'[1] = "removeInlineStyle" =>
         /\ Content(doc', Body) = Content(doc, Body)
         /\ \A c \in Letters(doc) :
              TagsOf(doc', c) = TagsOf(doc, c) \
                  (IF Contains(Selected(doc, rng), c) THEN act'[2] ELSE {})]_vars

\* An address leads back to the same place in the document that is parsed again
\* from its markup, where texts side by side have become one, provided no text
\* node is empty or holds a filling character.
ReloadKeepsPlace == [][act'[1] = "reload" /\ CleanTexts(doc) => SamePlace]_vars
=============================================================================
