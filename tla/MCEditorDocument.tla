-------------------------- MODULE MCEditorDocument --------------------------
(***************************************************************************)
(* The parts of the editor that work on the document: the methods of the   *)
(* range, the commands on letters and on blocks, the tree of the filters   *)
(* and the parser with its rules.  They meet only in the document, so each *)
(* behaviour is about one of them, the subject; the variables of the       *)
(* others are Off.                                                         *)
(***************************************************************************)
EXTENDS Naturals, Sequences

CONSTANT Subjects   \* the parts that are looked at

VARIABLES subject,
          doc, rng, fill, act, steps, mark, list, flag,   \* document and selection
          t, gone, last, calls,                           \* tree of the filters
          count, inText, tree, cur                        \* parser

-----------------------------------------------------------------------------
(* Documents: n |-> tag, children, text, attributes                        *)

D == INSTANCE Dom
T(cs) == D!Txt(cs)
E(tag, kids) == [D!Elm(tag, {}) EXCEPT !.kids = kids]
A(tag, kids, att) == [D!Elm(tag, att) EXCEPT !.kids = kids]
Red == {<<"color", "red">>}
Linked(d) == [n \in DOMAIN d |-> [d[n] EXCEPT !.up =
                IF n = D!Body THEN D!Nil ELSE CHOOSE p \in DOMAIN d : D!Contains(d[p].kids, n)]]

\* <p>a<b>bc</b></p>
Bold == <<E("body", <<2>>), E("p", <<3, 4>>), T(<<"a">>), E("b", <<5>>), T(<<"b", "c">>)>>
\* <p><img>a</p><p><em>b</em></p>
Image == <<E("body", <<2, 5>>), E("p", <<3, 4>>), E("img", <<>>), T(<<"a">>), E("p", <<6>>),
           E("em", <<7>>), T(<<"b">>)>>
\* <p>a<strong>bc</strong></p>
Strong == <<E("body", <<2>>), E("p", <<3, 4>>), T(<<"a">>), E("strong", <<5>>), T(<<"b", "c">>)>>
\* <p>a<strong>b</strong></p>
Short == <<E("body", <<2>>), E("p", <<3, 4>>), T(<<"a">>), E("strong", <<5>>), T(<<"b">>)>>
\* <p><a href>ab</a><span style="color:red">c</span></p>
Link == <<E("body", <<2>>), E("p", <<3, 5>>), A("a", <<4>>, {<<"href", "old">>}), T(<<"a", "b">>),
          A("span", <<6>>, Red), T(<<"c">>)>>
\* <p>a</p><p>b<span style="color:red">c</span></p>
Colored == <<E("body", <<2, 4>>), E("p", <<3>>), T(<<"a">>), E("p", <<5, 6>>), T(<<"b">>),
             A("span", <<7>>, Red), T(<<"c">>)>>
\* <p style="text-align:right">a<strong>b</strong></p><h1>c</h1>
Heading == <<E("body", <<2, 6>>), A("p", <<3, 4>>, {<<"text-align", "right">>}), T(<<"a">>), E("strong", <<5>>),
             T(<<"b">>), E("h1", <<7>>), T(<<"c">>)>>
\* a<p dir="ltr">b</p>c
Loose == <<E("body", <<2, 3, 5>>), T(<<"a">>), A("p", <<4>>, {<<"dir", "ltr">>}), T(<<"b">>), T(<<"c">>)>>
\* <blockquote><p>a</p><p>b</p></blockquote><p>c</p>
Quoted == <<E("body", <<2, 7>>), E("blockquote", <<3, 5>>), E("p", <<4>>), T(<<"a">>), E("p", <<6>>), T(<<"b">>),
            E("p", <<8>>), T(<<"c">>)>>
\* <ul><li>a</li><li><p>b</p></li></ul><p>c</p>
List == <<E("body", <<2, 7>>), E("ul", <<3, 5>>), E("li", <<4>>), T(<<"a">>), E("li", <<6>>), E("p", <<9>>),
          E("p", <<8>>), T(<<"c">>), T(<<"b">>)>>
AllOf(docs) == {Linked(d) : d \in docs}

Range == INSTANCE EditorRange WITH Webkit <- TRUE, MaxSteps <- 2, Docs <- AllOf({Bold, Image}), StyleTags <- {<<"b", {}>>}
Inline == INSTANCE InlineFormat WITH Webkit <- TRUE, MaxSteps <- 1, Docs <- AllOf({Strong, Link, Colored}),
             BaseTags <- {"strong", "sub"}, Colors <- {"blue"}
Match == INSTANCE InlineFormat WITH Webkit <- TRUE, MaxSteps <- 2, Docs <- AllOf({Short}),
             BaseTags <- {"strong"}, Colors <- {"blue"}
Block == INSTANCE BlockFormat WITH Webkit <- TRUE, MaxSteps <- 1, Docs <- AllOf({Heading, Loose, Quoted, List}),
             ParagraphTags <- {"p", "h1"}
Calls == INSTANCE UNodeCalls WITH Tags <- <<"p", "b", "br">>, MaxNodes <- 6, MaxCalls <- 4, count <- calls

-----------------------------------------------------------------------------
(* Contents, as tokens                                                     *)

U == INSTANCE UNode
Plain(tag) == U!OpenTok(tag, U!NoAttrs, <<>>)
With(tag, a, v) == U!OpenTok(tag, [x \in {a} |-> v], <<>>)
BlockOpens == {With("p", "align", "center"), Plain("div")}
ListOpens == {Plain("li"), Plain("ul"), Plain("p")}
TableOpens == {Plain("table"), Plain("td"), Plain("div")}
InlineOpens == {Plain("p"), Plain("span"), Plain("b"), With("span", "id", "bookmark"),
                U!OpenTok("span", U!NoAttrs, <<<<"white-space", "nowrap">>>>), With("a", "href", "u"),
                With("img", "src", "u"), With("img", "src", "data"), Plain("script")}

Blocks == INSTANCE HtmlFilter WITH Opens <- BlockOpens, Comments <- {}, MaxTokens <- 6, t <- tree
Lists == INSTANCE HtmlFilter WITH Opens <- ListOpens, Comments <- {}, MaxTokens <- 5, t <- tree
Tables == INSTANCE HtmlFilter WITH Opens <- TableOpens, Comments <- {}, MaxTokens <- 5, t <- tree
Inlines == INSTANCE HtmlFilter WITH Opens <- InlineOpens, Comments <- {U!CommentTok(<<"c">>)}, MaxTokens <- 4, t <- tree

-----------------------------------------------------------------------------

Off == "off"
frame == <<doc, rng, fill, act, steps>>
document == <<frame, mark, list, flag>>
nodes == <<t, gone, last, calls>>
parser == <<count, inText, tree, cur>>
vars == <<subject, document, nodes, parser>>

NoDocument == doc = Off /\ rng = Off /\ fill = Off /\ act = <<Off>> /\ steps = 0
NoMark == mark = Off
NoMatch == list = Off /\ flag = Off
NoNodes == t = Off /\ gone = {} /\ last = <<>> /\ calls = 0
NoParser == count = 0 /\ inText = Off /\ tree = Off /\ cur = Off

OnDocument == subject \in {"range", "letters", "match", "blocks"}
OnContents == subject \in {"html blocks", "html lists", "html tables", "html inline"}

Init ==
    /\ subject \in Subjects
    /\ \/ subject = "range" /\ Range!Init /\ NoMatch
       \/ subject = "letters" /\ Inline!Init /\ NoMark
       \/ subject = "match" /\ Match!Init /\ NoMark
       \/ subject = "blocks" /\ Block!Init /\ NoMark /\ NoMatch
       \/ ~OnDocument /\ NoDocument /\ NoMark /\ NoMatch
    /\ IF subject = "nodes" THEN Calls!Init ELSE NoNodes
    /\ IF OnContents THEN Blocks!Init ELSE NoParser

RangeSteps == subject = "range" /\ Range!Next /\ UNCHANGED <<subject, list, flag, nodes, parser>>
LetterSteps == subject = "letters" /\ Inline!Next /\ UNCHANGED <<subject, mark, nodes, parser>>
MatchSteps == subject = "match" /\ Match!Next /\ UNCHANGED <<subject, mark, nodes, parser>>
BlockSteps == subject = "blocks" /\ Block!Next /\ UNCHANGED <<subject, mark, list, flag, nodes, parser>>
NodeSteps == subject = "nodes" /\ Calls!Next /\ UNCHANGED <<subject, document, parser>>
ParserSteps ==
    /\ \/ subject = "html blocks" /\ Blocks!Next
       \/ subject = "html lists" /\ Lists!Next
       \/ subject = "html tables" /\ Tables!Next
       \/ subject = "html inline" /\ Inlines!Next
    /\ UNCHANGED <<subject, document, nodes>>

Next == RangeSteps \/ LetterSteps \/ MatchSteps \/ BlockSteps \/ NodeSteps \/ ParserSteps
Spec == Init /\ [][Next]_vars

-----------------------------------------------------------------------------
(* Properties                                                              *)

\* The methods of dom.Range, called in any order: the range stays inside the document
\* with its end not before its start, and nothing throws but on mixed ranges; methods
\* that only move an end keep what is covered; deleteContents, extractContents and
\* cloneContents take exactly what is selected; a bookmark and an address lead back to
\* their place; applyInlineStyle and removeInlineStyle reach the selected letters only.
RangeIsExact ==
    /\ [](subject = "range" => Range!TypeOK /\ Range!RangeStaysSane)
    /\ [][subject = "range" /\ ~Range!Mixed(doc, rng) => act'[1] # "throws"]_document
    /\ Range!MoveKeepsSelection /\ Range!ContentsAreExact
    /\ Range!BookmarkKeepsPlace /\ Range!ReloadKeepsPlace
    /\ Range!StyleIsExact /\ Range!UnstyleIsExact

\* A command on letters changes no text, keeps the selection and reaches exactly what
\* it is for: bold toggles the selected letters, a colour those without their own,
\* removeformat all of them, a link takes in the links it meets, and formatmatch gives
\* the next selection the format of the first, whatever runs in between.
LettersAreExact ==
    /\ [](subject \in {"letters", "match"} => Inline!TypeOK)
    /\ [][/\ subject \in {"letters", "match"} => Inline!KeepsSelection
          /\ subject = "letters" /\ act'[1] = "throws" => act'[2] = "default"]_document
    /\ Inline!ToggleIsExact /\ Inline!ColorIsExact /\ Inline!ClearIsExact
    /\ Inline!LinkIsExact /\ Inline!MatchIsExact

\* A command on blocks changes no text, keeps the selection, and aligns, retags or
\* quotes exactly the blocks that the selection touches, no block twice.
BlocksAreExact ==
    /\ [](subject = "blocks" => Block!TypeOK)
    /\ [][subject = "blocks" => Block!KeepsSelection]_document
    /\ Block!AlignIsExact /\ Block!ParagraphIsExact /\ Block!QuoteIsExact

\* setContent loses no word and doubles none; contents set, read and set again is the
\* same; the input rules leave no paragraph in a paragraph, no list in a list item and
\* no table in a cell; plain pasting keeps every word in its order.  Throughout, every
\* uNode is in the list of exactly the node it points to, and where it was inserted.
ContentSurvives ==
    /\ [](OnContents => /\ Blocks!NoWordLost /\ Blocks!ContentIsStable
                        /\ Blocks!InputShape /\ Blocks!PlainIsExact)
    /\ [](subject = "nodes" => Calls!ParentsAgree /\ Calls!SiblingsAgree)
    /\ Calls!InsertsAreExact
=============================================================================
