----------------------------- MODULE UNodeCalls -----------------------------
(***************************************************************************)
(* The operations of uNode called in every order, as the filters and       *)
(* plugins call them: a node is not put below itself, and a node that was  *)
(* removed with its children kept is not used again.                       *)
(***************************************************************************)
EXTENDS UNode

CONSTANTS Tags,       \* the tags of the nodes that exist, in a sequence
          MaxNodes,   \* bound: nodes, new texts included
          MaxCalls    \* bound: calls

VARIABLES t,          \* the tree, and what is not attached to it
          gone,       \* nodes that are not used again
          last,       \* history: the insertion that was called, or none
          count       \* calls
vars == <<t, gone, last, count>>

Init ==
    /\ t = [n \in 1 .. Len(Tags) + 1 |-> IF n = Root THEN NewTree[1] ELSE CreateElement(Tags[n - 1])]
    /\ gone = {} /\ last = <<>> /\ count = 0

Live == DOMAIN t \ gone
\* target may be put below p
Fits(p, target) == p \in Live /\ target \in Live \ {Root} /\ p \notin Range(Preorder(t, target))

Append1(p, n) == Fits(p, n) /\ t' = AppendChild(t, p, n) /\ UNCHANGED gone /\ last' = <<>>
Before(p, target, source) ==
    /\ Fits(p, target) /\ source \in Range(Kids(t, p)) /\ source # target
    /\ t' = InsertBefore(t, p, target, source) /\ UNCHANGED gone /\ last' = <<p, target, source>>
After(p, target, source) ==
    /\ Fits(p, target) /\ source \in Range(Kids(t, p)) /\ source # target
    /\ t' = InsertAfter(t, p, target, source) /\ UNCHANGED gone /\ last' = <<p, source, target>>
Replace(p, target, source) ==
    /\ Fits(p, target) /\ source \in Range(Kids(t, p)) /\ source # target
    /\ t' = ReplaceChild(t, p, target, source) /\ UNCHANGED gone /\ last' = <<>>
Take(n) ==
    /\ n \in Live /\ t[n].up # Nil
    /\ t' = RemoveChild(t, t[n].up, n, FALSE) /\ UNCHANGED gone /\ last' = <<>>
RemoveKeeping(n) ==
    /\ n \in Live /\ t[n].up # Nil
    /\ t' = RemoveChild(t, t[n].up, n, TRUE) /\ gone' = gone \cup {n} /\ last' = <<>>
SetText(n) ==
    /\ n \in Live /\ Cardinality(DOMAIN t) < MaxNodes
    /\ t' = InnerText(t, n, <<"w">>) /\ UNCHANGED gone /\ last' = <<>>
SetHtml(n) ==
    /\ n \in Live /\ Cardinality(DOMAIN t) + 2 <= MaxNodes
    /\ t' = InnerHTML(t, n, <<CreateElement("br"), CreateText(<<"w">>)>>) /\ UNCHANGED gone /\ last' = <<>>

Next ==
    /\ count < MaxCalls /\ count' = count + 1
    /\ \E n \in Live :
         \/ Take(n) \/ RemoveKeeping(n) \/ SetText(n) \/ SetHtml(n)
         \/ \E p \in Live : \/ Append1(p, n)
                            \/ \E s \in Live : Before(p, n, s) \/ After(p, n, s) \/ Replace(p, n, s)
Spec == Init /\ [][Next]_vars

-----------------------------------------------------------------------------
(* Properties                                                              *)

\* A node is in the list of exactly the node it points to, once; nothing hangs
\* below a text or a void element.
ParentsAgree ==
    \A n \in Live : /\ IsInjective(Kids(t, n)) /\ (Kids(t, n) # <<>> => MayHaveChildren(t, n))
                    /\ \A k \in Live : k \in Range(Kids(t, n)) <=> t[k].up = n

\* The walks along the siblings are inverse to each other and to the indices.
SiblingsAgree ==
    \A n \in Live \ {Root} : t[n].up # Nil =>
      /\ LET m == NextSibling(t, n) IN m # Nil => /\ PreviousSibling(t, m) = n
                                                  /\ GetIndex(t, m) = GetIndex(t, n) + 1
      /\ (NextSibling(t, n) = Nil <=> LastChild(t, t[n].up) = n)

\* A node that is inserted next to another stands there, also when the two were
\* children of one node before; the others keep their order.
Others(d, p, S) == SelectSeq(Kids(d, p), LAMBDA k : k \notin S)
InsertsAreExact ==
    [][last' # <<>> =>
         LET p == last'[1] first == last'[2] second == last'[3] IN
         /\ NextSibling(t', first) = second
         /\ Others(t', p, {first, second}) = Others(t, p, {first, second})]_vars
=============================================================================
