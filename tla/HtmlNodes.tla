------------------------------ MODULE HtmlNodes -----------------------------
(***************************************************************************)
(* MyHtmlNode and GumboHtmlNode: the two implementations of IHtmlNode, by  *)
(* their walks over the trees of the libraries myhtml and gumbo, which are *)
(* external.  A document gives each of its nodes, numbered in document     *)
(* order, a parent and a tag.  Of nodes that are no elements the tag is    *)
(* the kind gumbo gives them; myhtml has one kind of node, and tells them  *)
(* by tags of its own.  Attributes are looked up by the libraries; the     *)
(* text of a text node is the number of the node, and a predicate on nodes *)
(* the set of those it holds of.  Both libraries are taken to make the     *)
(* same tree of a page.                                                    *)
(***************************************************************************)
EXTENDS Integers, Sequences, FiniteSets, SequencesExt, Lists

CONSTANTS
  MyHtmlTags,      \* the tags that s_tagIdMapping of MyHtmlNode knows
  MyHtmlTexts      \* the kinds of leaves whose tag is MyHTML_TAG__TEXT

NoNode == 0
TextKind == "text"           \* GUMBO_NODE_TEXT
TemplateTag == "template"    \* GUMBO_NODE_TEMPLATE
Leaves == {TextKind, "whitespace", "comment", "cdata"}

ASSUME KindsAssumption ==
  /\ {TextKind, "whitespace"} \subseteq MyHtmlTexts
  /\ MyHtmlTexts \subseteq Leaves
  /\ MyHtmlTags \cap Leaves = {}

Nodes(d) == DOMAIN d.parent
IsLeaf(d, n) == d.tag[n] \in Leaves
IsText(d, n) == d.tag[n] = TextKind
IsTemplate(d, n) == d.tag[n] = TemplateTag
IsElement(d, n) == ~IsLeaf(d, n) /\ ~IsTemplate(d, n)   \* GUMBO_NODE_ELEMENT
ChildSet(d, n) == {m \in Nodes(d) : d.parent[m] = n}
First(S) == IF S = {} THEN NoNode ELSE CHOOSE m \in S : \A k \in S : m <= k

(* A tree in document order, the list of its nodes' parents: between a     *)
(* node and one below it are only nodes below the first.                   *)
IsDocument(d) ==
  /\ d.parent \in Seq(Nat) /\ d.parent # <<>>
  /\ \A n \in Nodes(d) :
       /\ d.parent[n] < n
       /\ d.parent[n] = NoNode <=> n = 1
       /\ IsLeaf(d, n) => ChildSet(d, n) = {}
  /\ \A n, k \in Nodes(d) :
       d.parent[n] < k /\ k < n => d.parent[n] <= d.parent[k]

(* myhtml_node_child, myhtml_node_next and myhtml_node_prev *)
Child(d, n) == First(ChildSet(d, n))
Next(d, n) == First({m \in ChildSet(d, d.parent[n]) : m > n})
Prev(d, n) ==
  LET before == {m \in ChildSet(d, d.parent[n]) : m < n}
  IN  IF before = {} THEN NoNode
                     ELSE CHOOSE m \in before : \A k \in before : m >= k

-----------------------------------------------------------------------------
(* MyHtmlNode.                                                             *)

(* What s_tagIdMapping does not know has the first of the TagIds. *)
TagId(d, n) == IF d.tag[n] \in MyHtmlTags THEN d.tag[n] ELSE "html"
WithTagId(d, tag) == {m \in Nodes(d) : TagId(d, m) = tag}

ChildrenInternal(d, n) ==
  LET from[m \in Nodes(d) \cup {NoNode}] ==
        IF m = NoNode THEN <<>> ELSE <<m>> \o from[Next(d, m)]
  IN  from[Child(d, n)]

ChildIndex(d, n) ==
  LET before[m \in Nodes(d)] ==
        IF Prev(d, m) = NoNode THEN 0 ELSE 1 + before[Prev(d, m)]
  IN  before[n]

(* Faulty: the walk goes on behind the node it has begun with. *)
MatchFromNode(d, n, matches) ==
  LET from[m \in Nodes(d) \cup {NoNode}] ==
        IF m = NoNode THEN <<>>
        ELSE <<m>> \o from[Child(d, m)] \o from[Next(d, m)]
  IN  OnlyIn(Tail(from[n]), matches)

(* matchSubNodesInDepth: a loop over the siblings that calls itself for    *)
(* the children of each.                                                   *)
MatchSubNodesInDepth(d, n, matches) ==
  LET from[m \in Nodes(d) \cup {NoNode}] ==
        IF m = NoNode THEN <<>>
        ELSE <<m>> \o from[Child(d, m)] \o from[Next(d, m)]
  IN  OnlyIn(from[Child(d, n)], matches)

MatchSubNodes(d, n, tag) ==
  OnlyIn(ChildrenInternal(d, n), WithTagId(d, tag))

(* The index to start from is ignored. *)
FirstMatchSubNode(d, n, tag) ==
  LET found[m \in Nodes(d) \cup {NoNode}] ==
        IF m = NoNode \/ TagId(d, m) = tag THEN m ELSE found[Next(d, m)]
  IN  found[Child(d, n)]

ChildNodeByAttributesValues(d, n, tag, haveThem) ==
  First(ToSet(ChildrenInternal(d, n)) \cap WithTagId(d, tag) \cap haveThem)

HasTextTag(d, n) == d.tag[n] \in MyHtmlTexts

(* The first text child. *)
Text(d, n) == First({m \in ChildSet(d, n) : HasTextTag(d, m)})

(* cutSubNodesAndGetPlainText: a text node adds text() of its own, which   *)
(* looks for a text among its children.                                    *)
PlainText(d, n) ==
  LET cut[m \in Nodes(d)] ==
        IF HasTextTag(d, m) THEN <<Text(d, m)>>
        ELSE FlattenSeq([i \in DOMAIN ChildrenInternal(d, m) |->
                           cut[ChildrenInternal(d, m)[i]]])
  IN  cut[n]

-----------------------------------------------------------------------------
(* GumboHtmlNode; the children of an element or a template are a vector.   *)
(* The other kinds have none, and what the code would read there instead   *)
(* of it is not defined.                                                   *)

GumboChildren(d, n) == InOrder(ChildSet(d, n))

Elements(d, tag) == {m \in Nodes(d) : IsElement(d, m) /\ d.tag[m] = tag}

GumboMatchSubNodes(d, n, tag) ==
  OnlyIn(GumboChildren(d, n), Elements(d, tag))

GumboFirstMatchSubNode(d, n, tag, start) ==
  LET from == ToSet(SubSeq(GumboChildren(d, n), start + 1,
                           Len(GumboChildren(d, n))))
  IN  First(from \cap Elements(d, tag))

GumboChildNodeByAttributesValues(d, n, tag, haveThem) ==
  First(ToSet(GumboChildren(d, n)) \cap Elements(d, tag) \cap haveThem)

GumboMatchSubNodesInDepth(d, n, matches) ==
  LET from[m \in Nodes(d)] ==
        IF ~IsElement(d, m) THEN <<m>>
        ELSE <<m>> \o FlattenSeq([i \in DOMAIN GumboChildren(d, m) |->
                                    from[GumboChildren(d, m)[i]]])
  IN  OnlyIn(from[n], matches)

(* The text of a node that is one, or begins with one. *)
GumboText(d, n) ==
  LET children == GumboChildren(d, n)
  IN  IF IsText(d, n) THEN n
      ELSE IF children # <<>> /\ IsText(d, Head(children)) THEN Head(children)
      ELSE NoNode

(* Of the children only elements and texts are gone into. *)
IsCut(d, n) == IsElement(d, n) \/ IsText(d, n)

GumboPlainText(d, n) ==
  LET cut[m \in Nodes(d)] ==
        IF IsText(d, m) THEN <<GumboText(d, m)>>
        ELSE FlattenSeq([i \in DOMAIN GumboChildren(d, m) |->
                           IF IsCut(d, GumboChildren(d, m)[i])
                           THEN cut[GumboChildren(d, m)[i]] ELSE <<>>])
  IN  cut[n]

-----------------------------------------------------------------------------
Descendants(d, n) ==
  LET below[m \in Nodes(d)] ==
        ChildSet(d, m) \cup UNION {below[k] : k \in ChildSet(d, m)}
  IN  below[n]

(* What is below a template that is below the node. *)
InTemplates(d, n) ==
  UNION {Descendants(d, t) : t \in {m \in Descendants(d, n) : IsTemplate(d, m)}}

TagsAskedFor(d) == {d.tag[n] : n \in Nodes(d)} \cap MyHtmlTags

(* Both implementations find what is below a node in document order and    *)
(* nothing behind it, but GumboHtmlNode nothing that is in a template.     *)
(* GumboHtmlNode finds the node itself as well, and MyHtmlNode takes what  *)
(* its mapping does not know for html elements.                            *)
WalksAgree(d) ==
  \A n \in Nodes(d), tag \in TagsAskedFor(d) :
    LET matches == WithTagId(d, tag)
        elements == Elements(d, tag)
    IN  /\ MatchSubNodesInDepth(d, n, matches)
             = InOrder(matches \cap Descendants(d, n))
        /\ IsElement(d, n) =>
             GumboMatchSubNodesInDepth(d, n, elements)
               = InOrder(elements \cap ((Descendants(d, n) \cup {n})
                                          \ InTemplates(d, n)))

(* Among the children of an element GumboHtmlNode finds those that         *)
(* MyHtmlNode finds and that are elements: for every tag but html and      *)
(* template the same.  A lookup from the first child on finds the first of *)
(* them, and one by attributes the same, whatever attributes are asked     *)
(* for.                                                                    *)
LookupsAgree(d) ==
  \A n \in Nodes(d), tag \in TagsAskedFor(d) :
    LET matches == MatchSubNodes(d, n, tag)
        gumbo == GumboMatchSubNodes(d, n, tag)
    IN  IsElement(d, n) =>
        /\ gumbo = OnlyIn(matches, Elements(d, tag))
        /\ FirstMatchSubNode(d, n, tag)
             = IF matches = <<>> THEN NoNode ELSE Head(matches)
        /\ GumboFirstMatchSubNode(d, n, tag, 0)
             = IF gumbo = <<>> THEN NoNode ELSE Head(gumbo)
        /\ tag \notin {"html", TemplateTag} =>
             /\ gumbo = matches
             /\ \A haveThem \in SUBSET Nodes(d) :
                  ChildNodeByAttributesValues(d, n, tag, haveThem)
                    = GumboChildNodeByAttributesValues(d, n, tag, haveThem)

(* Linked siblings and a vector of children are the same list, and         *)
(* childIndex is the place in it.                                          *)
ChildrenAgree(d) ==
  \A n \in Nodes(d) :
    ~IsLeaf(d, n) =>
      /\ ChildrenInternal(d, n) = GumboChildren(d, n)
      /\ \A i \in DOMAIN ChildrenInternal(d, n) :
           ChildIndex(d, ChildrenInternal(d, n)[i]) = i - 1

(* Where GumboHtmlNode has a text for an element, MyHtmlNode has the same. *)
(* The plain texts differ: GumboHtmlNode joins the texts of a node that    *)
(* are in no template, without white space; MyHtmlNode counts every node   *)
(* with the tag of a text, white space too, and leaves each empty.         *)
TextsAgree(d) ==
  \A n \in Nodes(d) :
    LET subtree == Descendants(d, n) \cup {n}
    IN  /\ ~IsLeaf(d, n) /\ GumboText(d, n) # NoNode
             => GumboText(d, n) = Text(d, n)
        /\ ~IsLeaf(d, n) \/ IsText(d, n) =>
             GumboPlainText(d, n)
               = InOrder({m \in subtree \ InTemplates(d, n) : IsText(d, m)})
        /\ Len(PlainText(d, n))
             = Cardinality({m \in subtree : HasTextTag(d, m)})
        /\ ToSet(PlainText(d, n)) \subseteq {NoNode}
=============================================================================
