---------------------------- MODULE HtmlParsers -----------------------------
(***************************************************************************)
(* MyHtmlParser and GumboHtmlParser: the two implementations of            *)
(* IHtmlParser.  A page is a document that also has, for each of its       *)
(* nodes, an href, a rel, whether it has a hreflang, and for a meta node   *)
(* the charset it declares, by that attribute or by a content with         *)
(* http-equiv; and for the page the charsets named by its content-type     *)
(* headers.  The crawler uses MyHtmlParser.                                *)
(*                                                                         *)
(* An href is what its attribute says once blanks around it and line       *)
(* breaks in it are removed, and `written' what it says as it is written.  *)
(* A rel is its word, freed from these and in lower case, whether it was   *)
(* in lower case, and whether line breaks were in it.  A charset is its    *)
(* name in lower case and whether it was written in quotes.                *)
(***************************************************************************)
EXTENDS HtmlNodes

CONSTANTS
  Absent,          \* the value of an attribute that a node does not have
  MyHtmlCharsets,  \* the names in s_stringToEnumEncoding
  QtCharsets       \* the charsets QTextCodec::codecForName finds

Charset(name, quoted) == [name |-> name, quoted |-> quoted]
NoCharset == Charset("", FALSE)
Utf8 == "utf-8"
Detected == "what QTextCodec::codecForHtml finds"
Undecoded == "the encoding of the page before"

ASSUME CharsetsAssumption ==
  /\ MyHtmlCharsets \cap {NoCharset.name, Detected, Undecoded} = {}
  /\ NoCharset \notin QtCharsets

ASSUME TagsAssumption == "meta" \in MyHtmlTags

(* Its first node is the html element.  QUrl reads from an href that is    *)
(* not cleaned the same scheme or none.                                    *)
IsPage(d) ==
  /\ IsDocument(d) /\ IsElement(d, 1)
  /\ \A n \in Nodes(d) :
       /\ d.href[n] # Absent => d.written[n].scheme \in {"", d.href[n].scheme}
       /\ d.rel[n] # Absent => /\ d.rel[n].lowerCase \in BOOLEAN
                               /\ d.rel[n].broken \in BOOLEAN
       /\ d.hreflang[n] \in BOOLEAN

IsRelative(url) == url.scheme = ""
IsHttpOrHttpsScheme(url) == url.scheme \in {"", "http", "https"}

Hrefs(d, nodes) == [i \in DOMAIN nodes |-> d.href[nodes[i]]]

-----------------------------------------------------------------------------
(* MyHtmlParser.                                                           *)

IsAhref(d, n) ==
  d.tag[n] = "a" /\ d.href[n] # Absent /\ IsHttpOrHttpsScheme(d.href[n])

(* A link is taken for a nofollow link when it has a rel and its href, not *)
(* its rel, is the word nofollow.                                          *)
NofollowWord == [scheme |-> "", host |-> <<>>, path |-> <<"nofollow">>]
IsDofollowAhref(d, n) == d.rel[n] = Absent \/ d.href[n] # NofollowWord

(* Faulty: nofollow links are not kept out of the dofollow ones. *)
AhrefsOfAnyRel(d, rel) ==
  Hrefs(d, InOrder({n \in Nodes(d) :
    IsAhref(d, n) /\ (IsDofollowAhref(d, n) => rel = "dofollow")}))

Ahrefs(d, rel) ==
  Hrefs(d, InOrder({n \in Nodes(d) :
    IsAhref(d, n) /\ (IsDofollowAhref(d, n) <=> rel = "dofollow")}))

IsLink(d, n) ==
  d.tag[n] = "link" /\ d.href[n] # Absent /\ d.rel[n] # Absent /\ d.hreflang[n]

(* getLinkRelUrl("alternate", "hreflang", false): the case of the rel      *)
(* tells.                                                                  *)
IsHreflang(d, n) ==
  IsLink(d, n) /\ d.rel[n].word = "alternate" /\ d.rel[n].lowerCase
Hreflangs(d) == Hrefs(d, InOrder({n \in Nodes(d) : IsHreflang(d, n)}))

DeclareCharset(d) == {n \in Nodes(d) : d.charset[n] # Absent}

(* Faulty: the last meta node wins. *)
EncodingFromLast(d) ==
  LET metaTags == MatchSubNodesInDepth(
                    d, 1, {n \in DeclareCharset(d) : TagId(d, n) = "meta"})
  IN  IF metaTags = <<>> THEN NoCharset ELSE d.charset[Last(metaTags)]

(* The first meta node, anywhere, that declares a charset. *)
EncodingFromPage(d) ==
  LET metaTags == MatchSubNodesInDepth(
                    d, 1, {n \in DeclareCharset(d) : TagId(d, n) = "meta"})
  IN  IF metaTags = <<>> THEN NoCharset ELSE d.charset[Head(metaTags)]

(* Only what a header names is freed from quotes. *)
HtmlSetEncoding(d) ==
  LET fromHeaders == OnlyIn(d.contentType, {c \in ToSet(d.contentType) :
                                              c.name \in MyHtmlCharsets})
      fromPage == EncodingFromPage(d)
  IN  IF fromHeaders # <<>> THEN Head(fromHeaders).name
      ELSE IF ~fromPage.quoted /\ fromPage.name \in MyHtmlCharsets
           THEN fromPage.name
      ELSE Utf8

-----------------------------------------------------------------------------
(* GumboHtmlParser.                                                        *)

(* findNodesRecursive *)
GumboNodes(d, nodes) == GumboMatchSubNodesInDepth(d, 1, nodes)

(* The scheme is that of the attribute as it is written. *)
GumboIsAhref(d, n) ==
  d.tag[n] = "a" /\ d.href[n] # Absent /\ IsHttpOrHttpsScheme(d.written[n])

GumboIsDofollowAhref(d, n) ==
  d.rel[n] # Absent /\ d.rel[n].word = "nofollow" => ~d.rel[n].lowerCase

GumboAhrefs(d, rel) ==
  Hrefs(d, GumboNodes(d, {n \in Nodes(d) :
    GumboIsAhref(d, n) /\ (GumboIsDofollowAhref(d, n) <=> rel = "dofollow")}))

(* checkAttribute makes the rel lower case and leaves line breaks in it,   *)
(* and the href is taken as it is written.                                 *)
GumboIsHreflang(d, n) ==
  IsLink(d, n) /\ d.rel[n].word = "alternate" /\ ~d.rel[n].broken
GumboHreflangs(d) ==
  LET nodes == GumboNodes(d, {n \in Nodes(d) : GumboIsHreflang(d, n)})
  IN  [i \in DOMAIN nodes |-> d.written[nodes[i]]]

(* Only the children of the first head are looked at. *)
GumboEncodingFromPage(d) ==
  LET headNode == GumboFirstMatchSubNode(d, 1, "head", 0)
      metaTags == OnlyIn(GumboMatchSubNodes(d, headNode, "meta"),
                         DeclareCharset(d))
  IN  IF headNode = NoNode \/ metaTags = <<>> THEN NoCharset
                                            ELSE d.charset[Head(metaTags)]

(* An unknown charset of the page leaves what is in m_currentPageEncoding. *)
DecodeHtmlPage(d) ==
  LET fromHeaders == OnlyIn(d.contentType, QtCharsets)
      fromPage == GumboEncodingFromPage(d)
  IN  IF fromHeaders # <<>> THEN Head(fromHeaders).name
      ELSE IF fromPage = NoCharset THEN Detected
      ELSE IF fromPage \in QtCharsets THEN fromPage.name ELSE Undecoded

-----------------------------------------------------------------------------
(* What makes the two parsers read different links from a page.            *)
Unseen(d) == InTemplates(d, 1)
Padded(d) == {n \in Nodes(d) : d.written[n] # d.href[n]}
Reworded(d) ==
  {n \in Nodes(d) :
     d.rel[n] # Absent /\ (~d.rel[n].lowerCase \/ d.rel[n].broken)}
Nofollow(d) ==
  {n \in Nodes(d) : \/ d.rel[n] # Absent /\ d.rel[n].word = "nofollow"
                    \/ d.href[n] = NofollowWord}

HrefsAt(d, nodes) == {d.href[n] : n \in nodes}
IsPlain(d) == Unseen(d) \cup Padded(d) \cup Reworded(d) = {}

(* A link that only MyHtmlParser finds is in a template, and one that only *)
(* GumboHtmlParser finds has an href that hides its scheme behind blanks;  *)
(* a hreflang that only one of them finds is in a template, or has an href *)
(* or a rel that one of them cleans and the other does not.  In a plain    *)
(* page they find the same hreflangs and links, each as often, and unless  *)
(* a link says nofollow put them into the same list in the same order.     *)
(* (Where one says nofollow they do not: MyHtmlParser tests the href.)     *)
LinksAgree(d) ==
  LET myHtml == ToSet(Ahrefs(d, "dofollow")) \cup ToSet(Ahrefs(d, "nofollow"))
      gumbo == ToSet(GumboAhrefs(d, "dofollow"))
                 \cup ToSet(GumboAhrefs(d, "nofollow"))
      differ == Unseen(d) \cup Padded(d) \cup Reworded(d)
  IN  /\ myHtml \ gumbo \subseteq HrefsAt(d, Unseen(d))
      /\ gumbo \ myHtml \subseteq HrefsAt(d, Padded(d))
      /\ ToSet(Hreflangs(d)) \ ToSet(GumboHreflangs(d))
           \subseteq HrefsAt(d, differ)
      /\ ToSet(GumboHreflangs(d)) \ ToSet(Hreflangs(d))
           \subseteq {d.written[n] : n \in differ}
      /\ IsPlain(d) =>
           /\ Hreflangs(d) = GumboHreflangs(d)
           /\ Len(Ahrefs(d, "dofollow")) + Len(Ahrefs(d, "nofollow"))
                = Len(GumboAhrefs(d, "dofollow"))
                    + Len(GumboAhrefs(d, "nofollow"))
           /\ Nofollow(d) = {} =>
                Ahrefs(d, "dofollow") = GumboAhrefs(d, "dofollow")

KnownToBothOrNeither(charset) ==
  charset \in QtCharsets <=> charset.name \in MyHtmlCharsets

(* A page whose meta nodes are all in its head is read in the same         *)
(* encoding, whenever GumboHtmlParser finds a charset it knows and every   *)
(* charset that is named, in a meta without quotes, is known to both       *)
(* parsers or to neither.                                                  *)
EncodingAgrees(d) ==
  LET headNode == GumboFirstMatchSubNode(d, 1, "head", 0)
      encoding == DecodeHtmlPage(d)
  IN  /\ \A n \in Nodes(d) : d.tag[n] = "meta" => d.parent[n] = headNode
      /\ \A n \in DeclareCharset(d) : /\ ~d.charset[n].quoted
                                      /\ KnownToBothOrNeither(d.charset[n])
      /\ \A c \in ToSet(d.contentType) : KnownToBothOrNeither(c)
      /\ encoding \notin {Detected, Undecoded}
      => HtmlSetEncoding(d) = encoding
=============================================================================
