----------------------------- MODULE MCPageLinks ----------------------------
(* Small trees, and pages with two links of any of a few addresses. *)
EXTENDS PageLinks, TLC

Http(host, path) == [scheme |-> "http", host |-> host, path |-> path]
Site == <<"site">>
Blog == <<"/", "blog">>

MCStartPage == Http(Site, Blog)
InBlog == Http(Site, Blog \o <<"/", "post">>)
Blogger == Http(Site, Blog \o <<"ger">>)
Home == Http(Site, <<>>)
WwwPage == Http(<<"www.">> \o Site, Blog)
SchemelessWww == [WwwPage EXCEPT !.scheme = ""]
Shop == Http(<<"shop.">> \o Site, <<"/">>)
Other == Http(<<"other">>, <<"/">>)
Mail == [scheme |-> "mailto", host |-> <<>>, path |-> <<"me">>]

MCAddresses == {MCStartPage, InBlog, Blogger, Home, WwwPage, SchemelessWww,
                Shop, Other, Mail}
MCExcluded == {Home, NofollowWord}
MCDisallowed == {InBlog, Shop}

(* A data element is one that the mapping of MyHtmlNode does not know. *)
MCTags == {"html", "head", "meta", "a", "link", TemplateTag}
MCTexts == {TextKind, "whitespace"}

Rel(word) == [word |-> word, lowerCase |-> TRUE, broken |-> FALSE]

(* A page of which nothing is said but its tree. *)
Page(parent, tag) ==
  LET none == [n \in DOMAIN parent |-> Absent]
  IN  [parent |-> parent, tag |-> tag, html |-> TRUE,
       href |-> none, written |-> none, rel |-> none,
       hreflang |-> [n \in DOMAIN parent |-> FALSE],
       charset |-> none, contentType |-> <<>>]

WithLinks(d, href, written, rel) ==
  [d EXCEPT !.href = href, !.written = written, !.rel = rel]

(* Every tree of four nodes in document order, of elements, templates and  *)
(* two kinds of leaves, and one of five with every kind of node.           *)
Trees == {<<0, 1, 1, 1>>, <<0, 1, 1, 3>>, <<0, 1, 2, 1>>,
          <<0, 1, 2, 2>>, <<0, 1, 2, 3>>}
Tags == {"a", TextKind, "whitespace", TemplateTag}

TreePage(parent, tag) ==
  LET links == [n \in DOMAIN parent |-> IF tag[n] = "a" THEN Other ELSE Absent]
  IN  WithLinks(Page(parent, tag), links, links,
                [n \in DOMAIN parent |-> IF n = 3 /\ tag[n] = "a"
                                         THEN Rel("me") ELSE Absent])

MCTreePages ==
  {d \in {TreePage(p, <<"html", x, y, z>>) :
            p \in Trees, x \in Tags, y \in Tags,
            z \in Tags \ {TemplateTag}} : IsDocument(d)}
  \cup {TreePage(<<0, 1, 2, 2, 2, 1>>,
                 <<"html", "data", "cdata", "comment", TextKind, x>>) :
          x \in {"comment", "a"}}

(* Two meta nodes in the head, one below it, or one behind it.  One        *)
(* charset is known to Qt alone, and one with quotes to neither.           *)
MCMyHtmlCharsets == {"koi8-r", "utf-16"}
MCQtCharsets == {Charset("koi8-r", FALSE), Charset("utf-16", FALSE),
                 Charset("koi8-r", TRUE), Charset("us-ascii", FALSE)}
SomeCharsets == {Charset("koi8-r", FALSE), Charset("utf-16", FALSE),
                 Charset("us-ascii", FALSE), Charset("utf-16", TRUE),
                 NoCharset, Absent}
Headers == {<<>>,
            <<Charset("utf-16", TRUE), Charset("koi8-r", TRUE)>>,
            <<Charset("x-unknown", FALSE), Charset("koi8-r", TRUE)>>}

MCEncodingPages ==
  {[Page(p, <<"html", "head", "meta", "meta">>)
      EXCEPT !.charset = <<Absent, Absent, x, y>>, !.contentType = h] :
     p \in {<<0, 1, 2, 2>>, <<0, 1, 2, 3>>, <<0, 1, 2, 1>>},
     x \in SomeCharsets, y \in {Charset("koi8-r", FALSE), Absent},
     h \in Headers}

(* Two links to anywhere, one taken for nofollow and a hreflang. *)
LinkPage(x, y) ==
  LET links == <<Absent, x, y, NofollowWord, y>>
  IN  [WithLinks(Page(<<0, 1, 1, 1, 1>>, <<"html", "a", "a", "a", "link">>),
                 links, links, <<Absent, Absent, Rel("nofollow"),
                                 Rel("nofollow"), Rel("alternate")>>)
         EXCEPT !.hreflang[5] = TRUE]

MCLinkPages ==
  {LinkPage(x, y) : x \in MCAddresses, y \in {InBlog, Home, WwwPage, Other}}

(* The same with hrefs that are written with blanks, and other rels. *)
MCUncleanPages ==
  {[d EXCEPT !.written[2].scheme = "", !.rel[3].lowerCase = l,
             !.rel[5].lowerCase = k, !.rel[5].broken = b] :
     d \in {LinkPage(Mail, Other), LinkPage(Home, InBlog)},
     l \in BOOLEAN, k \in BOOLEAN, b \in BOOLEAN}

NotHtml == [LinkPage(Home, Home) EXCEPT !.html = FALSE]

MCPages == MCTreePages \cup MCEncodingPages \cup MCLinkPages
             \cup MCUncleanPages \cup {NotHtml}
=============================================================================
