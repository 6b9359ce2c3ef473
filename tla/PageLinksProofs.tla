-------------------------- MODULE PageLinksProofs ---------------------------
(***************************************************************************)
(* Proofs about the link filter for every start page, every set of pages   *)
(* and every choice of options: how OptionsLinkFilter puts together what   *)
(* PageParserHelpers says of an address, and which hosts it lets pass.     *)
(***************************************************************************)
EXTENDS PageLinks, HtmlProofs, SequenceTheorems, TLAPS

OptionsOK == options \in Options

(* The options outlive the page unchanged. *)
LEMMA OptionsAreKept == LinksSpec => []OptionsOK
<1>1. LinksInit => OptionsOK
  BY DEF LinksInit, OptionsOK
<1>2. OptionsOK /\ [LinksNext]_linkVars => OptionsOK'
  BY DEF OptionsOK, LinksNext, HandlePage, linkVars
<1> QED BY <1>1, <1>2, PTL DEF LinksSpec

(* An address that becomes internal when subdomains are allowed is a       *)
(* subdomain of the start page.                                            *)
LEMMA ExternalUnlessSubdomain ==
  ASSUME NEW url, NEW s \in BOOLEAN, NEW t \in BOOLEAN, s => t
  PROVE  /\ IsUrlExternal(url, t) => IsUrlExternal(url, s)
         /\ IsUrlExternal(url, s) /\ ~IsUrlExternal(url, t)
              => IsSubdomain(url) /\ ~s /\ t
BY Zenon DEF IsUrlExternal

(* With subdomains allowed an address turns from external into internal    *)
(* only if it was refused as a subdomain before, so for a link that passed *)
(* the two settings see the same side.                                     *)
LEMMA FilterIsMonotonic ==
  ASSUME NEW o \in Options, NEW p \in Options, ForbidsLess(o, p),
         NEW url, NEW rel \in AhrefRelType, IsUrlAllowedToCrawl(url, rel, o)
  PROVE  IsUrlAllowedToCrawl(url, rel, p)
<1> DEFINE was == IsUrlExternal(url, o.checkSubdomains)
           is == IsUrlExternal(url, p.checkSubdomains)
<1>1. /\ o.checkSubdomains \in BOOLEAN /\ p.checkSubdomains \in BOOLEAN
      /\ o.checkSubdomains => p.checkSubdomains
  BY DEF Options, ForbidsLess
<1>2. (is => was) /\ (was /\ ~is => IsSubdomain(url) /\ ~o.checkSubdomains)
  BY <1>1, ExternalUnlessSubdomain
<1>3. ~IsSubdomain(url) \/ o.checkSubdomains
  BY DEF IsUrlAllowedToCrawl, SubdomainNotRefused
<1>4. is <=> was
  BY <1>2, <1>3
<1> QED
  BY <1>1, <1>4
     DEF IsUrlAllowedToCrawl, SubdomainNotRefused, ForbidsLess, Options

(* Whatever the user allows in addition, no link that was followed is      *)
(* refused.                                                                *)
THEOREM AllowingMoreKeepsLinks == LinksSpec => []OptionsAreMonotonic
<1>1. OptionsOK => OptionsAreMonotonic
  BY FilterIsMonotonic DEF OptionsOK, OptionsAreMonotonic
<1> QED BY <1>1, OptionsAreKept, PTL

-----------------------------------------------------------------------------
(* Hosts that end in each other.                                           *)

(* Reverse of SequencesExt, element by element. *)
LEMMA ReverseElements ==
  ASSUME NEW S, NEW s \in Seq(S)
  PROVE  /\ Reverse(s) \in Seq(S) /\ Len(Reverse(s)) = Len(s)
         /\ \A i \in 1..Len(s) : Reverse(s)[i] = s[Len(s) - i + 1]
BY DEF Reverse

(* IsPrefix of SequencesExt, element by element. *)
LEMMA PrefixElements ==
  ASSUME NEW S, NEW s \in Seq(S), NEW t \in Seq(S)
  PROVE  IsPrefix(s, t) <=>
           Len(s) <= Len(t) /\ \A i \in 1..Len(s) : s[i] = t[i]
<1>1. CASE Len(s) <= Len(t)
  <2>1. /\ Len(SubSeq(s, 1, Len(s))) = Len(s)
        /\ Len(SubSeq(t, 1, Len(s))) = Len(s)
        /\ SubSeq(s, 1, Len(s)) \in Seq(S) /\ SubSeq(t, 1, Len(s)) \in Seq(S)
        /\ \A i \in 1..Len(s) : /\ SubSeq(s, 1, Len(s))[i] = s[i]
                                /\ SubSeq(t, 1, Len(s))[i] = t[i]
    BY <1>1
  <2> QED BY <1>1, <2>1 DEF IsPrefix
<1>2. CASE ~(Len(s) <= Len(t))
  BY <1>2 DEF IsPrefix
<1> QED BY <1>1, <1>2

(* What ends in www.host ends in host. *)
LEMMA EndsWithoutWww ==
  ASSUME NEW S, "www." \in S,
         NEW h \in Seq(S), NEW e \in Seq(S), EndsWith(h, Www(e))
  PROVE  EndsWith(h, e) /\ Len(e) < Len(h)
<1> DEFINE w == Www(e)
<1>1. /\ w \in Seq(S) /\ Len(w) = Len(e) + 1
      /\ \A i \in 1..Len(e) : w[i + 1] = e[i]
  <2> DEFINE www == <<"www.">>
  <2>1. w = www \o e /\ www \in Seq(S) /\ Len(www) = 1
    BY DEF Www
  <2> HIDE DEF www, w
  <2>2. /\ www \o e \in Seq(S) /\ Len(www \o e) = Len(www) + Len(e)
        /\ \A i \in 1..Len(www) + Len(e) :
             (www \o e)[i] = IF i <= Len(www) THEN www[i] ELSE e[i - Len(www)]
    BY <2>1, ConcatProperties, Zenon
  <2>3. w \in Seq(S) /\ Len(w) = Len(e) + 1
    BY <2>2, <2>1
  <2>4. ASSUME NEW i \in 1..Len(e) PROVE w[i + 1] = e[i]
    <3>1. i + 1 \in 1..(Len(www) + Len(e)) /\ i + 1 > Len(www)
      BY <2>1
    <3>2. (www \o e)[i + 1] = e[i + 1 - Len(www)]
      BY <2>2, <2>1, <3>1
    <3>3. i + 1 - Len(www) = i
      BY <2>1
    <3> QED BY <2>1, <3>2, <3>3
  <2> QED BY <2>3, <2>4
<1>2. /\ Len(w) <= Len(h)
      /\ \A i \in 1..Len(w) : Reverse(w)[i] = Reverse(h)[i]
  <2>1. IsPrefix(Reverse(w), Reverse(h))
    BY DEF EndsWith, IsSuffix
  <2> HIDE DEF w
  <2>2. /\ Reverse(w) \in Seq(S) /\ Len(Reverse(w)) = Len(w)
        /\ Reverse(h) \in Seq(S) /\ Len(Reverse(h)) = Len(h)
    BY <1>1, ReverseElements
  <2>3. /\ Len(Reverse(w)) <= Len(Reverse(h))
        /\ \A i \in 1..Len(Reverse(w)) : Reverse(w)[i] = Reverse(h)[i]
    BY <2>1, <2>2, PrefixElements
  <2> QED BY <2>2, <2>3
<1>3. \A i \in 1..Len(e) : Reverse(e)[i] = Reverse(w)[i]
  <2> HIDE DEF w
  <2> TAKE i \in 1..Len(e)
  <2>1. Reverse(e)[i] = e[Len(e) - i + 1]
    BY ReverseElements
  <2>2. Reverse(w)[i] = w[Len(e) + 1 - i + 1]
    <3>1. i \in 1..Len(w) /\ w \in Seq(S)
      BY <1>1
    <3>2. Reverse(w)[i] = w[Len(w) - i + 1]
      BY <3>1, ReverseElements
    <3> QED BY <1>1, <3>2
  <2>3. w[(Len(e) - i + 1) + 1] = e[Len(e) - i + 1]
    <3>1. Len(e) - i + 1 \in 1..Len(e)
      OBVIOUS
    <3> QED BY <1>1, <3>1
  <2> QED BY <2>1, <2>2, <2>3
<1>4. IsPrefix(Reverse(e), Reverse(h))
  <2> HIDE DEF w
  <2>1. \A i \in 1..Len(e) : Reverse(e)[i] = Reverse(h)[i]
    BY <1>1, <1>2, <1>3
  <2>2. /\ Reverse(e) \in Seq(S) /\ Len(Reverse(e)) = Len(e)
        /\ Reverse(h) \in Seq(S) /\ Len(Reverse(h)) = Len(h)
    BY ReverseElements
  <2>3. Len(e) <= Len(h)
    BY <1>1, <1>2
  <2> QED BY <2>1, <2>2, <2>3, PrefixElements
<1> HIDE DEF w
<1> QED BY <1>1, <1>2, <1>4 DEF EndsWith, IsSuffix

(* An address of another host that the filter lets pass with neither       *)
(* external links nor subdomains would have to be internal by its www.,    *)
(* and is a subdomain by the same ending.                                  *)
LEMMA FilterKeepsHost ==
  ASSUME NEW o \in Options, NEW S, "www." \in S,
         NEW url, url.host \in Seq(S), StartPage.host \in Seq(S),
         StartPage.scheme \in {"http", "https"}, ~IsRelative(url),
         NEW rel \in AhrefRelType, IsUrlAllowedToCrawl(url, rel, o),
         ~o.checkExternalLinks, url.host # StartPage.host
  PROVE  /\ o.checkSubdomains
         /\ EndsWith(url.host, StartPage.host)
              \/ EndsWith(StartPage.host, url.host)
<1>1. /\ IsHttpOrHttpsScheme(url)
      /\ ~IsSubdomain(url) \/ o.checkSubdomains
      /\ ~IsUrlExternal(url, o.checkSubdomains)
  BY DEF IsUrlAllowedToCrawl, SubdomainNotRefused
<1>2. IsSubdomain(url) <=> EndsWith(url.host, StartPage.host)
                             \/ EndsWith(StartPage.host, url.host)
  BY <1>1 DEF IsSubdomain, IsRelative, IsHttpOrHttpsScheme
<1>3. \/ EndsWith(url.host, Www(StartPage.host))
      \/ EndsWith(StartPage.host, Www(url.host))
      \/ o.checkSubdomains /\ IsSubdomain(url)
  BY <1>1 DEF IsUrlExternal
<1>4. /\ EndsWith(url.host, Www(StartPage.host))
           => EndsWith(url.host, StartPage.host)
      /\ EndsWith(StartPage.host, Www(url.host))
           => EndsWith(StartPage.host, url.host)
  BY EndsWithoutWww
<1> QED BY <1>1, <1>2, <1>3, <1>4

(* The hosts of links are sequences, by HostsAssumption. *)
LEMMA HostsOfAddresses ==
  ASSUME NEW url \in Addresses
  PROVE  url.host \in Seq(STRING) /\ StartPage.host \in Seq(STRING)
BY HostsAssumption DEF Addresses, HrefsOf

(* Neither external links nor subdomains allowed: the crawl stays on the   *)
(* start page's host.                                                      *)
THEOREM LinksStayOnHost == LinksSpec => []StaysOnHost
<1>1. OptionsOK => StaysOnHost
  <2> DEFINE S == STRING \cup {"www."}
  <2> SUFFICES ASSUME OptionsOK,
                      NEW url \in Addresses, NEW rel \in AhrefRelType,
                      StartPage.scheme \in {"http", "https"}, ~IsRelative(url),
                      ~options.checkExternalLinks,
                      IsUrlAllowedToCrawl(url, rel, options),
                      url.host # StartPage.host
               PROVE  /\ options.checkSubdomains
                      /\ \/ EndsWith(url.host, StartPage.host)
                         \/ EndsWith(StartPage.host, url.host)
    BY DEF StaysOnHost
  <2>1. "www." \in S /\ url.host \in Seq(S) /\ StartPage.host \in Seq(S)
    BY HostsOfAddresses
  <2> HIDE DEF S
  <2> QED BY <2>1, FilterKeepsHost DEF OptionsOK
<1> QED BY <1>1, OptionsAreKept, PTL

-----------------------------------------------------------------------------
(* The folder of the start page.                                           *)

(* What has the folder with its slash in front is the folder's and not of  *)
(* a name that only begins like it.                                        *)
LEMMA FolderWithSlash ==
  ASSUME NEW S, "/" \in S, NEW base \in Seq(S), NEW path \in Seq(S),
         IsPrefix(Append(base, "/"), path)
  PROVE  IsPrefix(base, path) /\ base # path /\ path[Len(base) + 1] = "/"
<1>. DEFINE folder == Append(base, "/")
<1>1. /\ folder \in Seq(S) /\ Len(folder) = Len(base) + 1
      /\ \A i \in 1..Len(base) : folder[i] = base[i]
      /\ folder[Len(base) + 1] = "/"
      /\ Len(base) \in Nat /\ IsPrefix(folder, path)
  OBVIOUS
<1> HIDE DEF folder
<1>2. /\ Len(folder) <= Len(path)
      /\ \A i \in 1..Len(folder) : folder[i] = path[i]
  BY <1>1, PrefixElements
<1>3. /\ Len(base) < Len(path) /\ path[Len(base) + 1] = "/"
      /\ \A i \in 1..Len(base) : base[i] = path[i]
  BY <1>1, <1>2
<1>4. IsPrefix(base, path)
  <2>1. Len(base) <= Len(path)
    <3>1. Len(path) \in Nat
      OBVIOUS
    <3> QED BY <1>1, <1>3, <3>1
  <2> QED BY <2>1, <1>3, PrefixElements, Zenon
<1>. QED BY <1>3, <1>4

(* A link on the start page's host is internal and no subdomain, so only   *)
(* the test of the folder lets it pass.                                    *)
LEMMA FilterKeepsFolder ==
  ASSUME NEW o \in Options, ~o.crawlOutsideOfStartFolder,
         NEW S, "/" \in S, NEW url, url.path \in Seq(S),
         StartPage.path \in Seq(S), url.host = StartPage.host,
         NEW rel \in AhrefRelType, IsUrlAllowedToCrawl(url, rel, o)
  PROVE  InFolder(StartPage.path, url.path)
<1>1. ~IsUrlExternal(url, o.checkSubdomains) /\ ~IsSubdomain(url)
  BY DEF IsUrlExternal, IsSubdomain
<1>2. IsUrlInsideBaseUrlFolder(url)
  BY <1>1 DEF IsUrlAllowedToCrawl
<1>. DEFINE base == StartPage.path
            path == url.path
<1>3. CASE base \in {<<>>, <<"/">>, path} BY <1>3 DEF InFolder
<1>4. CASE base \notin {<<>>, <<"/">>, path}
  <2>1. CASE base # <<>> /\ Last(base) = "/"
    <3>1. IsPrefix(base, path)
      BY <1>2, <1>4, <2>1 DEF IsUrlInsideBaseUrlFolder
    <3>. QED BY <1>4, <2>1, <3>1 DEF InFolder
  <2>2. CASE ~(base # <<>> /\ Last(base) = "/")
    <3>1. IsPrefix(Append(base, "/"), path)
      BY <1>2, <1>4, <2>2 DEF IsUrlInsideBaseUrlFolder
    <3>2. IsPrefix(base, path) /\ base # path /\ path[Len(base) + 1] = "/"
      BY <3>1, FolderWithSlash
    <3>. QED BY <3>2 DEF InFolder
  <2>. QED BY <2>1, <2>2
<1>. QED BY <1>3, <1>4

(* Unless the crawl may leave the start page's folder, it does not, on     *)
(* this host: for any paths, with a slash at their ends or without.        *)
THEOREM LinksStayInFolder == LinksSpec => []StaysInFolder
<1>1. OptionsOK => StaysInFolder
  <2> DEFINE S == STRING \cup {"/"}
  <2> SUFFICES ASSUME OptionsOK,
                      NEW url \in Addresses, NEW rel \in AhrefRelType,
                      ~options.crawlOutsideOfStartFolder,
                      url.host = StartPage.host,
                      IsUrlAllowedToCrawl(url, rel, options)
               PROVE  InFolder(StartPage.path, url.path)
    BY DEF StaysInFolder
  <2>1. "/" \in S /\ url.path \in Seq(S) /\ StartPage.path \in Seq(S)
    BY PathsAssumption DEF Addresses, HrefsOf
  <2> HIDE DEF S
  <2> QED BY <2>1, FilterKeepsFolder DEF OptionsOK
<1> QED BY <1>1, OptionsAreKept, PTL

-----------------------------------------------------------------------------
(* What the parsers find in the page, and what the worker takes of it.     *)

PageOK == page \in Pages \cup {NoPage}

LEMMA PagesAreHandled == LinksSpec => []PageOK
<1>1. LinksInit => PageOK
  BY DEF LinksInit, PageOK
<1>2. PageOK /\ [LinksNext]_linkVars => PageOK'
  BY DEF PageOK, LinksNext, HandlePage, linkVars
<1> QED BY <1>1, <1>2, PTL DEF LinksSpec

LEMMA PagesAreDocuments ==
  ASSUME PageOK, page # NoPage
  PROVE  IsPage(page) /\ IsDocument(page)
BY PagesAssumption DEF PageOK, IsPage

(* What MyHtmlNode and GumboHtmlNode find in a page differs by templates,  *)
(* nodes that are no elements and plain texts only, and exactly as         *)
(* NodesAgree says: however deep and wide its tree, for whatever tags      *)
(* s_tagIdMapping knows and whatever leaves myhtml takes for texts.        *)
THEOREM ImplementationsOfNodesAgree == LinksSpec => []NodesAgree
<1>1. PageOK => NodesAgree
  BY PagesAreDocuments, WalksDo, LookupsDo, ChildrenDo, TextsDo DEF NodesAgree
<1> QED BY <1>1, PagesAreHandled, PTL

(* MyHtmlParser and GumboHtmlParser read the same links from every page    *)
(* but for templates and attributes that one of them cleans, and by the    *)
(* same charset a page that names only charsets known to both or neither,  *)
(* whatever the two tables of charsets hold.                               *)
THEOREM ImplementationsOfParsersAgree == LinksSpec => []ParsersAgree
<1>1. PageOK => ParsersAgree
  BY PagesAreDocuments, LinksDo, EncodingsDo DEF ParsersAgree
<1> QED BY <1>1, PagesAreHandled, PTL

LEMMA JoinedLength ==
  ASSUME NEW S, NEW s \in Seq(S), NEW t \in Seq(S)
  PROVE  s \o t \in Seq(S) /\ Len(s \o t) = Len(s) + Len(t)
OBVIOUS

LEMMA FieldsOfOutcome ==
  ASSUME NEW list, NEW isDefined \in BOOLEAN,
         NEW o, o = Outcome(list, isDefined)
  PROVE  o.list = list /\ o.defined = isDefined /\ o.defined \in BOOLEAN
<1>1. o.list = list /\ o.defined = isDefined
  BY DEF Outcome
<1> QED BY <1>1

(* What erase leaves of a list: links of it, and one less unless it does   *)
(* what is undefined.                                                      *)
LEMMA OneIsErased ==
  ASSUME NEW S, NEW list \in Seq(S), NEW rel,
         NEW o \in EraseOutcomes(list, rel)
  PROVE  /\ o.list \in Seq(S) /\ o.defined \in BOOLEAN
         /\ o.defined => Len(o.list) + 1 = Len(list)
<1> DEFINE removed == {url \in ToSet(list) : Removed(url, rel)}
           stay == Without(list, removed)
           go == OnlyIn(list, removed)
<1>1. /\ stay \in Seq(S) /\ go \in Seq(S)
      /\ Len(stay) + Len(go) = Len(list)
  <2> HIDE DEF removed
  <2> QED BY WithoutElements, WithoutLength
<1>2. o \in CASE go # <<>> ->
                  {Outcome(stay \o RemoveAt(go, i), TRUE) : i \in DOMAIN go}
             [] list = <<>> -> {Outcome(<<>>, FALSE)}
             [] OTHER -> {Outcome(Front(list), TRUE), Outcome(<<>>, FALSE)}
  BY DEF EraseOutcomes
<1> HIDE DEF stay, go
<1>3. CASE go # <<>>
  <2>1. PICK i \in DOMAIN go : o = Outcome(stay \o RemoveAt(go, i), TRUE)
    <3>1. go # <<>> => list # <<>>
      BY <1>1
    <3> QED BY <1>2, <1>3, <3>1
  <2>2. RemoveAt(go, i) \in Seq(S) /\ Len(RemoveAt(go, i)) = Len(go) - 1
    <3>1. /\ SubSeq(go, 1, i - 1) \in Seq(S)
          /\ SubSeq(go, i + 1, Len(go)) \in Seq(S)
          /\ Len(SubSeq(go, 1, i - 1)) = i - 1
          /\ Len(SubSeq(go, i + 1, Len(go))) = Len(go) - i
      BY <1>1
    <3>2. i \in Int /\ Len(go) \in Nat
      BY <1>1
    <3>3. /\ RemoveAt(go, i) \in Seq(S)
          /\ Len(RemoveAt(go, i)) = (i - 1) + (Len(go) - i)
      BY <3>1, JoinedLength DEF RemoveAt
    <3> QED BY <3>2, <3>3
  <2>3. /\ stay \o RemoveAt(go, i) \in Seq(S)
        /\ Len(stay \o RemoveAt(go, i)) = Len(stay) + Len(RemoveAt(go, i))
    BY <1>1, <2>2, JoinedLength
  <2>4. Len(stay \o RemoveAt(go, i)) + 1 = Len(list)
    <3>1. Len(stay) \in Nat /\ Len(go) \in Nat
      BY <1>1
    <3> QED BY <1>1, <2>2, <2>3, <3>1
  <2>5. /\ o.list = stay \o RemoveAt(go, i)
        /\ o.defined \in BOOLEAN
    BY <2>1, FieldsOfOutcome
  <2> QED BY <2>3, <2>4, <2>5
<1>4. CASE go = <<>> /\ list = <<>>
  <2>1. o = Outcome(<<>>, FALSE)
    BY <1>2, <1>4
  <2>2. o.list = <<>> /\ ~o.defined /\ o.defined \in BOOLEAN
    BY <2>1, FieldsOfOutcome
  <2> QED BY <2>2
<1>5. CASE go = <<>> /\ list # <<>>
  <2>1. Front(list) \in Seq(S) /\ Len(Front(list)) + 1 = Len(list)
    BY <1>5 DEF Front
  <2>2. o = Outcome(Front(list), TRUE) \/ o = Outcome(<<>>, FALSE)
    BY <1>2, <1>5
  <2>3. CASE o = Outcome(Front(list), TRUE)
    <3>1. o.list = Front(list) /\ o.defined \in BOOLEAN
      BY <2>3, FieldsOfOutcome
    <3> QED BY <2>1, <3>1
  <2>4. CASE o = Outcome(<<>>, FALSE)
    <3>1. o.list = <<>> /\ ~o.defined /\ o.defined \in BOOLEAN
      BY <2>4, FieldsOfOutcome
    <3> QED BY <3>1
  <2> QED BY <2>2, <2>3, <2>4
<1>. QED BY <1>3, <1>4, <1>5

AnchorsOf(d) == {n \in Nodes(d) : d.tag[n] = "a"}

(* The lists of a page hold its links, those of the a elements no more     *)
(* than there are.                                                         *)
LEMMA ListsOfPage ==
  ASSUME NEW d, IsDocument(d)
  PROVE  /\ UrlList(d).dofollow \in Seq(HrefsOf(d))
         /\ UrlList(d).nofollow \in Seq(HrefsOf(d))
         /\ UrlList(d).hreflang \in Seq(HrefsOf(d))
         /\ Len(UrlList(d).dofollow) + Len(UrlList(d).nofollow)
              <= Cardinality(AnchorsOf(d))
<1> DEFINE A == With(AhrefNodes(d), MyDofollow(d))
           B == WithNo(AhrefNodes(d), MyDofollow(d))
           I == AhrefNodes(d)
           H == {n \in Nodes(d) : d.href[n] # Absent}
<1>1. ASSUME NEW S, S \subseteq H
      PROVE  Hrefs(d, InOrder(S)) \in Seq(HrefsOf(d))
  <2>1. S \subseteq Nodes(d) /\ {d.href[n] : n \in S} \subseteq HrefsOf(d)
    BY <1>1 DEF HrefsOf
  <2>2. Hrefs(d, InOrder(S)) \in Seq({d.href[n] : n \in S})
    BY <2>1, HrefsOfSet
  <2> QED BY <2>1, <2>2, WiderSeq
<1>2. /\ I \subseteq H /\ I \subseteq AnchorsOf(d) /\ I \subseteq Nodes(d)
      /\ AreHalves(I, A, B)
  BY DEF AreHalves, With, WithNo, AhrefNodes, IsAhref, AnchorsOf
<1>3. /\ Ahrefs(d, "dofollow") = Hrefs(d, InOrder(A))
      /\ Ahrefs(d, "nofollow") = Hrefs(d, InOrder(B))
  BY AhrefsAsSets
<1>4. Hreflangs(d) \in Seq(HrefsOf(d))
  <2> DEFINE S == {n \in Nodes(d) : IsHreflang(d, n)}
  <2>1. S \subseteq H /\ Hreflangs(d) = Hrefs(d, InOrder(S))
    BY DEF Hreflangs, IsHreflang, IsLink
  <2> HIDE DEF S, H
  <2> QED BY <1>1, <2>1
<1> HIDE DEF A, B, I, H
<1>5. /\ Ahrefs(d, "dofollow") \in Seq(HrefsOf(d))
      /\ Ahrefs(d, "nofollow") \in Seq(HrefsOf(d))
  <2>1. A \subseteq H /\ B \subseteq H
    BY <1>2 DEF AreHalves
  <2> QED BY <1>1, <1>3, <2>1
<1>6. Len(Ahrefs(d, "dofollow")) + Len(Ahrefs(d, "nofollow"))
        <= Cardinality(AnchorsOf(d)) /\ Cardinality(AnchorsOf(d)) \in Nat
  <2>1. Len(Ahrefs(d, "dofollow")) + Len(Ahrefs(d, "nofollow"))
          = Cardinality(I)
    BY <1>2, <1>3, LinksInTwoLists
  <2>2. IsFiniteSet(AnchorsOf(d))
    BY SetsOfNodes DEF AnchorsOf
  <2>3. Cardinality(I) <= Cardinality(AnchorsOf(d))
    BY <1>2, <2>2, FS_Subset
  <2>4. Cardinality(AnchorsOf(d)) \in Nat
    BY <2>2, FS_CardinalityType
  <2> QED BY <2>1, <2>3, <2>4
<1>7. CASE d.html
  BY <1>4, <1>5, <1>6, <1>7 DEF UrlList
<1>8. CASE ~d.html
  <2>1. /\ UrlList(d) = Nothing
        /\ Len(Nothing.dofollow) = 0 /\ Len(Nothing.nofollow) = 0
    BY <1>8 DEF UrlList, Nothing
  <2> QED BY <1>6, <2>1 DEF Nothing
<1>. QED BY <1>7, <1>8

(* The lists added to the schedule hold links of the page, and as long as  *)
(* the behaviour is defined each of the two for its a elements lacks the   *)
(* one that erase has taken from it.                                       *)
THEOREM LinksAreTyped == LinksSpec => []LinksTypeOK
<1>1. LinksInit => LinksTypeOK
  BY DEF LinksInit, LinksTypeOK
<1>2. ASSUME LinksTypeOK, [LinksNext]_linkVars
      PROVE  LinksTypeOK'
  <2>1. ASSUME NEW d \in Pages, HandlePage(d)
        PROVE  LinksTypeOK'
    <3>1. d # NoPage /\ IsDocument(d) /\ page' = d /\ options' = options
      BY <2>1, PagesAssumption DEF HandlePage, IsPage
    <3> DEFINE urls == UrlList(d)  H == HrefsOf(d)
    <3>2. PICK dofollow \in EraseOutcomes(urls.dofollow, "dofollow"),
               nofollow \in EraseOutcomes(urls.nofollow, "nofollow"),
               hreflang \in IF options.crawlMetaHrefLangLinks
                            THEN EraseOutcomes(urls.hreflang, "dofollow")
                            ELSE {Outcome(<<>>, TRUE)} :
            /\ added' = IF dofollow.defined /\ nofollow.defined
                        THEN [dofollow |-> dofollow.list,
                              nofollow |-> nofollow.list,
                              hreflang |-> hreflang.list]
                        ELSE Nothing
            /\ defined' = /\ dofollow.defined /\ nofollow.defined
                          /\ hreflang.defined
      BY <2>1 DEF HandlePage
    <3>3. /\ urls.dofollow \in Seq(H) /\ urls.nofollow \in Seq(H)
          /\ urls.hreflang \in Seq(H)
          /\ Len(urls.dofollow) + Len(urls.nofollow)
               <= Cardinality(AnchorsOf(d))
      BY <3>1, ListsOfPage
    <3> HIDE DEF urls, H
    <3>4. /\ dofollow.list \in Seq(H) /\ dofollow.defined \in BOOLEAN
          /\ dofollow.defined => Len(dofollow.list) + 1 = Len(urls.dofollow)
      BY <3>2, <3>3, OneIsErased
    <3>5. /\ nofollow.list \in Seq(H) /\ nofollow.defined \in BOOLEAN
          /\ nofollow.defined => Len(nofollow.list) + 1 = Len(urls.nofollow)
      BY <3>2, <3>3, OneIsErased
    <3>6. hreflang.list \in Seq(H) /\ hreflang.defined \in BOOLEAN
      <4>1. CASE hreflang \in EraseOutcomes(urls.hreflang, "dofollow")
        BY <3>3, <4>1, OneIsErased
      <4>2. CASE hreflang = Outcome(<<>>, TRUE)
        BY <4>2 DEF Outcome
      <4> QED BY <3>2, <4>1, <4>2
    <3>7. /\ \A kind \in DOMAIN added' : added'[kind] \in Seq(H)
          /\ defined' \in BOOLEAN
      <4>1. CASE dofollow.defined /\ nofollow.defined
        <5>1. added' = [dofollow |-> dofollow.list,
                        nofollow |-> nofollow.list,
                        hreflang |-> hreflang.list]
          BY <3>2, <4>1
        <5>2. \A kind \in DOMAIN added' : added'[kind] \in Seq(H)
          BY <3>4, <3>5, <3>6, <5>1
        <5> QED BY <3>2, <5>2
      <4>2. CASE ~(dofollow.defined /\ nofollow.defined)
        <5>1. added' = Nothing
          BY <3>2, <4>2
        <5>2. \A kind \in DOMAIN Nothing : Nothing[kind] = <<>>
          BY DEF Nothing
        <5>3. <<>> \in Seq(H)
          OBVIOUS
        <5> QED BY <3>2, <5>1, <5>2, <5>3
      <4> QED BY <4>1, <4>2
    <3>8. defined' => Len(added'.dofollow) + Len(added'.nofollow) + 2
                        <= Cardinality(AnchorsOf(d))
      <4> SUFFICES ASSUME defined'
                   PROVE  Len(added'.dofollow) + Len(added'.nofollow) + 2
                            <= Cardinality(AnchorsOf(d))
        OBVIOUS
      <4>1. /\ added'.dofollow = dofollow.list
            /\ added'.nofollow = nofollow.list
            /\ Len(dofollow.list) + 1 = Len(urls.dofollow)
            /\ Len(nofollow.list) + 1 = Len(urls.nofollow)
        BY <3>2, <3>4, <3>5
      <4>2. Len(dofollow.list) \in Nat /\ Len(nofollow.list) \in Nat
        BY <3>4, <3>5
      <4>3. Len(dofollow.list) + Len(nofollow.list) + 2
              = Len(urls.dofollow) + Len(urls.nofollow)
        <5>1. \A a, b \in Nat : a + b + 2 = (a + 1) + (b + 1)
          OBVIOUS
        <5>2. Len(dofollow.list) + Len(nofollow.list) + 2
                = (Len(dofollow.list) + 1) + (Len(nofollow.list) + 1)
          BY <4>2, <5>1
        <5> QED BY <4>1, <5>2
      <4> QED BY <3>3, <4>1, <4>3
    <3>9. options' \in Options
      BY <1>2, <3>1 DEF LinksTypeOK
    <3> QED BY <3>1, <3>7, <3>8, <3>9 DEF LinksTypeOK, AnchorsOf, H
  <2>2. CASE UNCHANGED linkVars
    BY <1>2, <2>2 DEF LinksTypeOK, linkVars
  <2> QED BY <1>2, <2>1, <2>2 DEF LinksNext
<1> QED BY <1>1, <1>2, PTL DEF LinksSpec

=============================================================================
