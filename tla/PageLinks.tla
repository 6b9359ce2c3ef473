------------------------------ MODULE PageLinks -----------------------------
(***************************************************************************)
(* What a worker takes from a page: UrlParser and MyHtmlParser collect its *)
(* links, SpiderWorker::handlePage passes them through OptionsLinkFilter   *)
(* and the user's regular expressions and adds what is left to the         *)
(* schedule.  Nothing is kept from one page to the next, so one page       *)
(* under each setting of the options is handled.                           *)
(*                                                                         *)
(* The links are not resolved: urlList throws the results of resolveUrl    *)
(* away, and with them the base tag.  A host or a path is the sequence of  *)
(* its parts, in lower case; the encoding of the page changes no link.     *)
(***************************************************************************)
EXTENDS HtmlParsers

CONSTANTS
  StartPage,   \* startCrawlingPage
  Pages,       \* what a page may be
  Excluded,    \* addresses that match an expression of excludeUrlRegExps
  Disallowed,  \* addresses that robots.txt disallows
  NoPage

ASSUME PagesAssumption ==
  /\ NoPage \notin Pages
  /\ \A d \in Pages : IsPage(d)
ASSUME HostsAssumption ==
  /\ StartPage.host \in Seq(STRING)
  /\ \A d \in Pages : \A n \in Nodes(d) :
       d.href[n] = Absent \/ d.href[n].host \in Seq(STRING)
ASSUME PathsAssumption ==
  /\ StartPage.path \in Seq(STRING)
  /\ \A d \in Pages : \A n \in Nodes(d) :
       d.href[n] = Absent \/ d.href[n].path \in Seq(STRING)

VARIABLES
  options,     \* m_optionsData
  page,        \* the page handled, or NoPage
  added,       \* the lists given to addUrlList
  defined      \* the behaviour is still defined

linkVars == <<options, page, added, defined>>

Nothing == [dofollow |-> <<>>, nofollow |-> <<>>, hreflang |-> <<>>]

Options ==
  [followExternalNofollow : BOOLEAN, followInternalNofollow : BOOLEAN,
   checkSubdomains : BOOLEAN, checkExternalLinks : BOOLEAN,
   crawlOutsideOfStartFolder : BOOLEAN, followRobotsTxtRules : BOOLEAN,
   crawlMetaHrefLangLinks : BOOLEAN]

AhrefRelType == {"dofollow", "nofollow"}

-----------------------------------------------------------------------------
(* PageParserHelpers.                                                      *)

EndsWith(host, end) == IsSuffix(end, host)
Www(host) == <<"www.">> \o host

IsSubdomain(url) ==
  /\ IsHttpOrHttpsScheme(StartPage) /\ IsHttpOrHttpsScheme(url)
  /\ ~IsRelative(StartPage) /\ ~IsRelative(url)
  /\ url # StartPage
  /\ url.host # StartPage.host
  /\ \/ EndsWith(StartPage.host, url.host)
     \/ EndsWith(url.host, StartPage.host)

IsUrlExternal(url, allowSubdomains) ==
  /\ url.host # StartPage.host
  /\ ~EndsWith(url.host, Www(StartPage.host))
  /\ ~EndsWith(StartPage.host, Www(url.host))
  /\ ~(allowSubdomains /\ IsSubdomain(url))

(* Faulty: the slash behind the folder is not looked for. *)
IsUrlInsideByPrefix(url) ==
  /\ ~IsUrlExternal(url, FALSE)
  /\ IsPrefix(StartPage.path, url.path)

IsUrlInsideBaseUrlFolder(url) ==
  LET base == StartPage.path
      folder == IF base # <<>> /\ Last(base) = "/" THEN base
                                                  ELSE Append(base, "/")
  IN  /\ ~IsUrlExternal(url, FALSE)
      /\ \/ base \in {<<>>, <<"/">>}
         \/ base = url.path
         \/ Len(base) < Len(url.path) /\ IsPrefix(folder, url.path)

-----------------------------------------------------------------------------
(* OptionsLinkFilter::isUrlAllowedToCrawl                                  *)

(* Faulty: what ends in the start page's host is never refused. *)
SubdomainAllowed(url, o) == TRUE

SubdomainNotRefused(url, o) == ~IsSubdomain(url) \/ o.checkSubdomains

IsUrlAllowedToCrawl(url, rel, o) ==
  LET external == IsUrlExternal(url, o.checkSubdomains)
  IN  /\ IsHttpOrHttpsScheme(url)
      /\ rel = "nofollow" => IF external THEN o.followExternalNofollow
                                         ELSE o.followInternalNofollow
      /\ SubdomainNotRefused(url, o)
      /\ \/ external \/ IsSubdomain(url) \/ o.crawlOutsideOfStartFolder
         \/ IsUrlInsideBaseUrlFolder(url)
      /\ external => o.checkExternalLinks
      /\ ~external /\ o.followRobotsTxtRules => url \notin Disallowed

-----------------------------------------------------------------------------
(* The links of a page.                                                    *)

UrlList(d) ==
  IF ~d.html THEN Nothing
  ELSE [dofollow |-> Ahrefs(d, "dofollow"),
        nofollow |-> Ahrefs(d, "nofollow"),
        hreflang |-> Hreflangs(d)]

-----------------------------------------------------------------------------
(* SpiderWorker::handlePage                                                *)

(* The predicate of remove_if: it names what is allowed or excluded. *)
Removed(url, rel) ==
  IsUrlAllowedToCrawl(url, rel, options) \/ url \in Excluded

(* erase(remove_if(...)) takes one element away: one of those behind the   *)
(* ones that stay, or, when there is none, the one behind the last, which  *)
(* is undefined: the last one goes, or the program does.                   *)
Outcome(list, isDefined) == [list |-> list, defined |-> isDefined]

EraseOutcomes(list, rel) ==
  LET removed == {url \in ToSet(list) : Removed(url, rel)}
      stay == Without(list, removed)
      go == OnlyIn(list, removed)
  IN  CASE go # <<>> ->
             {Outcome(stay \o RemoveAt(go, i), TRUE) : i \in DOMAIN go}
        [] list = <<>> -> {Outcome(<<>>, FALSE)}
        [] OTHER -> {Outcome(Front(list), TRUE), Outcome(<<>>, FALSE)}

HandlePage(d) ==
  /\ page = NoPage
  /\ page' = d
  /\ UNCHANGED options
  /\ LET urls == UrlList(d)
     IN  \E dofollow \in EraseOutcomes(urls.dofollow, "dofollow"),
            nofollow \in EraseOutcomes(urls.nofollow, "nofollow"),
            hreflang \in IF options.crawlMetaHrefLangLinks
                         THEN EraseOutcomes(urls.hreflang, "dofollow")
                         ELSE {Outcome(<<>>, TRUE)} :
           /\ added' = IF dofollow.defined /\ nofollow.defined
                       THEN [dofollow |-> dofollow.list,
                             nofollow |-> nofollow.list,
                             hreflang |-> hreflang.list]
                       ELSE Nothing
           /\ defined' = /\ dofollow.defined /\ nofollow.defined
                         /\ hreflang.defined

LinksInit ==
  /\ options \in Options
  /\ page = NoPage /\ added = Nothing /\ defined = TRUE

LinksNext == \E d \in Pages : HandlePage(d)
LinksSpec == LinksInit /\ [][LinksNext]_linkVars

-----------------------------------------------------------------------------
HrefsOf(d) == {d.href[n] : n \in Nodes(d)} \ {Absent}
Addresses == UNION {HrefsOf(d) : d \in Pages}

(* Each list holds links of the page; no a element is in both lists, and   *)
(* erase has taken one from each.                                          *)
LinksTypeOK ==
  /\ options \in Options
  /\ page \in Pages \cup {NoPage}
  /\ defined \in BOOLEAN
  /\ page = NoPage => added = Nothing
  /\ page # NoPage =>
       /\ \A kind \in DOMAIN added : added[kind] \in Seq(HrefsOf(page))
       /\ defined => Len(added.dofollow) + Len(added.nofollow) + 2
                       <= Cardinality({n \in Nodes(page) : page.tag[n] = "a"})

(* What MyHtmlNode and GumboHtmlNode, as far as both implement IHtmlNode,  *)
(* find in the page's tree is the same but for templates, for what is no   *)
(* element, and for the plain text.                                        *)
NodesAgree ==
  page # NoPage =>
    /\ WalksAgree(page) /\ LookupsAgree(page)
    /\ ChildrenAgree(page) /\ TextsAgree(page)

(* MyHtmlParser and GumboHtmlParser read the same links and hreflangs from *)
(* the page, but for templates and for attributes that only one of them    *)
(* cleans, and the same encoding, if both know the charsets it names.      *)
ParsersAgree == page # NoPage => LinksAgree(page) /\ EncodingAgrees(page)

(* With neither external links nor subdomains the filter lets of the links *)
(* with a scheme only the start page's own host pass, not even the same    *)
(* name with a www. in front that isUrlExternal takes for internal; with   *)
(* subdomains one of the two hosts ends in the other.  (Without a scheme   *)
(* nothing is a subdomain: a link //www.site is internal, and passes.)     *)
StaysOnHost ==
  \A url \in Addresses, rel \in AhrefRelType :
    /\ StartPage.scheme \in {"http", "https"} /\ ~IsRelative(url)
    /\ ~options.checkExternalLinks
    /\ IsUrlAllowedToCrawl(url, rel, options)
    => \/ url.host = StartPage.host
       \/ /\ options.checkSubdomains
          /\ \/ EndsWith(url.host, StartPage.host)
             \/ EndsWith(StartPage.host, url.host)

(* A link on the start page's host that the filter lets pass is the start  *)
(* page or lies in its folder, unless the crawl may leave it: a name that  *)
(* only begins like the folder's does not do.                              *)
InFolder(base, path) ==
  \/ base \in {<<>>, <<"/">>, path}
  \/ /\ IsPrefix(base, path) /\ base # path
     /\ Last(base) = "/" \/ path[Len(base) + 1] = "/"

StaysInFolder ==
  \A url \in Addresses, rel \in AhrefRelType :
    /\ ~options.crawlOutsideOfStartFolder
    /\ url.host = StartPage.host
    /\ IsUrlAllowedToCrawl(url, rel, options)
    => InFolder(StartPage.path, url.path)

(* Allowing more never loses a link: although subdomains turn from         *)
(* external into internal links and meet other conditions, every link that *)
(* some options let pass is let pass by options that forbid less.  (Stated *)
(* before the page, which the options outlive unchanged.)                  *)
ForbidsLess(o, p) ==
  /\ o.followExternalNofollow => p.followExternalNofollow
  /\ o.followInternalNofollow => p.followInternalNofollow
  /\ o.checkSubdomains => p.checkSubdomains
  /\ o.checkExternalLinks => p.checkExternalLinks
  /\ o.crawlOutsideOfStartFolder => p.crawlOutsideOfStartFolder
  /\ p.followRobotsTxtRules => o.followRobotsTxtRules

OptionsAreMonotonic ==
  page = NoPage =>
  \A p \in Options, url \in Addresses, rel \in AhrefRelType :
    ForbidsLess(options, p) /\ IsUrlAllowedToCrawl(url, rel, options)
      => IsUrlAllowedToCrawl(url, rel, p)

-----------------------------------------------------------------------------
(* "all external urls are not allowed" (options_link_filter.cpp, line 78)  *)
(* without checkExternalLinks: none is added to the schedule, as long as   *)
(* the behaviour is defined.                                               *)
ExternalsAreNotScheduled ==
  defined => \A kind \in DOMAIN added : \A i \in DOMAIN added[kind] :
               IsUrlExternal(added[kind][i], options.checkSubdomains)
                 => options.checkExternalLinks
=============================================================================
