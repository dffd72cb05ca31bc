---------------------------- MODULE SourceCrawler ----------------------------
(***************************************************************************)
(* SourceDiscoveryCrawler: from a seed to provisional registry entries, by *)
(* the sitemap if the site has one and breadth-first otherwise, or from a  *)
(* directory of pages without any request.                                 *)
(*                                                                         *)
(* URLs are normalised.  A page is its links in order, each with whether   *)
(* its anchor text looks legal; a request is answered or lost at will.     *)
(***************************************************************************)
EXTENDS Filter, SequencesExt, FiniteSetsExt

CONSTANTS
  SiteUrls, Seed,
  Home,       (* URLs of the seed's host                                   *)
  Legal,      (* URLs whose path or query looks legal                      *)
  Terminal,   (* URLs that end like a document                             *)
  Sites,
  Listing,    (* the names a directory may have, sorted                    *)
  PageBudget  (* max_pages                                                 *)

Link == [url : SiteUrls, legal : BOOLEAN]

(* What a site serves: pages (HTML), other answers, and the rest is not    *)
(* found; the URLs robots.txt disallows and the locs of the sitemap.       *)
Site == [links : [SiteUrls -> Seq(Link)], html : SUBSET SiteUrls,
         disallowed : SUBSET SiteUrls, locs : Seq(SiteUrls)]

ASSUME SiteAssumption ==
  /\ Sites \subseteq Site /\ PageBudget \in Nat /\ Listing \in Seq(SiteUrls)
  /\ Seed \in Home /\ Home \cup Legal \cup Terminal \subseteq SiteUrls

VARIABLES
  site,
  crawlPhase,
  respect,     (* respect_robots                                           *)
  barred,      (* URLs the crawl may not touch                             *)
  upcoming, visited, fetched,   (* queue, seen, pages                      *)
  found,       (* hits                                                     *)
  entries,     (* the entries, as the URLs they are for                    *)
  unanswered   (* history: some request was not answered                   *)

walkVars        == <<upcoming, visited, fetched, found>>
siteCrawlerVars == <<site, crawlPhase, respect, barred, walkVars, entries, unanswered>>

SiteCrawlerTypeOK ==
  /\ site \in Sites /\ respect \in BOOLEAN /\ barred \subseteq SiteUrls
  /\ crawlPhase \in {"robots", "sitemap", "crawl", "done", "offline"}
  /\ upcoming \in Seq(SiteUrls) /\ visited \subseteq SiteUrls /\ fetched \in 0..PageBudget
  /\ found \in Seq(Link) /\ entries \in Seq(SiteUrls) /\ unanswered \in BOOLEAN

SiteCrawlerInit ==
  /\ site \in Sites /\ respect \in BOOLEAN
  /\ crawlPhase = "robots" /\ barred = {}
  /\ upcoming = <<Seed>> /\ visited = {} /\ fetched = 0 /\ found = <<>>
  /\ entries = <<>> /\ unanswered = FALSE

-----------------------------------------------------------------------------
UrlsOf(links) == [n \in DOMAIN links |-> links[n].url]
Bare(urls)    == [n \in DOMAIN urls |-> [url |-> urls[n], legal |-> FALSE]]

(* Links that look legal, themselves or by their anchors.                  *)
LegalLinks == {l \in Link : l.url \in Legal \/ l.legal}

(* An entry for each URL of a hit that looks legal, in order.              *)
EntriesFromHits(hits) == WithoutRepeats(UrlsOf(Kept(hits, LegalLinks)))

(* The anchors of the first n of some pages.                               *)
AnchorsOf(names) ==
  LET anchors[n \in 0..Len(names)] ==
        IF n = 0 THEN <<>> ELSE anchors[n - 1] \o site.links[names[n]]
  IN  anchors

(* Offline, every link of every page is a hit, whatever its host, after    *)
(* the files that look legal themselves; there is no robots.txt to read.   *)
DiscoverOffline(files) ==
  LET seeds == Kept(Listing, files \cap Legal)
      names == Kept(Listing, files \cap site.html)
  IN  /\ crawlPhase = "robots"
      /\ entries' = EntriesFromHits(Bare(seeds) \o AnchorsOf(names)[Len(names)])
      /\ crawlPhase' = "offline"
      /\ UNCHANGED <<site, respect, barred, walkVars, unanswered>>

(* robots.txt: where it is not answered, everything is allowed.            *)
LoadRobots(answered) ==
  /\ crawlPhase = "robots"
  /\ barred' = IF respect /\ answered THEN site.disallowed ELSE {}
  /\ unanswered' = ~answered
  /\ crawlPhase' = "sitemap"
  /\ UNCHANGED <<site, respect, walkVars, entries>>

(* The sitemap, where it has any loc, replaces the crawl even when no loc  *)
(* is an entry.                                                            *)
TrySitemap(answered) ==
  LET locs == IF answered THEN site.locs ELSE <<>>
  IN  /\ crawlPhase = "sitemap"
      /\ IF locs = <<>>
           THEN crawlPhase' = "crawl" /\ UNCHANGED entries
           ELSE /\ entries' = EntriesFromHits(Bare(Kept(locs, Home \ barred)))
                /\ crawlPhase' = "done"
      /\ unanswered' = (unanswered \/ ~answered)
      /\ UNCHANGED <<site, respect, barred, walkVars>>

(* The links of a page the crawl may follow or record.                     *)
Usable(page) == Kept(site.links[page], {l \in Link : l.url \in Home \ barred})

(* Mutant: documents are queued like pages.                                *)
NewPagesAll(page) ==
  WithoutRepeats(Kept(UrlsOf(Usable(page)),
                      SiteUrls \ (visited \cup {page} \cup ToSet(Tail(upcoming)))))

(* The links that join the queue: once each, no documents, nothing queued  *)
(* or seen.                                                                *)
NewPages(page) ==
  WithoutRepeats(Kept(UrlsOf(Usable(page)),
                      SiteUrls \ (Terminal \cup visited \cup {page} \cup ToSet(Tail(upcoming)))))

(* One URL of the queue; `fetched` counts the requests that are answered.  *)
VisitPage(answered) ==
  LET url  == Head(upcoming)
      ask  == url \notin visited /\ url \notin barred
      page == ask /\ answered /\ url \in site.html
  IN  /\ crawlPhase = "crawl" /\ upcoming # <<>> /\ fetched < PageBudget
      /\ answered \/ ask
      /\ visited' = visited \cup {url}
      /\ fetched' = IF ask /\ answered THEN fetched + 1 ELSE fetched
      /\ found' = IF page THEN found \o Kept(Usable(url), LegalLinks) ELSE found
      /\ upcoming' = IF page THEN Tail(upcoming) \o NewPages(url) ELSE Tail(upcoming)
      /\ unanswered' = (unanswered \/ ~answered)
      /\ UNCHANGED <<site, crawlPhase, respect, barred, entries>>

EndSiteCrawl ==
  /\ crawlPhase = "crawl" /\ (upcoming = <<>> \/ fetched = PageBudget)
  /\ entries' = EntriesFromHits(found) /\ crawlPhase' = "done"
  /\ UNCHANGED <<site, respect, barred, walkVars, unanswered>>

SiteCrawlerNext ==
  \/ \E files \in SUBSET SiteUrls : DiscoverOffline(files)
  \/ \E answered \in BOOLEAN : LoadRobots(answered) \/ TrySitemap(answered) \/ VisitPage(answered)
  \/ EndSiteCrawl

SiteCrawlerSpec == SiteCrawlerInit /\ [][SiteCrawlerNext]_siteCrawlerVars

-----------------------------------------------------------------------------
LeadsTo(page) == {l.url : l \in ToSet(Usable(page))} \ Terminal

(* The pages the crawl ought to reach: the smallest set with the seed and  *)
(* every page that a page of it links to.                                  *)
Closed(ps) == {Seed} \ barred \subseteq ps /\ \A p \in ps \cap site.html : LeadsTo(p) \subseteq ps
Reachable  == {u \in SiteUrls : \A ps \in SUBSET SiteUrls : Closed(ps) => u \in ps}

(* What it ought to find on them.                                          *)
Due == {l.url : l \in UNION {ToSet(Usable(p)) \cap LegalLinks : p \in Reachable \cap site.html}}

(* A crawl in which every request is answered and that ends within its     *)
(* budget has an entry for exactly the links to the same host, allowed by  *)
(* robots.txt and legal by URL or anchor, on the pages within reach of the *)
(* seed; cut short it has a part of them, and no page takes from its       *)
(* budget twice.  Found in whatever way, each URL has one entry, and none  *)
(* that robots.txt keeps the crawl from is among them, fetched or not      *)
(* (_bfs, _discover_online, _entries_from_hits).                           *)
CrawlIsExact ==
  /\ crawlPhase = "done" /\ fetched > 0 =>
       /\ ToSet(entries) \subseteq Due
       /\ upcoming = <<>> /\ ~unanswered => ToSet(entries) = Due
       /\ fetched <= Cardinality(visited \cap Reachable)
  /\ crawlPhase \in {"done", "offline"} => IsInjective(entries)
  /\ crawlPhase = "done" => ToSet(entries) \cap barred = {}
=============================================================================
