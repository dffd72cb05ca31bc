------------------------------ MODULE Discovery ------------------------------
(***************************************************************************)
(* The discovery crawler of rie_ingest: repeated crawls of one             *)
(* jurisdiction's portals, the cache of known contents that persists       *)
(* between them, and the files of proposals they leave to the reviewer.    *)
(*                                                                         *)
(* A crawl keeps everything in memory until its queue or its page budget   *)
(* runs out; then the cache is replaced on disk, and after that the        *)
(* proposals are written.  The web may change, a fetch may fail and the    *)
(* process may die at any moment.                                          *)
(*                                                                         *)
(* A body is what a response's hash and content type tell apart: whether   *)
(* it is HTML, whether its type is on the allow-list, its links and a      *)
(* version.                                                                *)
(***************************************************************************)
EXTENDS Filter, SequencesExt

CONSTANTS
  Urls,
  Hosts,
  HostOf,       (* host of a URL                                           *)
  Seeds,        (* seed_urls                                               *)
  InScope,      (* URLs on a seed's host that match link_regexes           *)
  Disallowed,   (* URLs the hosts' robots.txt disallows                    *)
  Malformed,    (* URLs httpx refuses to request                           *)
  Bodies,
  InitialWebs,  (* the webs a history may start from                       *)
  NoPage,       (* no page; not in the cache                               *)
  DepthLimit, MaxPages,
  MaxCrawls, MaxWebChanges   (* bounds on the history                      *)

ASSUME UrlAssumption ==
  /\ HostOf \in [Urls -> Hosts]
  /\ Seeds \in Seq(Urls)
  /\ InScope \subseteq Urls /\ Disallowed \subseteq Urls /\ Malformed \subseteq Urls
ASSUME BodyAssumption ==
  /\ Bodies \subseteq [html : BOOLEAN, listed : BOOLEAN, links : Seq(Urls), version : Nat]
  /\ NoPage \notin Bodies
ASSUME WebAssumption == InitialWebs \subseteq [Urls -> Bodies \cup {NoPage}]
ASSUME CrawlBounds == {DepthLimit, MaxPages, MaxCrawls, MaxWebChanges} \subseteq Nat

VARIABLES
  web,         (* web[u]: the body a request of u ends at, redirects       *)
               (* followed                                                 *)
  disk,        (* the cache file: the last known body of each URL          *)
  written,     (* what the proposal files contain                          *)
  activity,
  known,       (* the cache of the running crawl                           *)
  policy,      (* policy[h]: what robots.txt of h came to, "rules" or      *)
               (* "none"; "unknown" until it is asked for                  *)
  queue, seen, pages,
  proposals,
  quiet,       (* history: no fetch of this crawl failed and the web has   *)
               (* not changed since it began                               *)
  lost,        (* history: proposals that were cached and never written    *)
  crawls, webChanges

crawl == <<known, policy, queue, seen, pages, proposals, quiet>>
discoveryVars == <<web, disk, written, activity, crawl, lost, crawls, webChanges>>

-----------------------------------------------------------------------------
Cache    == [Urls -> Bodies \cup {NoPage}]
Proposal == [url : Urls, body : Bodies]

DiscoveryTypeOK ==
  /\ web \in Cache /\ disk \in Cache /\ known \in Cache
  /\ written \subseteq Proposal /\ lost \subseteq Proposal
  /\ activity \in {"idle", "crawl", "write"}
  /\ policy \in [Hosts -> {"unknown", "rules", "none"}]
  /\ queue \in Seq([url : Urls, depth : 0..DepthLimit])
  /\ seen \subseteq Urls
  /\ pages \in 0..MaxPages
  /\ proposals \in Seq(Proposal)
  /\ quiet \in BOOLEAN
  /\ crawls \in 0..MaxCrawls /\ webChanges \in 0..MaxWebChanges

Empty == [u \in Urls |-> NoPage]

DiscoveryInit ==
  /\ web \in InitialWebs
  /\ disk = Empty /\ written = {} /\ lost = {}
  /\ activity = "idle"
  /\ known = Empty /\ policy = [h \in Hosts |-> "unknown"]
  /\ queue = <<>> /\ seen = {} /\ pages = 0 /\ proposals = <<>>
  /\ quiet = TRUE
  /\ crawls = 0 /\ webChanges = 0

-----------------------------------------------------------------------------
(* crawl: the cache is loaded; the seeds are the first to be visited.      *)
StartCrawl ==
  /\ activity = "idle" /\ crawls < MaxCrawls
  /\ activity' = "crawl"
  /\ known' = disk
  /\ policy' = [h \in Hosts |-> "unknown"]
  /\ queue' = [i \in DOMAIN Seeds |-> [url |-> Seeds[i], depth |-> 0]]
  /\ seen' = {} /\ pages' = 0 /\ proposals' = <<>>
  /\ quiet' = TRUE
  /\ crawls' = crawls + 1
  /\ UNCHANGED <<web, disk, written, lost, webChanges>>

Visiting == activity = "crawl" /\ queue # <<>> /\ pages < MaxPages
Url      == Head(queue).url

(* A URL may wait in the queue more than once.                             *)
SkipSeen ==
  /\ Visiting /\ Url \in seen
  /\ queue' = Tail(queue)
  /\ UNCHANGED <<web, disk, written, activity, known, policy, seen, pages, proposals,
                 quiet, lost, crawls, webChanges>>

(* robots.txt of a host is requested once; without an answer everything    *)
(* is allowed.                                                             *)
ReadRobots(answer) ==
  /\ Visiting /\ Url \notin seen /\ policy[HostOf[Url]] = "unknown"
  /\ policy' = [policy EXCEPT ![HostOf[Url]] = answer]
  /\ UNCHANGED <<web, disk, written, activity, known, queue, seen, pages, proposals,
                 quiet, lost, crawls, webChanges>>

Allowed(u) == u \notin Disallowed \/ policy[HostOf[u]] # "rules"

(* The URL at the head is visited: whatever comes of it, not again.        *)
Visit ==
  /\ Visiting /\ Url \notin seen /\ policy[HostOf[Url]] # "unknown"
  /\ seen' = seen \cup {Url}

SkipDisallowed ==
  /\ Visit /\ ~Allowed(Url)
  /\ queue' = Tail(queue)
  /\ UNCHANGED <<web, disk, written, activity, known, policy, pages, proposals,
                 quiet, lost, crawls, webChanges>>

(* An HTTPError costs no page.                                             *)
FetchFails ==
  /\ Visit /\ Allowed(Url) /\ Url \notin Malformed
  /\ queue' = Tail(queue)
  /\ quiet' = FALSE
  /\ UNCHANGED <<web, disk, written, activity, known, policy, pages, proposals,
                 lost, crawls, webChanges>>

FetchMissing ==
  /\ Visit /\ Allowed(Url) /\ Url \notin Malformed /\ web[Url] = NoPage
  /\ queue' = Tail(queue)
  /\ pages' = pages + 1
  /\ UNCHANGED <<web, disk, written, activity, known, policy, proposals, quiet,
                 lost, crawls, webChanges>>

(* Mutant: a page at the depth limit is followed, too.                     *)
FollowedDeeper(entry, body) ==
  IF body.html /\ entry.depth <= DepthLimit
    THEN LET links == Kept(body.links, InScope \ seen')
         IN  [i \in DOMAIN links |-> [url |-> links[i], depth |-> entry.depth + 1]]
    ELSE <<>>

(* The links of a page that are followed, one level below it.              *)
Followed(entry, body) ==
  IF body.html /\ entry.depth < DepthLimit
    THEN LET links == Kept(body.links, InScope \ seen')
         IN  [i \in DOMAIN links |-> [url |-> links[i], depth |-> entry.depth + 1]]
    ELSE <<>>

(* Mutant: what is known is proposed again.                                *)
FetchBodyAnyway ==
  LET body == web[Url]
  IN  /\ Visit /\ Allowed(Url) /\ Url \notin Malformed /\ body # NoPage
      /\ pages' = pages + 1
      /\ IF body.listed
           THEN /\ known' = [known EXCEPT ![Url] = body]
                /\ proposals' = Append(proposals, [url |-> Url, body |-> body])
           ELSE UNCHANGED <<known, proposals>>
      /\ queue' = Tail(queue) \o Followed(Head(queue), body)
      /\ UNCHANGED <<web, disk, written, activity, policy, quiet, lost, crawls, webChanges>>

(* Mutant: the links of a page are visited before what was waiting.        *)
FetchBodyDepthFirst ==
  LET body == web[Url]
  IN  /\ Visit /\ Allowed(Url) /\ Url \notin Malformed /\ body # NoPage
      /\ pages' = pages + 1
      /\ IF body.listed
           THEN /\ known' = [known EXCEPT ![Url] = body]
                /\ proposals' = IF known[Url] = body THEN proposals
                                ELSE Append(proposals, [url |-> Url, body |-> body])
           ELSE UNCHANGED <<known, proposals>>
      /\ queue' = Followed(Head(queue), body) \o Tail(queue)
      /\ UNCHANGED <<web, disk, written, activity, policy, quiet, lost, crawls, webChanges>>

(* A response: proposed if its type is listed and the cache has another    *)
(* body or none, and followed if it is HTML, known or not.                 *)
FetchBody ==
  LET body == web[Url]
  IN  /\ Visit /\ Allowed(Url) /\ Url \notin Malformed /\ body # NoPage
      /\ pages' = pages + 1
      /\ IF body.listed
           THEN /\ known' = [known EXCEPT ![Url] = body]
                /\ proposals' = IF known[Url] = body THEN proposals
                                ELSE Append(proposals, [url |-> Url, body |-> body])
           ELSE UNCHANGED <<known, proposals>>
      /\ queue' = Tail(queue) \o Followed(Head(queue), body)
      /\ UNCHANGED <<web, disk, written, activity, policy, quiet, lost, crawls, webChanges>>

(* Mutant: the cache is persisted even so.                                 *)
AbortPersists ==
  /\ Visit /\ Allowed(Url) /\ Url \in Malformed
  /\ activity' = "idle"
  /\ disk' = known
  /\ UNCHANGED <<web, written, known, policy, queue, pages, proposals, quiet,
                 lost, crawls, webChanges>>

(* httpx.InvalidURL is not an HTTPError: it ends the process.              *)
Abort ==
  /\ Visit /\ Allowed(Url) /\ Url \in Malformed
  /\ activity' = "idle"
  /\ UNCHANGED <<web, disk, written, known, policy, queue, pages, proposals,
                 quiet, lost, crawls, webChanges>>

(* The queue or the budget is exhausted: the cache is persisted ...        *)
EndCrawl ==
  /\ activity = "crawl" /\ (queue = <<>> \/ pages = MaxPages)
  /\ disk' = known
  /\ activity' = "write"
  /\ UNCHANGED <<web, written, crawl, lost, crawls, webChanges>>

(* ... and then the proposals are written.                                 *)
WriteProposals ==
  /\ activity = "write"
  /\ written' = written \cup ToSet(proposals)
  /\ activity' = "idle"
  /\ UNCHANGED <<web, disk, crawl, lost, crawls, webChanges>>

-----------------------------------------------------------------------------
CrawlCrash ==
  /\ activity # "idle"
  /\ activity' = "idle"
  /\ lost' = IF activity = "write" THEN lost \cup ToSet(proposals) ELSE lost
  /\ UNCHANGED <<web, disk, written, crawl, crawls, webChanges>>

ChangeWeb(u, body) ==
  /\ webChanges < MaxWebChanges /\ web[u] # body
  /\ web' = [web EXCEPT ![u] = body]
  /\ webChanges' = webChanges + 1
  /\ quiet' = FALSE
  /\ UNCHANGED <<disk, written, activity, known, policy, queue, seen, pages,
                 proposals, lost, crawls>>

DiscoveryNext ==
  \/ StartCrawl \/ SkipSeen
  \/ \E answer \in {"rules", "none"} : ReadRobots(answer)
  \/ SkipDisallowed \/ FetchFails \/ FetchMissing \/ FetchBody \/ Abort
  \/ EndCrawl \/ WriteProposals
  \/ CrawlCrash
  \/ \E u \in Urls, body \in Bodies \cup {NoPage} : ChangeWeb(u, body)

DiscoverySpec == DiscoveryInit /\ [][DiscoveryNext]_discoveryVars

-----------------------------------------------------------------------------
(***************************************************************************)
(* Properties of every history of crawls.                                  *)
(***************************************************************************)

(* What a crawl is to find: the URLs within d links of a seed, along HTML  *)
(* pages it may fetch.  onward[p] is where the links of p lead.            *)
Fetched(u) == Allowed(u) /\ u \notin Malformed /\ web[u] # NoPage

Onward ==
  [p \in Urls |->
     IF Fetched(p) /\ web[p].html THEN InScope \cap ToSet(web[p].links) ELSE {}]

Reach(onward) ==
  LET reach[d \in 0..DepthLimit] ==
        IF d = 0 THEN ToSet(Seeds)
        ELSE reach[d - 1] \cup UNION {onward[p] : p \in reach[d - 1]}
  IN  reach

Within == Reach(Onward)

News == {p \in Proposal : /\ p.url \in Within[DepthLimit] /\ Fetched(p.url)
                          /\ p.body = web[p.url] /\ p.body.listed
                          /\ disk[p.url] # p.body}

(* A crawl that meets no failure and no change of the web, and empties its *)
(* queue, proposes exactly the news: every listed document within the      *)
(* depth limit whose body the cache did not have, and nothing else.  The   *)
(* depth limit is exact only because the queue is first in, first out: a   *)
(* page is marked as seen at the depth it is first taken at (_crawl_with). *)
QuietCrawlFindsAll ==
  activity = "crawl" /\ quiet /\ queue = <<>> => ToSet(proposals) = News

(* Running the crawl again proposes only what has changed: no body that    *)
(* the cache on disk had when the crawl began, and no URL twice, whatever  *)
(* changes or fails meanwhile (crawl: "Idempotent").                       *)
ProposesOnlyChanges ==
  activity = "crawl" =>
    \A i, j \in DOMAIN proposals :
      /\ proposals[i].body # disk[proposals[i].url]
      /\ proposals[i].url = proposals[j].url => i = j

(* A content the cache remembers, so that no later crawl will propose it,  *)
(* is in the reviewer's files or about to be, except what a crash between  *)
(* the two writes has lost: an aborted crawl leaves no trace (crawl, main).*)
KnownIsProposed ==
  \A u \in Urls : disk[u] # NoPage =>
    [url |-> u, body |-> disk[u]] \in
       written \cup lost \cup (IF activity = "write" THEN ToSet(proposals) ELSE {})
=============================================================================
