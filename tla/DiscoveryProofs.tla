---------------------------- MODULE DiscoveryProofs ----------------------------
(***************************************************************************)
(* Theorems about the two crawlers: Discovery, for any web, seeds, scope   *)
(* and depth limit, however the web changes and wherever a crawl fails or  *)
(* dies, and SourceCrawler, for any site, listing and budget, whichever    *)
(* requests are lost.                                                      *)
(***************************************************************************)
EXTENDS Discovery, SourceCrawler, FilterProofs, SequenceTheorems, FiniteSetTheorems

(* A URL a crawl has visited has a host whose robots.txt it has asked for. *)
SeenInv == activity = "crawl" => \A u \in seen : policy[HostOf[u]] # "unknown"

(* What a crawl has not visited its cache has as the disk does; what the   *)
(* cache has otherwise is proposed, once.                                  *)
ProposalInv == activity = "crawl" =>
  /\ \A u \in Urls \ seen : known[u] = disk[u]
  /\ \A u \in Urls : known[u] # disk[u] => [url |-> u, body |-> known[u]] \in ToSet(proposals)
  /\ \A i \in DOMAIN proposals :
       proposals[i].url \in seen /\ proposals[i].body # disk[proposals[i].url]
  /\ \A i, j \in DOMAIN proposals : proposals[i].url = proposals[j].url => i = j

(* What a quiet crawl has proposed so far.                                 *)
NewsInv == activity = "crawl" /\ quiet =>
  ToSet(proposals) = {p \in Proposal : /\ p.url \in seen /\ Fetched(p.url)
                                       /\ p.body = web[p.url] /\ p.body.listed
                                       /\ disk[p.url] # p.body}

-----------------------------------------------------------------------------
(***************************************************************************)
(* The order a crawl visits in: level by level.                            *)
(***************************************************************************)

(* Where the links of the pages visited so far lead.                       *)
Walked == [p \in Urls |-> IF p \in seen THEN Onward[p] ELSE {}]

(* The queue holds at most two levels, one after the other.  Every entry   *)
(* is at a depth it can be reached at; what can be reached at a depth is   *)
(* visited, or waits at that depth or a smaller one; what is visited can   *)
(* be reached at the depth of everything that waits.                       *)
Leveled(waiting, reached, onward) ==
  /\ \A i, j \in DOMAIN waiting : i <= j =>
       waiting[i].depth <= waiting[j].depth /\ waiting[j].depth <= waiting[i].depth + 1
  /\ \A i \in DOMAIN waiting : waiting[i].url \in Reach(onward)[waiting[i].depth]
  /\ \A d \in 0..DepthLimit : \A u \in Reach(onward)[d] :
       u \in reached \/ \E i \in DOMAIN waiting : waiting[i].url = u /\ waiting[i].depth <= d
  /\ \A i \in DOMAIN waiting : reached \subseteq Reach(onward)[waiting[i].depth]
  /\ reached \subseteq Reach(onward)[DepthLimit]

LevelInv == activity = "crawl" /\ quiet => Leveled(queue, seen, Walked)

DiscoveryInv == DiscoveryTypeOK /\ SeenInv /\ ProposalInv /\ NewsInv /\ LevelInv /\ KnownIsProposed

-----------------------------------------------------------------------------
(***************************************************************************)
(* Facts about the operators.                                              *)
(***************************************************************************)

LEMMA Bounds == {DepthLimit, MaxPages, MaxCrawls, MaxWebChanges} \subseteq Nat /\ DepthLimit \in Nat
                  /\ MaxPages \in Nat /\ MaxCrawls \in Nat /\ MaxWebChanges \in Nat
  BY CrawlBounds

(* Reach satisfies the equations it is defined by.                         *)
LEMMA ReachDef ==
  ASSUME NEW onward \in [Urls -> SUBSET Urls]
  PROVE  /\ Reach(onward) \in [0..DepthLimit -> SUBSET Urls]
         /\ Reach(onward)[0] = ToSet(Seeds)
         /\ \A d \in 1..DepthLimit :
              Reach(onward)[d] = Reach(onward)[d - 1]
                                   \cup UNION {onward[p] : p \in Reach(onward)[d - 1]}
<1> DEFINE reach == CHOOSE reach : reach =
             [d \in 0..DepthLimit |->
                IF d = 0 THEN ToSet(Seeds)
                ELSE reach[d - 1] \cup UNION {onward[p] : p \in reach[d - 1]}]
           X == SUBSET Urls
           N == DepthLimit
           base == ToSet(Seeds)
           step == [p \in (1..N) \X X |-> p[2] \cup UNION {onward[q] : q \in p[2]}]
<1>1. StaysIn(step, N, X)
  BY DEF StaysIn
<1>2. N \in Nat /\ base \in X
  BY Bounds, UrlAssumption DEF ToSet
<1>3. PICK f : Recursion(f, N, X, base, step)
  <2> HIDE DEF step, N, X, base
  <2>1. QED
    BY <1>1, <1>2, RecursionDefines
<1>4. f \in [0..N -> X] /\ f[0] = base /\ \A d \in 1..N : f[d] = step[<<d, f[d - 1]>>]
  BY <1>3 DEF Recursion
<1>5. \A d \in 1..N : f[d] = f[d - 1] \cup UNION {onward[p] : p \in f[d - 1]}
  <2>1. ASSUME NEW d \in 1..N
        PROVE  f[d] = f[d - 1] \cup UNION {onward[p] : p \in f[d - 1]}
    <3>1. d - 1 \in 0..N
      BY <1>2
    <3>2. f[d - 1] \in X
      BY <1>4, <3>1
    <3>3. f[d] = step[<<d, f[d - 1]>>]
      BY <1>4
    <3>4. QED
      BY <3>2, <3>3
  <2>2. QED
    BY <2>1
<1>6. f = [d \in 0..DepthLimit |-> IF d = 0 THEN ToSet(Seeds)
                                   ELSE f[d - 1] \cup UNION {onward[p] : p \in f[d - 1]}]
  <2>1. ASSUME NEW d \in 0..DepthLimit
        PROVE  f[d] = IF d = 0 THEN ToSet(Seeds)
                      ELSE f[d - 1] \cup UNION {onward[p] : p \in f[d - 1]}
    <3>1. d = 0 \/ d \in 1..N
      BY <1>2
    <3>2. QED
      BY <1>2, <1>4, <1>5, <3>1
  <2>2. DOMAIN f = 0..DepthLimit
    BY <1>4
  <2>3. f = [d \in 0..DepthLimit |-> f[d]]
    BY <1>4, <2>2
  <2>4. QED
    BY <2>1, <2>3, Zenon
<1>7. reach = [d \in 0..DepthLimit |-> IF d = 0 THEN ToSet(Seeds)
                                       ELSE reach[d - 1] \cup UNION {onward[p] : p \in reach[d - 1]}]
  BY <1>6
<1>8. Reach(onward) = reach
  BY DEF Reach
<1> HIDE DEF reach, step
<1>9. /\ reach[0] = base
      /\ \A d \in 1..N : reach[d] = reach[d - 1] \cup UNION {onward[p] : p \in reach[d - 1]}
  <2>1. ASSUME NEW d \in 0..DepthLimit
        PROVE  reach[d] = IF d = 0 THEN ToSet(Seeds)
                          ELSE reach[d - 1] \cup UNION {onward[p] : p \in reach[d - 1]}
    BY <1>7, Zenon
  <2>2. 0 \in 0..DepthLimit /\ \A d \in 1..N : d \in 0..DepthLimit /\ d # 0
    BY <1>2
  <2>3. QED
    BY <2>1, <2>2
<1> DEFINE good == {d \in Nat : reach[d] \in SUBSET Urls}
<1>10. 0..N \subseteq good
  <2>1. 0 \in good
    BY <1>2, <1>9
  <2>2. ASSUME NEW d \in 0..N, d < N, d \in good PROVE d + 1 \in good
    <3>1. d + 1 \in 1..N /\ (d + 1) - 1 = d /\ d + 1 \in Nat
      BY <1>2, <2>2
    <3>2. reach[d + 1] = reach[d] \cup UNION {onward[p] : p \in reach[d]}
      BY <1>9, <3>1
    <3>3. QED
      BY <2>2, <3>1, <3>2
  <2> HIDE DEF good, N
  <2>3. QED
    BY <1>2, <2>1, <2>2, Induction
<1>11. reach \in [0..DepthLimit -> SUBSET Urls]
  BY <1>7, <1>10
<1>12. QED
  BY <1>8, <1>9, <1>11

(* What can be reached within d links can be reached within more.          *)
LEMMA ReachGrows ==
  ASSUME NEW onward \in [Urls -> SUBSET Urls], NEW d \in 0..DepthLimit, NEW e \in 0..DepthLimit,
         d <= e
  PROVE  Reach(onward)[d] \subseteq Reach(onward)[e]
<1> DEFINE r == Reach(onward)
           S == {n \in Nat : d <= n => r[d] \subseteq r[n]}
<1>1. \A n \in 1..DepthLimit : r[n - 1] \subseteq r[n]
  BY ReachDef
<1> HIDE DEF r
<1>2. 0 \in S
  OBVIOUS
<1>3. ASSUME NEW n \in 0..DepthLimit, n < DepthLimit, n \in S PROVE n + 1 \in S
  <2>1. n + 1 \in 1..DepthLimit /\ (n + 1) - 1 = n /\ n + 1 \in Nat
    BY <1>3, Bounds
  <2>2. r[n] \subseteq r[n + 1]
    BY <1>1, <2>1
  <2>3. QED
    BY <1>3, <2>1, <2>2
<1>4. 0..DepthLimit \subseteq S
  <2> HIDE DEF S
  <2>1. QED
    BY <1>2, <1>3, Bounds, Induction
<1>5. QED
  BY <1>4 DEF r

(* Two ways onward that agree on what can be reached within fewer than m   *)
(* links reach the same within m links.                                    *)
LEMMA ReachAgrees ==
  ASSUME NEW f \in [Urls -> SUBSET Urls], NEW g \in [Urls -> SUBSET Urls],
         NEW m \in 0..DepthLimit,
         \A d \in 0..DepthLimit : d < m => \A p \in Reach(f)[d] : f[p] = g[p]
  PROVE  \A d \in 0..m : Reach(f)[d] = Reach(g)[d]
<1> DEFINE rf == Reach(f)
           rg == Reach(g)
           S == {n \in Nat : rf[n] = rg[n]}
<1>1. /\ rf[0] = rg[0]
      /\ \A n \in 1..DepthLimit : rf[n] = rf[n - 1] \cup UNION {f[p] : p \in rf[n - 1]}
      /\ \A n \in 1..DepthLimit : rg[n] = rg[n - 1] \cup UNION {g[p] : p \in rg[n - 1]}
      /\ \A d \in 0..DepthLimit : d < m => \A p \in rf[d] : f[p] = g[p]
  BY ReachDef
<1> HIDE DEF rf, rg
<1>2. 0 \in S
  BY <1>1
<1>3. ASSUME NEW n \in 0..m, n < m, n \in S PROVE n + 1 \in S
  <2>1. n + 1 \in 1..DepthLimit /\ (n + 1) - 1 = n /\ n + 1 \in Nat /\ n \in 0..DepthLimit
    BY <1>3, Bounds
  <2>2. rf[n] = rg[n] /\ \A p \in rf[n] : f[p] = g[p]
    BY <1>1, <1>3, <2>1
  <2>3. UNION {f[p] : p \in rf[n]} = UNION {g[p] : p \in rg[n]}
    BY <2>2
  <2>4. rf[n + 1] = rg[n + 1]
    <3>1. rf[n + 1] = rf[n] \cup UNION {f[p] : p \in rf[n]}
      BY <1>1, <2>1
    <3>2. rg[n + 1] = rg[n] \cup UNION {g[p] : p \in rg[n]}
      BY <1>1, <2>1
    <3>3. QED
      BY <2>2, <2>3, <3>1, <3>2, Zenon
  <2>5. QED
    BY <2>1, <2>4
<1>4. 0..m \subseteq S
  <2> HIDE DEF S
  <2>1. m \in Nat
    BY Bounds
  <2>2. QED
    BY <1>2, <1>3, <2>1, Induction
<1>5. QED
  BY <1>4 DEF rf, rg

Entry == [url : Urls, depth : 0..DepthLimit]

(* The entry at the head of the queue, and what is behind it.              *)
LEMMA HeadTyped ==
  ASSUME DiscoveryTypeOK, queue # <<>>
  PROVE  /\ Head(queue) \in Entry /\ Head(queue) = queue[1] /\ Url \in Urls
         /\ Tail(queue) \in Seq(Entry) /\ Len(queue) \in Nat \ {0}
         /\ Len(Tail(queue)) = Len(queue) - 1
         /\ \A i \in 1..(Len(queue) - 1) : Tail(queue)[i] = queue[i + 1]
<1>1. queue \in Seq(Entry)
  BY DEF DiscoveryTypeOK, Entry
<1>2. Head(queue) \in Entry /\ Head(queue) = queue[1]
  BY <1>1
<1>3. QED
  BY <1>1, <1>2 DEF Url, Entry

(* The links that are followed: of a page above the depth limit, all that  *)
(* are in scope and not visited yet, one level below the page.             *)
LEMMA FollowedEntries ==
  ASSUME NEW entry \in Entry, NEW body \in Bodies
  PROVE  LET F == Followed(entry, body)
         IN  /\ F \in Seq(Entry)
             /\ \A i \in DOMAIN F :
                  /\ body.html /\ entry.depth < DepthLimit
                  /\ F[i].depth = entry.depth + 1
                  /\ F[i].url \in InScope \cap ToSet(body.links)
             /\ body.html /\ entry.depth < DepthLimit =>
                  \A u \in (InScope \cap ToSet(body.links)) \ seen' :
                    \E i \in DOMAIN F : F[i].url = u
<1>1. /\ body.links \in Seq(Urls) /\ body.html \in BOOLEAN
      /\ InScope \subseteq Urls /\ entry.depth \in 0..DepthLimit /\ DepthLimit \in Nat
  BY BodyAssumption, UrlAssumption, Bounds DEF Entry
<1>2. CASE ~(body.html /\ entry.depth < DepthLimit)
  <2>1. Followed(entry, body) = <<>>
    BY <1>2 DEF Followed
  <2>2. QED
    BY <1>2, <2>1
<1>3. CASE body.html /\ entry.depth < DepthLimit
  <2> DEFINE new == InScope \ seen'
             all == body.links
             links == Kept(all, new)
             F == [i \in DOMAIN links |-> [url |-> links[i], depth |-> entry.depth + 1]]
  <2>0. all \in Seq(Urls)
    BY <1>1
  <2> HIDE DEF all, new
  <2>1. /\ links \in Seq(Urls)
        /\ \A i \in DOMAIN links :
             links[i] \in new /\ \E j \in DOMAIN all : links[i] = all[j]
        /\ \A j \in DOMAIN all : all[j] \in new => \E i \in DOMAIN links : links[i] = all[j]
    BY <2>0, KeptProperties
  <2>2. Followed(entry, body) = F
    BY <1>3 DEF Followed, all, new
  <2> HIDE DEF links
  <2>3. DOMAIN links = 1..Len(links) /\ Len(links) \in Nat
    BY <2>1
  <2>4. entry.depth + 1 \in 0..DepthLimit
    BY <1>1, <1>3
  <2>5. \A i \in DOMAIN links : [url |-> links[i], depth |-> entry.depth + 1] \in Entry
    BY <2>1, <2>3, <2>4 DEF Entry
  <2>6. F \in Seq(Entry)
    BY <2>3, <2>5
  <2>7. \A i \in DOMAIN F : F[i].depth = entry.depth + 1 /\ F[i].url \in InScope \cap ToSet(body.links)
    BY <2>1 DEF ToSet, all, new
  <2>8. \A u \in (InScope \cap ToSet(body.links)) \ seen' : \E i \in DOMAIN F : F[i].url = u
    BY <2>1 DEF ToSet, all, new
  <2> HIDE DEF F
  <2>9. QED
    BY <1>3, <2>2, <2>6, <2>7, <2>8
<1>4. QED
  BY <1>2, <1>3

-----------------------------------------------------------------------------
(***************************************************************************)
(* Type correctness.                                                       *)
(***************************************************************************)

LEMMA InitTyped == DiscoveryInit => DiscoveryTypeOK
  BY Bounds, WebAssumption DEF DiscoveryInit, DiscoveryTypeOK, Empty, Cache

LEMMA StartTyped ==
  ASSUME DiscoveryTypeOK, StartCrawl
  PROVE  DiscoveryTypeOK'
<1> DEFINE first == [i \in DOMAIN Seeds |-> [url |-> Seeds[i], depth |-> 0]]
<1>1. Seeds \in Seq(Urls) /\ DOMAIN Seeds = 1..Len(Seeds) /\ Len(Seeds) \in Nat
  BY UrlAssumption
<1>2. \A i \in DOMAIN Seeds : [url |-> Seeds[i], depth |-> 0] \in [url : Urls, depth : 0..DepthLimit]
  BY <1>1, Bounds
<1>3. first \in Seq([url : Urls, depth : 0..DepthLimit])
  BY <1>1, <1>2
<1> HIDE DEF first
<1>4. queue' = first
  BY DEF StartCrawl, first
<1>5. QED
  BY <1>3, <1>4, Bounds DEF StartCrawl, DiscoveryTypeOK

LEMMA FetchBodyTyped ==
  ASSUME DiscoveryTypeOK, FetchBody
  PROVE  DiscoveryTypeOK'
<1> DEFINE body == web[Url]
<1>1. queue # <<>> /\ pages < MaxPages /\ body # NoPage
  BY DEF FetchBody, Visit, Visiting
<1>2. Url \in Urls /\ Head(queue) \in Entry /\ Tail(queue) \in Seq(Entry) /\ body \in Bodies
  BY <1>1, HeadTyped DEF DiscoveryTypeOK, Cache
<1>3. Followed(Head(queue), body) \in Seq(Entry)
  BY <1>2, FollowedEntries
<1>4. queue' \in Seq(Entry)
  <2>1. queue' = Tail(queue) \o Followed(Head(queue), body)
    BY DEF FetchBody
  <2>2. QED
    BY <1>2, <1>3, <2>1
<1>5. [url |-> Url, body |-> body] \in Proposal
  BY <1>2 DEF Proposal
<1>6. known' \in Cache /\ proposals' \in Seq(Proposal)
  <2> HIDE DEF body
  <2>1. \/ known' = [known EXCEPT ![Url] = body]
        \/ known' = known
    BY DEF FetchBody, body
  <2>2. \/ proposals' = Append(proposals, [url |-> Url, body |-> body])
        \/ proposals' = proposals
    BY DEF FetchBody, body
  <2>3. known' \in Cache
    BY <1>2, <2>1 DEF DiscoveryTypeOK, Cache
  <2>4. proposals' \in Seq(Proposal)
    <3> DEFINE new == [url |-> Url, body |-> body]
    <3>1. new \in Proposal
      BY <1>5
    <3>2. proposals' = Append(proposals, new) \/ proposals' = proposals
      BY <2>2
    <3>3. proposals \in Seq(Proposal)
      BY DEF DiscoveryTypeOK
    <3> HIDE DEF new
    <3>4. Append(proposals, new) \in Seq(Proposal)
      BY <3>1, <3>3, AppendProperties
    <3>5. QED
      BY <3>2, <3>3, <3>4
  <2>5. QED
    BY <2>3, <2>4
<1>7. pages' \in 0..MaxPages
  BY <1>1, Bounds DEF FetchBody, DiscoveryTypeOK
<1>8. QED
  BY <1>2, <1>4, <1>6, <1>7 DEF FetchBody, Visit, Visiting, DiscoveryTypeOK, Entry

LEMMA NextTyped ==
  ASSUME DiscoveryTypeOK, [DiscoveryNext]_discoveryVars
  PROVE  DiscoveryTypeOK'
<1> USE DEF crawl
<1>1. CASE SkipSeen
  BY <1>1, HeadTyped DEF SkipSeen, Visiting, DiscoveryTypeOK, Entry
<1>2. ASSUME NEW answer \in {"rules", "none"}, ReadRobots(answer) PROVE DiscoveryTypeOK'
  BY <1>2 DEF ReadRobots, Visiting, DiscoveryTypeOK
<1>3. CASE SkipDisallowed \/ FetchFails
  BY <1>3, HeadTyped DEF SkipDisallowed, FetchFails, Visit, Visiting, DiscoveryTypeOK, Entry
<1>4. CASE FetchMissing
  BY <1>4, HeadTyped, Bounds DEF FetchMissing, Visit, Visiting, DiscoveryTypeOK, Entry
<1>5. CASE Abort
  BY <1>5, HeadTyped DEF Abort, Visit, Visiting, DiscoveryTypeOK
<1>6. CASE EndCrawl
  BY <1>6 DEF EndCrawl, DiscoveryTypeOK
<1>7. CASE WriteProposals \/ CrawlCrash
  <2>1. ToSet(proposals) \subseteq Proposal
    BY DEF DiscoveryTypeOK, ToSet
  <2>2. QED
    BY <1>7, <2>1 DEF WriteProposals, CrawlCrash, DiscoveryTypeOK
<1>8. ASSUME NEW u \in Urls, NEW body \in Bodies \cup {NoPage}, ChangeWeb(u, body) PROVE DiscoveryTypeOK'
  <2>1. web' \in Cache
    BY <1>8 DEF ChangeWeb, DiscoveryTypeOK, Cache
  <2>2. webChanges' \in 0..MaxWebChanges
    BY <1>8, Bounds DEF ChangeWeb, DiscoveryTypeOK
  <2>3. QED
    BY <1>8, <2>1, <2>2 DEF ChangeWeb, DiscoveryTypeOK
<1>9. CASE UNCHANGED discoveryVars
  BY <1>9 DEF discoveryVars, DiscoveryTypeOK
<1>10. QED
  BY <1>1, <1>2, <1>3, <1>4, <1>5, <1>6, <1>7, <1>8, <1>9, StartTyped, FetchBodyTyped DEF DiscoveryNext

-----------------------------------------------------------------------------
(***************************************************************************)
(* The parts of the invariant, but for the order of the visits.            *)
(***************************************************************************)

(* A visit that comes to nothing.                                          *)
Pass ==
  /\ Visit /\ queue' = Tail(queue)
  /\ quiet' => quiet /\ ~Fetched(Url)
  /\ UNCHANGED <<web, disk, written, activity, known, policy, proposals, lost>>

(* The steps of a crawl that goes on.                                      *)
LEMMA CrawlSteps ==
  ASSUME [DiscoveryNext]_discoveryVars, activity' = "crawl"
  PROVE  \/ StartCrawl \/ SkipSeen
         \/ \E answer \in {"rules", "none"} : ReadRobots(answer)
         \/ Pass \/ FetchBody
         \/ \E u \in Urls, body \in Bodies \cup {NoPage} : ChangeWeb(u, body)
         \/ UNCHANGED discoveryVars
<1>1. CASE SkipDisallowed \/ FetchFails \/ FetchMissing
  BY <1>1 DEF SkipDisallowed, FetchFails, FetchMissing, Pass, Fetched
<1>2. CASE Abort \/ EndCrawl \/ WriteProposals \/ CrawlCrash
  BY <1>2 DEF Abort, EndCrawl, WriteProposals, CrawlCrash
<1>3. QED
  BY <1>1, <1>2 DEF DiscoveryNext

LEMMA SeenInductive ==
  ASSUME DiscoveryTypeOK, SeenInv, [DiscoveryNext]_discoveryVars
  PROVE  SeenInv'
<1> SUFFICES ASSUME activity' = "crawl" PROVE \A u \in seen' : policy'[HostOf[u]] # "unknown"
  BY DEF SeenInv
<1>1. CASE StartCrawl
  BY <1>1 DEF StartCrawl
<1>2. CASE SkipSeen
  BY <1>2 DEF SkipSeen, Visiting, SeenInv
<1>3. ASSUME NEW answer \in {"rules", "none"}, ReadRobots(answer)
      PROVE  \A u \in seen' : policy'[HostOf[u]] # "unknown"
  BY <1>3, UrlAssumption DEF ReadRobots, Visiting, SeenInv, DiscoveryTypeOK
<1>4. CASE Pass
  BY <1>4 DEF Pass, Visit, Visiting, SeenInv
<1>5. CASE FetchBody
  BY <1>5 DEF FetchBody, Visit, Visiting, SeenInv
<1>6. CASE UNCHANGED discoveryVars \/ \E u \in Urls, body \in Bodies \cup {NoPage} : ChangeWeb(u, body)
  BY <1>6 DEF discoveryVars, crawl, ChangeWeb, SeenInv
<1>7. QED
  BY <1>1, <1>2, <1>3, <1>4, <1>5, <1>6, CrawlSteps

(* What a response changes: it is proposed if it is listed and news.       *)
LEMMA BodyProposed ==
  ASSUME DiscoveryTypeOK, ProposalInv, FetchBody
  PROVE  LET new == [url |-> Url, body |-> web[Url]]
         IN  /\ Url \in Urls \ seen /\ known[Url] = disk[Url] /\ web[Url] \in Bodies
             /\ \/ /\ web[Url].listed /\ disk[Url] # web[Url]
                   /\ known' = [known EXCEPT ![Url] = web[Url]]
                   /\ proposals' = Append(proposals, new)
                \/ /\ ~(web[Url].listed /\ disk[Url] # web[Url])
                   /\ known' = known /\ proposals' = proposals
<1>1. /\ activity = "crawl" /\ queue # <<>> /\ Url \notin seen /\ web[Url] # NoPage
  BY DEF FetchBody, Visit, Visiting
<1>2. Url \in Urls \ seen /\ known[Url] = disk[Url] /\ web[Url] \in Bodies
  BY <1>1, HeadTyped DEF ProposalInv, DiscoveryTypeOK, Cache
<1>3. CASE web[Url].listed /\ known[Url] # web[Url]
  BY <1>2, <1>3 DEF FetchBody
<1>4. CASE ~(web[Url].listed /\ known[Url] # web[Url])
  <2>1. [known EXCEPT ![Url] = known[Url]] = known
    BY <1>2 DEF DiscoveryTypeOK, Cache
  <2>2. known' = known /\ proposals' = proposals
    BY <1>4, <2>1 DEF FetchBody
  <2>3. QED
    BY <1>2, <1>4, <2>2
<1>5. QED
  BY <1>2, <1>3, <1>4

LEMMA ProposalInductive ==
  ASSUME DiscoveryTypeOK, ProposalInv, [DiscoveryNext]_discoveryVars
  PROVE  ProposalInv'
<1> SUFFICES ASSUME activity' = "crawl" PROVE ProposalInv'
  BY DEF ProposalInv
<1>1. CASE StartCrawl
  BY <1>1 DEF StartCrawl, ProposalInv
<1>2. CASE SkipSeen \/ \E answer \in {"rules", "none"} : ReadRobots(answer)
  BY <1>2 DEF SkipSeen, ReadRobots, Visiting, ProposalInv, ToSet
<1>3. CASE Pass
  BY <1>3 DEF Pass, Visit, Visiting, ProposalInv, ToSet
<1>4. CASE FetchBody
  <2> DEFINE new == [url |-> Url, body |-> web[Url]]
  <2>0. /\ activity = "crawl" /\ seen' = seen \cup {Url} /\ disk' = disk
    BY <1>4 DEF FetchBody, Visit, Visiting
  <2>1. /\ \A u \in Urls \ seen : known[u] = disk[u]
        /\ \A u \in Urls : known[u] # disk[u] => [url |-> u, body |-> known[u]] \in ToSet(proposals)
        /\ \A i \in DOMAIN proposals :
             proposals[i].url \in seen /\ proposals[i].body # disk[proposals[i].url]
        /\ \A i, j \in DOMAIN proposals : proposals[i].url = proposals[j].url => i = j
    BY <2>0 DEF ProposalInv
  <2>2. /\ Url \in Urls \ seen
        /\ \/ /\ disk[Url] # web[Url]
              /\ known' = [known EXCEPT ![Url] = web[Url]]
              /\ proposals' = Append(proposals, new)
           \/ known' = known /\ proposals' = proposals
    BY <1>4, BodyProposed
  <2>3. CASE known' = known /\ proposals' = proposals
    BY <2>0, <2>1, <2>3 DEF ProposalInv, ToSet
  <2>4. CASE /\ disk[Url] # web[Url]
             /\ known' = [known EXCEPT ![Url] = web[Url]]
             /\ proposals' = Append(proposals, new)
    <3> DEFINE n == Len(proposals) + 1
    <3>1. new.url = Url /\ new.body = web[Url]
      OBVIOUS
    <3> HIDE DEF new
    <3>2. /\ DOMAIN proposals' = DOMAIN proposals \cup {n} /\ n \notin DOMAIN proposals
          /\ \A i \in DOMAIN proposals : proposals'[i] = proposals[i]
          /\ proposals'[n] = new
      BY <2>4 DEF DiscoveryTypeOK
    <3> HIDE DEF n
    <3>3. known'[Url] = web[Url] /\ \A u \in Urls \ {Url} : known'[u] = known[u]
      BY <2>2, <2>4 DEF DiscoveryTypeOK, Cache
    <3>4. \A u \in Urls : known'[u] # disk[u] => [url |-> u, body |-> known'[u]] \in ToSet(proposals')
      <4>1. ToSet(proposals') = ToSet(proposals) \cup {new}
        BY <3>2 DEF ToSet
      <4>2. QED
        BY <2>1, <2>2, <3>3, <4>1 DEF new
    <3>5. \A i \in DOMAIN proposals' :
            proposals'[i].url \in seen' /\ proposals'[i].body # disk[proposals'[i].url]
      BY <2>0, <2>1, <2>4, <3>1, <3>2
    <3>6. \A i, j \in DOMAIN proposals' : proposals'[i].url = proposals'[j].url => i = j
      BY <2>1, <2>2, <3>1, <3>2
    <3>7. QED
      BY <2>0, <2>1, <3>3, <3>4, <3>5, <3>6 DEF ProposalInv
  <2>5. QED
    BY <2>2, <2>3, <2>4
<1>5. CASE UNCHANGED discoveryVars \/ \E u \in Urls, body \in Bodies \cup {NoPage} : ChangeWeb(u, body)
  BY <1>5 DEF discoveryVars, crawl, ChangeWeb, ProposalInv, ToSet
<1>6. QED
  BY <1>1, <1>2, <1>3, <1>4, <1>5, CrawlSteps

LEMMA KnownInductive ==
  ASSUME DiscoveryTypeOK, ProposalInv, KnownIsProposed, [DiscoveryNext]_discoveryVars
  PROVE  KnownIsProposed'
<1> USE DEF crawl
<1>1. CASE EndCrawl
  <2>1. activity = "crawl" /\ activity' = "write" /\ disk' = known /\ UNCHANGED <<written, lost, proposals>>
    BY <1>1 DEF EndCrawl
  <2>2. ASSUME NEW u \in Urls, known[u] # NoPage
        PROVE  [url |-> u, body |-> known[u]] \in written \cup lost \cup ToSet(proposals)
    <3>1. CASE known[u] = disk[u]
      BY <2>1, <2>2, <3>1 DEF KnownIsProposed
    <3>2. CASE known[u] # disk[u]
      BY <2>1, <3>2 DEF ProposalInv
    <3>3. QED
      BY <3>1, <3>2
  <2>3. QED
    BY <2>1, <2>2 DEF KnownIsProposed, ToSet
<1>2. CASE WriteProposals
  <2>1. /\ activity = "write" /\ activity' = "idle" /\ written' = written \cup ToSet(proposals)
        /\ UNCHANGED <<disk, lost>>
    BY <1>2 DEF WriteProposals
  <2>2. QED
    BY <2>1 DEF KnownIsProposed
<1>3. CASE CrawlCrash
  <2>1. /\ activity' = "idle" /\ UNCHANGED <<disk, written>>
        /\ lost' = IF activity = "write" THEN lost \cup ToSet(proposals) ELSE lost
    BY <1>3 DEF CrawlCrash
  <2>2. QED
    BY <2>1 DEF KnownIsProposed
<1>4. ASSUME UNCHANGED <<disk, written, lost>>, activity # "write", activity' # "write" PROVE KnownIsProposed'
  BY <1>4 DEF KnownIsProposed
<1>5. CASE StartCrawl \/ SkipSeen \/ FetchBody \/ Abort
  BY <1>4, <1>5 DEF StartCrawl, SkipSeen, FetchBody, Abort, Visit, Visiting
<1>6. CASE \/ SkipDisallowed \/ FetchFails \/ FetchMissing
           \/ \E answer \in {"rules", "none"} : ReadRobots(answer)
  BY <1>4, <1>6 DEF SkipDisallowed, FetchFails, FetchMissing, ReadRobots, Visit, Visiting
<1>7. CASE UNCHANGED discoveryVars \/ \E u \in Urls, body \in Bodies \cup {NoPage} : ChangeWeb(u, body)
  BY <1>7 DEF discoveryVars, ChangeWeb, KnownIsProposed, ToSet
<1>8. QED
  BY <1>1, <1>2, <1>3, <1>5, <1>6, <1>7 DEF DiscoveryNext

(* What the news visited so far are.                                       *)
SeenNews == {p \in Proposal : /\ p.url \in seen /\ Fetched(p.url)
                              /\ p.body = web[p.url] /\ p.body.listed
                              /\ disk[p.url] # p.body}

(* Whether a visited URL may be fetched does not change while its crawl    *)
(* goes on and the web stays as it is.                                     *)
LEMMA SeenFetched ==
  ASSUME DiscoveryTypeOK, SeenInv, activity = "crawl", [DiscoveryNext]_discoveryVars, activity' = "crawl", quiet'
  PROVE  /\ web' = web
         /\ \A u \in seen : Fetched(u)' <=> Fetched(u)
<1>1. web' = web
  BY CrawlSteps DEF StartCrawl, SkipSeen, ReadRobots, Pass, FetchBody, ChangeWeb, discoveryVars
<1>2. \A u \in seen : policy'[HostOf[u]] = policy[HostOf[u]]
  <2>1. CASE policy' = policy
    BY <2>1
  <2>2. ASSUME NEW answer \in {"rules", "none"}, ReadRobots(answer)
        PROVE  \A u \in seen : policy'[HostOf[u]] = policy[HostOf[u]]
    BY <2>2, UrlAssumption DEF ReadRobots, SeenInv, DiscoveryTypeOK
  <2>3. policy' = policy \/ \E answer \in {"rules", "none"} : ReadRobots(answer)
    BY CrawlSteps DEF StartCrawl, SkipSeen, Pass, FetchBody, ChangeWeb, discoveryVars, crawl
  <2>4. QED
    BY <2>1, <2>2, <2>3
<1>3. QED
  BY <1>1, <1>2 DEF Fetched, Allowed

LEMMA NewsInductive ==
  ASSUME DiscoveryTypeOK, SeenInv, ProposalInv, NewsInv, [DiscoveryNext]_discoveryVars
  PROVE  NewsInv'
<1> SUFFICES ASSUME activity' = "crawl", quiet' PROVE ToSet(proposals') = SeenNews'
  BY DEF NewsInv, SeenNews
<1>1. CASE StartCrawl
  BY <1>1 DEF StartCrawl, SeenNews, ToSet
<1>2. CASE ~StartCrawl
  <2>0. activity = "crawl" /\ quiet /\ disk' = disk
    BY <1>2, CrawlSteps DEF SkipSeen, ReadRobots, Pass, FetchBody, ChangeWeb, Visit, Visiting,
                            discoveryVars, crawl
  <2>1. ToSet(proposals) = SeenNews
    BY <2>0 DEF NewsInv, SeenNews
  <2>2. web' = web /\ \A u \in seen : Fetched(u)' <=> Fetched(u)
    BY <2>0, SeenFetched
  <2>3. CASE seen' = seen /\ proposals' = proposals
    <3>1. SeenNews' = SeenNews
      BY <2>0, <2>2, <2>3 DEF SeenNews
    <3>2. QED
      BY <2>1, <2>3, <3>1 DEF ToSet
  <2>4. CASE Pass
    <3>1. /\ seen' = seen \cup {Url} /\ proposals' = proposals /\ ~Fetched(Url)
          /\ policy' = policy
      BY <2>4 DEF Pass, Visit
    <3>2. \A u \in seen' : Fetched(u)' <=> Fetched(u)
      BY <2>2, <3>1 DEF Fetched, Allowed
    <3>3. SeenNews' = SeenNews
      BY <2>0, <2>2, <3>1, <3>2 DEF SeenNews
    <3>4. QED
      BY <2>1, <3>1, <3>3 DEF ToSet
  <2>5. CASE FetchBody
    <3> DEFINE new == [url |-> Url, body |-> web[Url]]
    <3>1. seen' = seen \cup {Url} /\ policy' = policy /\ Fetched(Url)
      BY <2>5 DEF FetchBody, Visit, Fetched
    <3>2. \A u \in seen' : Fetched(u)' <=> Fetched(u)
      BY <2>2, <3>1 DEF Fetched, Allowed
    <3>3. /\ Url \in Urls \ seen /\ web[Url] \in Bodies
          /\ \/ /\ web[Url].listed /\ disk[Url] # web[Url]
                /\ proposals' = Append(proposals, new)
             \/ /\ ~(web[Url].listed /\ disk[Url] # web[Url])
                /\ proposals' = proposals
      BY <2>5, BodyProposed
    <3>4. new \in Proposal /\ \A p \in Proposal : p.url = Url /\ p.body = web[Url] <=> p = new
      BY <3>3 DEF Proposal
    <3>5. SeenNews' = IF web[Url].listed /\ disk[Url] # web[Url] THEN SeenNews \cup {new} ELSE SeenNews
      BY <2>0, <2>2, <3>1, <3>2, <3>3, <3>4 DEF SeenNews
    <3>6. ToSet(Append(proposals, new)) = ToSet(proposals) \cup {new}
      <4> HIDE DEF new
      <4>1. proposals \in Seq(Proposal)
        BY DEF DiscoveryTypeOK
      <4>2. QED
        BY <4>1 DEF ToSet
    <3> HIDE DEF new
    <3>7. QED
      BY <2>1, <3>3, <3>5, <3>6 DEF ToSet
  <2>6. QED
    BY <1>2, <2>3, <2>4, <2>5, CrawlSteps DEF SkipSeen, ReadRobots, ChangeWeb, discoveryVars, crawl
<1>3. QED
  BY <1>1, <1>2

-----------------------------------------------------------------------------
(***************************************************************************)
(* The order of the visits.                                                *)
(***************************************************************************)

(* More ways onward reach more.                                            *)
LEMMA ReachMonotone ==
  ASSUME NEW f \in [Urls -> SUBSET Urls], NEW g \in [Urls -> SUBSET Urls],
         \A p \in Urls : f[p] \subseteq g[p], NEW e \in 0..DepthLimit
  PROVE  Reach(f)[e] \subseteq Reach(g)[e]
<1> DEFINE rf == Reach(f)
           rg == Reach(g)
           S == {n \in Nat : rf[n] \subseteq rg[n]}
<1>1. /\ rf \in [0..DepthLimit -> SUBSET Urls] /\ rf[0] = rg[0]
      /\ \A n \in 1..DepthLimit : rf[n] = rf[n - 1] \cup UNION {f[p] : p \in rf[n - 1]}
      /\ \A n \in 1..DepthLimit : rg[n] = rg[n - 1] \cup UNION {g[p] : p \in rg[n - 1]}
  BY ReachDef
<1> HIDE DEF rf, rg
<1>2. 0 \in S
  BY <1>1
<1>3. ASSUME NEW n \in 0..DepthLimit, n < DepthLimit, n \in S PROVE n + 1 \in S
  <2>1. n + 1 \in 1..DepthLimit /\ (n + 1) - 1 = n /\ n + 1 \in Nat
    BY <1>3, Bounds
  <2>2. rf[n] \subseteq rg[n] /\ rf[n] \subseteq Urls
    BY <1>1, <1>3
  <2>3. rf[n + 1] = rf[n] \cup UNION {f[p] : p \in rf[n]}
    BY <1>1, <2>1
  <2>4. rg[n + 1] = rg[n] \cup UNION {g[p] : p \in rg[n]}
    BY <1>1, <2>1
  <2>5. rf[n + 1] \subseteq rg[n + 1]
    BY <2>2, <2>3, <2>4
  <2>6. QED
    BY <2>1, <2>5
<1>4. 0..DepthLimit \subseteq S
  <2> HIDE DEF S
  <2>1. QED
    BY <1>2, <1>3, Bounds, Induction
<1>5. QED
  BY <1>4 DEF rf, rg

(* A crawl begins with the seeds.                                          *)
LEMMA LeveledAtStart ==
  LET first == [i \in DOMAIN Seeds |-> [url |-> Seeds[i], depth |-> 0]]
      none  == [p \in Urls |-> {}]
  IN  Leveled(first, {}, none)
<1> DEFINE first == [i \in DOMAIN Seeds |-> [url |-> Seeds[i], depth |-> 0]]
           none  == [p \in Urls |-> {}]
           r     == Reach(none)
           S     == {n \in Nat : r[n] = ToSet(Seeds)}
<1>1. DOMAIN first = DOMAIN Seeds /\ \A i \in DOMAIN first : first[i].url = Seeds[i] /\ first[i].depth = 0
  OBVIOUS
<1>2. none \in [Urls -> SUBSET Urls] /\ \A p \in Urls : none[p] = {}
  OBVIOUS
<1> HIDE DEF first, none
<1>3. /\ r \in [0..DepthLimit -> SUBSET Urls] /\ r[0] = ToSet(Seeds)
      /\ \A n \in 1..DepthLimit : r[n] = r[n - 1] \cup UNION {none[p] : p \in r[n - 1]}
  BY <1>2, ReachDef
<1> HIDE DEF r
<1>4. 0 \in S
  BY <1>3
<1>5. ASSUME NEW n \in 0..DepthLimit, n < DepthLimit, n \in S PROVE n + 1 \in S
  <2>1. n + 1 \in 1..DepthLimit /\ (n + 1) - 1 = n /\ n + 1 \in Nat
    BY <1>5, Bounds
  <2>2. r[n] \subseteq Urls
    BY <1>3
  <2>3. r[n + 1] = r[n] \cup UNION {none[p] : p \in r[n]}
    BY <1>3, <2>1
  <2>4. r[n + 1] = r[n]
    BY <1>2, <2>2, <2>3
  <2>5. QED
    BY <1>5, <2>1, <2>4
<1>6. \A n \in 0..DepthLimit : r[n] = ToSet(Seeds)
  <2>1. 0..DepthLimit \subseteq S
    <3> HIDE DEF S
    <3>1. QED
      BY <1>4, <1>5, Bounds, Induction
  <2>2. QED
    BY <2>1
<1>7. \A u \in ToSet(Seeds) : \E i \in DOMAIN first : first[i].url = u /\ first[i].depth = 0
  BY <1>1 DEF ToSet
<1>8. \A i \in DOMAIN first : first[i].url \in ToSet(Seeds)
  BY <1>1 DEF ToSet
<1>9. Leveled(first, {}, none)
  BY <1>1, <1>6, <1>7, <1>8, Bounds DEF Leveled, r
<1>10. QED
  BY <1>9 DEF first, none

(* An entry whose URL is visited already is dropped.                       *)
LEMMA LeveledAfterSkip ==
  ASSUME NEW q \in Seq(Entry), q # <<>>, NEW s \in SUBSET Urls,
         NEW f \in [Urls -> SUBSET Urls], Leveled(q, s, f), q[1].url \in s
  PROVE  Leveled(Tail(q), s, f)
<1> DEFINE t == Tail(q)
<1>1. /\ Len(q) \in Nat \ {0} /\ DOMAIN q = 1..Len(q) /\ DOMAIN t = 1..(Len(q) - 1)
      /\ \A i \in DOMAIN t : i + 1 \in DOMAIN q /\ t[i] = q[i + 1]
      /\ \A i \in DOMAIN q : i # 1 => i - 1 \in DOMAIN t /\ t[i - 1] = q[i]
  OBVIOUS
<1> HIDE DEF t
<1>2. \A i, j \in DOMAIN t : i <= j => i + 1 <= j + 1
  BY <1>1
<1>3. \A i, j \in DOMAIN t : i <= j =>
        t[i].depth <= t[j].depth /\ t[j].depth <= t[i].depth + 1
  BY <1>1, <1>2 DEF Leveled
<1>4. ASSUME NEW d \in 0..DepthLimit, NEW u \in Reach(f)[d], u \notin s
      PROVE  \E i \in DOMAIN t : t[i].url = u /\ t[i].depth <= d
  <2>1. PICK i \in DOMAIN q : q[i].url = u /\ q[i].depth <= d
    BY <1>4 DEF Leveled
  <2>2. i # 1
    BY <1>4, <2>1
  <2>3. QED
    BY <1>1, <2>1, <2>2
<1>5. QED
  BY <1>1, <1>3, <1>4 DEF Leveled, t

(* A visit of the page at the head of the queue, whose links lead to L,    *)
(* turns the ways onward from f into g.                                    *)
Opens(q, s, f, L, g) ==
  /\ q[1].url \notin s /\ \A x \in Urls \ s : f[x] = {}
  /\ \A x \in Urls : g[x] = IF x = q[1].url THEN L ELSE f[x]

(* What a visit adds to what can be reached: nothing up to the depth of    *)
(* the page, and below it the links of the page.                           *)
LEMMA VisitReaches ==
  ASSUME NEW q \in Seq(Entry), q # <<>>, NEW s \in SUBSET Urls,
         NEW f \in [Urls -> SUBSET Urls], NEW g \in [Urls -> SUBSET Urls], NEW L \in SUBSET Urls,
         Leveled(q, s, f), Opens(q, s, f, L, g),
         NEW e \in 0..DepthLimit, NEW u \in Reach(g)[e]
  PROVE  u \in Reach(f)[e] \/ (u \in L /\ q[1].depth < e)
<1> DEFINE p == q[1].url
           d == q[1].depth
           rf == Reach(f)
           rg == Reach(g)
           S == {n \in Nat : \A v \in rg[n] : v \in rf[n] \/ (v \in L /\ d < n)}
<1>0. 1 \in DOMAIN q /\ q[1] \in Entry /\ p \in Urls /\ d \in 0..DepthLimit
  <2>1. 1 \in DOMAIN q /\ q[1] \in Entry
    OBVIOUS
  <2>2. QED
    BY <2>1 DEF Entry
<1>1. /\ rf \in [0..DepthLimit -> SUBSET Urls] /\ rg \in [0..DepthLimit -> SUBSET Urls]
      /\ rf[0] = rg[0]
      /\ \A n \in 1..DepthLimit : rf[n] = rf[n - 1] \cup UNION {f[x] : x \in rf[n - 1]}
      /\ \A n \in 1..DepthLimit : rg[n] = rg[n - 1] \cup UNION {g[x] : x \in rg[n - 1]}
  BY ReachDef
<1>2. \A n \in 0..DepthLimit : n < d => rf[n] \subseteq s
  <2>1. ASSUME NEW n \in 0..DepthLimit, n < d, NEW v \in rf[n], v \notin s PROVE FALSE
    <3>1. PICK i \in DOMAIN q : q[i].depth <= n
      BY <2>1 DEF Leveled
    <3>2. 1 <= i /\ d <= q[i].depth
      BY <1>0, <3>1 DEF Leveled
    <3>3. q[i] \in Entry
      BY <3>1
    <3>4. q[i].depth \in Nat
      BY <3>3, Bounds DEF Entry
    <3>5. QED
      BY <1>0, <2>1, <3>1, <3>2, <3>4, Bounds
  <2>2. QED
    BY <2>1
<1>3. s \subseteq rf[d]
  BY <1>0 DEF Leveled
<1>4. (\A x \in Urls : g[x] = IF x = p THEN L ELSE f[x]) /\ p \notin s /\ \A x \in Urls \ s : f[x] = {}
  BY DEF Opens
<1> HIDE DEF rf, rg, p, d
<1>5. 0 \in S
  BY <1>1
<1>6. ASSUME NEW n \in 0..DepthLimit, n < DepthLimit, n \in S PROVE n + 1 \in S
  <2>1. n + 1 \in 1..DepthLimit /\ (n + 1) - 1 = n /\ n + 1 \in Nat /\ n + 1 \in 0..DepthLimit
    BY <1>6, Bounds
  <2>2. /\ rf[n + 1] = rf[n] \cup UNION {f[x] : x \in rf[n]}
        /\ rg[n + 1] = rg[n] \cup UNION {g[x] : x \in rg[n]}
    BY <1>1, <2>1
  <2>3. ASSUME NEW v \in rg[n + 1] PROVE v \in rf[n + 1] \/ (v \in L /\ d < n + 1)
    <3>1. CASE v \in rg[n]
      BY <1>0, <1>6, <2>2, <3>1
    <3>2. CASE \E x \in rg[n] : v \in g[x]
      <4>1. PICK x \in rg[n] : v \in g[x]
        BY <3>2
      <4>2. x \in Urls
        BY <1>1, <1>6
      <4>3. x \in rf[n] \/ (x \in L /\ d < n)
        BY <1>6
      <4>4. CASE x = p
        <5>1. v \in L
          BY <1>4, <4>1, <4>2, <4>4
        <5>2. ~(n < d)
          <6>1. CASE n < d
            <7>1. x \in rf[n]
              BY <1>0, <1>6, <4>3, <6>1, Bounds
            <7>2. QED
              BY <1>2, <1>4, <4>4, <6>1, <7>1
          <6>2. QED
            BY <6>1
        <5>3. QED
          BY <1>0, <5>1, <5>2, Bounds
      <4>5. CASE x # p
        <5>1. v \in f[x] /\ x \in s
          BY <1>4, <4>1, <4>2, <4>5
        <5>2. x \in rf[n]
          <6>1. CASE n < d
            BY <1>0, <1>6, <4>3, <6>1, Bounds
          <6>2. CASE ~(n < d)
            <7>1. rf[d] \subseteq rf[n]
              BY <1>0, <6>2, ReachGrows, Bounds DEF rf
            <7>2. QED
              BY <1>3, <5>1, <7>1
          <6>3. QED
            BY <6>1, <6>2
        <5>3. QED
          BY <2>2, <5>1, <5>2
      <4>6. QED
        BY <4>4, <4>5
    <3>3. QED
      BY <2>2, <3>1, <3>2
  <2>4. QED
    BY <2>1, <2>3
<1>7. 0..DepthLimit \subseteq S
  <2> HIDE DEF S
  <2>1. QED
    BY <1>5, <1>6, Bounds, Induction
<1>8. e \in S
  BY <1>7
<1>9. QED
  BY <1>8 DEF rf, rg, d

LEMMA Concatenation ==
  ASSUME NEW T, NEW t \in Seq(T), NEW new \in Seq(T), NEW w, w = t \o new
  PROVE  /\ DOMAIN w = 1..(Len(t) + Len(new)) /\ Len(t) \in Nat /\ Len(new) \in Nat
         /\ \A i \in 1..Len(t) : i \in DOMAIN w /\ w[i] = t[i]
         /\ \A i \in DOMAIN new : i + Len(t) \in DOMAIN w /\ w[i + Len(t)] = new[i]
         /\ \A i \in DOMAIN w : i > Len(t) => i - Len(t) \in DOMAIN new /\ w[i] = new[i - Len(t)]
<1>1. Len(t) \in Nat /\ Len(new) \in Nat /\ DOMAIN t = 1..Len(t) /\ DOMAIN new = 1..Len(new)
  OBVIOUS
<1>2. /\ DOMAIN w = 1..(Len(t) + Len(new))
      /\ \A i \in 1..(Len(t) + Len(new)) : w[i] = IF i <= Len(t) THEN t[i] ELSE new[i - Len(t)]
  BY <1>1, ConcatProperties
<1>3. \A i \in DOMAIN new : i + Len(t) \in 1..(Len(t) + Len(new)) /\ ~(i + Len(t) <= Len(t))
                        /\ (i + Len(t)) - Len(t) = i
  BY <1>1
<1>4. \A i \in DOMAIN w : i > Len(t) => i - Len(t) \in DOMAIN new /\ ~(i <= Len(t))
  BY <1>1, <1>2
<1>5. \A i \in 1..Len(t) : i \in DOMAIN w /\ i <= Len(t)
  BY <1>1, <1>2
<1>6. QED
  BY <1>1, <1>2, <1>3, <1>4, <1>5

(* A visit: the entry at the head is dropped, the page is visited, and its *)
(* links join the queue one level deeper, unless it is at the limit.       *)
LEMMA LeveledAfterVisit ==
  ASSUME NEW q \in Seq(Entry), q # <<>>, NEW s \in SUBSET Urls,
         NEW f \in [Urls -> SUBSET Urls], NEW L \in SUBSET Urls,
         Leveled(q, s, f), q[1].url \notin s, \A x \in Urls \ s : f[x] = {},
         NEW new \in Seq(Entry),
         \A i \in DOMAIN new : /\ q[1].depth < DepthLimit
                               /\ new[i].depth = q[1].depth + 1 /\ new[i].url \in L,
         q[1].depth < DepthLimit =>
           \A u \in L \ (s \cup {q[1].url}) : \E i \in DOMAIN new : new[i].url = u
  PROVE  Leveled(Tail(q) \o new, s \cup {q[1].url}, [f EXCEPT ![q[1].url] = L])
<1> DEFINE p == q[1].url
           d == q[1].depth
           g == [f EXCEPT ![p] = L]
           rf == Reach(f)
           rg == Reach(g)
           t == Tail(q)
           w == t \o new
<1>0. 1 \in DOMAIN q /\ p \in Urls /\ d \in 0..DepthLimit
  <2>1. 1 \in DOMAIN q /\ q[1] \in Entry
    OBVIOUS
  <2>2. QED
    BY <2>1 DEF Entry
<1>1. /\ Len(q) \in Nat \ {0} /\ DOMAIN q = 1..Len(q) /\ t \in Seq(Entry) /\ Len(t) = Len(q) - 1
      /\ \A i \in 1..(Len(q) - 1) : i + 1 \in DOMAIN q /\ t[i] = q[i + 1]
      /\ \A i \in DOMAIN q : i # 1 => i - 1 \in 1..(Len(q) - 1) /\ t[i - 1] = q[i]
  OBVIOUS
<1>2. \A i \in DOMAIN q : q[i] \in Entry /\ q[i].depth \in 0..DepthLimit
  <2>1. \A i \in DOMAIN q : q[i] \in Entry
    OBVIOUS
  <2>2. QED
    BY <2>1 DEF Entry
<1>3. g \in [Urls -> SUBSET Urls] /\ g[p] = L /\ \A x \in Urls : f[x] \subseteq g[x]
  BY <1>0
<1>4. /\ rf \in [0..DepthLimit -> SUBSET Urls] /\ rg \in [0..DepthLimit -> SUBSET Urls]
      /\ \A n \in 1..DepthLimit : rg[n] = rg[n - 1] \cup UNION {g[x] : x \in rg[n - 1]}
  BY <1>3, ReachDef
<1>5. \A e \in 0..DepthLimit : rf[e] \subseteq rg[e]
  <2> HIDE DEF g
  <2>1. QED
    BY <1>3, ReachMonotone
<1>6. ASSUME NEW e \in 0..DepthLimit, NEW u \in rg[e] PROVE u \in rf[e] \/ (u \in L /\ d < e)
  <2>1. Opens(q, s, f, L, g)
    BY <1>0 DEF Opens
  <2>2. u \in Reach(g)[e] /\ g \in [Urls -> SUBSET Urls]
    BY <1>3
  <2> HIDE DEF g
  <2>3. u \in Reach(f)[e] \/ (u \in L /\ q[1].depth < e)
    BY <2>1, <2>2, VisitReaches, ZenonT(60)
  <2>4. QED
    BY <2>3
<1>7. p \in rf[d] /\ s \subseteq rf[d]
  BY <1>0 DEF Leveled
<1>8. \A e \in 0..DepthLimit : d <= e => rf[d] \subseteq rf[e]
  BY <1>0, ReachGrows
<1>9. \A i \in DOMAIN q : d <= q[i].depth /\ q[i].depth <= d + 1
  BY <1>0, <1>1 DEF Leveled
<1>10. /\ \A i \in DOMAIN q : q[i].url \in rf[q[i].depth]
       /\ \A i, j \in DOMAIN q : i <= j =>
            q[i].depth <= q[j].depth /\ q[j].depth <= q[i].depth + 1
       /\ \A e \in 0..DepthLimit : \A u \in rf[e] :
            u \in s \/ \E i \in DOMAIN q : q[i].url = u /\ q[i].depth <= e
  BY DEF Leveled
<1>11. /\ \A i \in DOMAIN new : d < DepthLimit /\ new[i].depth = d + 1 /\ new[i].url \in L
       /\ d < DepthLimit => \A u \in L \ (s \cup {p}) : \E i \in DOMAIN new : new[i].url = u
  OBVIOUS
<1> HIDE DEF p, d, g, rf, rg, t
<1>12. /\ DOMAIN w = 1..(Len(t) + Len(new)) /\ Len(t) \in Nat /\ Len(new) \in Nat
       /\ \A i \in 1..Len(t) : i \in DOMAIN w /\ w[i] = t[i]
       /\ \A i \in DOMAIN new : i + Len(t) \in DOMAIN w /\ w[i + Len(t)] = new[i]
       /\ \A i \in DOMAIN w : i > Len(t) => i - Len(t) \in DOMAIN new /\ w[i] = new[i - Len(t)]
  <2>1. t \in Seq(Entry) /\ w = t \o new
    BY <1>1
  <2> HIDE DEF w
  <2>2. QED
    BY <2>1, Concatenation
<1> HIDE DEF w
(* An entry of the new queue is one of the old or a new one.               *)
<1>13. ASSUME NEW i \in DOMAIN w
       PROVE  \/ i <= Len(t) /\ i + 1 \in DOMAIN q /\ w[i] = q[i + 1]
              \/ i > Len(t) /\ d < DepthLimit /\ w[i].depth = d + 1 /\ w[i].url \in L
  <2>1. CASE i <= Len(t)
    BY <1>1, <1>12, <2>1
  <2>2. CASE ~(i <= Len(t))
    BY <1>11, <1>12, <2>2
  <2>3. QED
    BY <2>1, <2>2
<1>14. ASSUME NEW i \in DOMAIN w
       PROVE  w[i].depth \in 0..DepthLimit /\ d <= w[i].depth /\ w[i].depth <= d + 1
  BY <1>0, <1>2, <1>9, <1>13, Bounds
<1>15. ASSUME NEW i \in DOMAIN w, NEW j \in DOMAIN w, i <= j
       PROVE  w[i].depth <= w[j].depth /\ w[j].depth <= w[i].depth + 1
  <2>1. i \in Nat /\ j \in Nat /\ d \in Nat /\ w[i].depth \in Nat /\ w[j].depth \in Nat
    BY <1>0, <1>12, <1>14, Bounds
  <2>2. CASE j > Len(t)
    BY <1>13, <1>14, <2>1, <2>2
  <2>3. CASE ~(j > Len(t))
    <3>1. /\ i + 1 \in DOMAIN q /\ w[i] = q[i + 1]
          /\ j + 1 \in DOMAIN q /\ w[j] = q[j + 1] /\ i + 1 <= j + 1
      BY <1>12, <1>13, <1>15, <2>1, <2>3
    <3>2. QED
      BY <1>10, <3>1
  <2>4. QED
    BY <2>2, <2>3
<1>16. ASSUME NEW i \in DOMAIN w
       PROVE  w[i].url \in rg[w[i].depth]
  <2>1. CASE w[i].depth = d + 1 /\ d < DepthLimit /\ w[i].url \in L
    <3>1. d + 1 \in 1..DepthLimit /\ (d + 1) - 1 = d
      BY <1>0, <2>1, Bounds
    <3>2. p \in rg[d]
      BY <1>0, <1>5, <1>7
    <3>3. L \subseteq rg[d + 1]
      BY <1>3, <1>4, <3>1, <3>2
    <3>4. QED
      BY <2>1, <3>3
  <2>2. CASE i + 1 \in DOMAIN q /\ w[i] = q[i + 1]
    BY <1>2, <1>5, <1>10, <2>2
  <2>3. QED
    BY <1>13, <2>1, <2>2
<1>17. ASSUME NEW e \in 0..DepthLimit, NEW u \in rg[e], u \notin s \cup {p}
       PROVE  \E i \in DOMAIN w : w[i].url = u /\ w[i].depth <= e
  <2>1. CASE u \in rf[e]
    <3>1. PICK i \in DOMAIN q : q[i].url = u /\ q[i].depth <= e
      BY <1>10, <1>17, <2>1
    <3>2. i # 1
      BY <1>17, <3>1 DEF p
    <3>3. i - 1 \in 1..Len(t) /\ t[i - 1] = q[i]
      BY <1>1, <3>1, <3>2
    <3>4. QED
      BY <1>12, <3>1, <3>3
  <2>2. CASE u \in L /\ d < e
    <3>1. d < DepthLimit /\ d + 1 <= e
      BY <1>0, <2>2, Bounds
    <3>2. PICK i \in DOMAIN new : new[i].url = u
      BY <1>11, <1>17, <2>2, <3>1
    <3>3. QED
      BY <1>11, <1>12, <3>1, <3>2
  <2>3. QED
    BY <1>6, <2>1, <2>2
<1>18. \A e \in 0..DepthLimit : d <= e => s \cup {p} \subseteq rg[e]
  BY <1>5, <1>7, <1>8
<1>19. d <= DepthLimit /\ DepthLimit \in 0..DepthLimit
  BY <1>0, Bounds
<1>20. Leveled(w, s \cup {p}, g)
  BY <1>14, <1>15, <1>16, <1>17, <1>18, <1>19 DEF Leveled, rg
<1>21. QED
  BY <1>20 DEF w, t, g, p

(* Where the links of a page lead.                                         *)
Leads(u) == InScope \cap ToSet(web[u].links)

LEMMA WalkedTyped ==
  /\ Walked \in [Urls -> SUBSET Urls]
  /\ \A u \in Urls \ seen : Walked[u] = {}
  /\ \A u \in Urls : Onward[u] = IF Fetched(u) /\ web[u].html THEN Leads(u) ELSE {}
  BY UrlAssumption DEF Walked, Onward, Leads

(* A step that visits nothing changes nothing of what was walked, ...      *)
LEMMA WalkedStays ==
  ASSUME DiscoveryTypeOK, SeenInv, activity = "crawl", [DiscoveryNext]_discoveryVars, activity' = "crawl", quiet', seen' = seen
  PROVE  Walked' = Walked
<1>1. web' = web /\ \A u \in seen : Fetched(u)' <=> Fetched(u)
  BY SeenFetched
<1>2. \A u \in Urls : u \in seen => Onward'[u] = Onward[u]
  BY <1>1 DEF Onward, ToSet
<1>3. QED
  BY <1>2 DEF Walked

(* ... and a visit adds the links of the page.                             *)
LEMMA WalkedVisit ==
  ASSUME DiscoveryTypeOK, SeenInv, activity = "crawl", [DiscoveryNext]_discoveryVars, activity' = "crawl", quiet', Visit, Url \in Urls,
         policy' = policy
  PROVE  Walked' = [Walked EXCEPT ![Url] = IF Fetched(Url) /\ web[Url].html THEN Leads(Url) ELSE {}]
<1>1. web' = web /\ \A u \in seen : Fetched(u)' <=> Fetched(u)
  BY SeenFetched
<1>2. seen' = seen \cup {Url} /\ Url \notin seen
  BY DEF Visit
<1>3. \A u \in seen' : Fetched(u)' <=> Fetched(u)
  BY <1>1, <1>2 DEF Fetched, Allowed
<1>4. \A u \in Urls : u \in seen' => Onward'[u] = Onward[u]
  BY <1>1, <1>3 DEF Onward, ToSet
<1>5. Walked' = [p \in Urls |-> IF p \in seen' THEN Onward[p] ELSE {}]
  BY <1>4 DEF Walked
<1>6. Onward[Url] = IF Fetched(Url) /\ web[Url].html THEN Leads(Url) ELSE {}
  BY WalkedTyped
<1> DEFINE L == IF Fetched(Url) /\ web[Url].html THEN Leads(Url) ELSE {}
<1> HIDE DEF L
<1>7. Onward[Url] = L
  BY <1>6 DEF L
<1>8. Walked' = [Walked EXCEPT ![Url] = L]
  BY <1>2, <1>5, <1>7 DEF Walked
<1>9. QED
  BY <1>8 DEF L

LEMMA LevelInductive ==
  ASSUME DiscoveryTypeOK, SeenInv, LevelInv, [DiscoveryNext]_discoveryVars
  PROVE  LevelInv'
<1> SUFFICES ASSUME activity' = "crawl", quiet' PROVE Leveled(queue', seen', Walked')
  BY DEF LevelInv
<1>1. CASE StartCrawl
  <2> DEFINE first == [i \in DOMAIN Seeds |-> [url |-> Seeds[i], depth |-> 0]]
             none  == [p \in Urls |-> {}]
  <2>1. queue' = first /\ seen' = {}
    BY <1>1 DEF StartCrawl
  <2>2. Walked' = none
    BY <2>1 DEF Walked
  <2>3. Leveled(first, {}, none)
    BY LeveledAtStart
  <2> HIDE DEF first, none
  <2>4. QED
    BY <2>1, <2>2, <2>3
<1>2. CASE ~StartCrawl
  <2>0. activity = "crawl" /\ quiet
    BY <1>2, CrawlSteps DEF SkipSeen, ReadRobots, Pass, FetchBody, ChangeWeb, Visit, Visiting,
                            discoveryVars, crawl
  <2>1. Leveled(queue, seen, Walked)
    BY <2>0 DEF LevelInv
  <2>2. queue \in Seq(Entry) /\ seen \in SUBSET Urls
    BY DEF DiscoveryTypeOK, Entry
  <2>3. Walked \in [Urls -> SUBSET Urls] /\ \A u \in Urls \ seen : Walked[u] = {}
    BY WalkedTyped
  <2>4. CASE queue' = queue /\ seen' = seen
    <3>1. Walked' = Walked
      BY <2>0, <2>4, WalkedStays
    <3>2. QED
      BY <2>1, <2>4, <3>1
  <2>5. CASE SkipSeen
    <3>1. queue # <<>> /\ queue' = Tail(queue) /\ seen' = seen /\ Url \in seen
      BY <2>5 DEF SkipSeen, Visiting
    <3>2. Walked' = Walked
      BY <2>0, <3>1, WalkedStays
    <3>3. queue[1].url \in seen
      BY <3>1, HeadTyped DEF Url
    <3>4. QED
      BY <2>1, <2>2, <2>3, <3>1, <3>2, <3>3, LeveledAfterSkip
  <2>6. CASE Pass \/ FetchBody
    <3> DEFINE L   == IF Fetched(Url) /\ web[Url].html THEN Leads(Url) ELSE {}
               new == IF Fetched(Url) THEN Followed(Head(queue), web[Url]) ELSE <<>>
    <3>1. /\ Visit /\ queue # <<>> /\ seen' = seen \cup {Url} /\ Url \notin seen /\ policy' = policy
      BY <2>6 DEF Pass, FetchBody, Visit, Visiting
    <3>2. /\ Url \in Urls /\ Head(queue) \in Entry /\ Head(queue) = queue[1] /\ Url = queue[1].url
          /\ Tail(queue) \in Seq(Entry)
      BY <3>1, HeadTyped DEF Url
    <3>3. Walked' = [Walked EXCEPT ![Url] = L]
      BY <2>0, <3>1, <3>2, WalkedVisit
    <3>4. queue' = Tail(queue) \o new
      <4>1. CASE FetchBody
        BY <4>1 DEF FetchBody, Visit, Fetched
      <4>2. CASE Pass
        <5>1. queue' = Tail(queue) /\ new = <<>>
          BY <4>2 DEF Pass
        <5>2. QED
          BY <3>2, <5>1
      <4>3. QED
        BY <2>6, <4>1, <4>2
    <3>5. L \in SUBSET Urls
      BY UrlAssumption DEF Leads
    <3>6. /\ new \in Seq(Entry)
          /\ \A i \in DOMAIN new : /\ Head(queue).depth < DepthLimit
                                    /\ new[i].depth = Head(queue).depth + 1 /\ new[i].url \in L
          /\ Head(queue).depth < DepthLimit =>
               \A u \in L \ (seen \cup {Url}) : \E i \in DOMAIN new : new[i].url = u
      <4>1. CASE ~Fetched(Url)
        <5>1. new = <<>> /\ L = {}
          BY <4>1
        <5> HIDE DEF L, new
        <5>2. new \in Seq(Entry) /\ DOMAIN new = {}
          BY <5>1
        <5>3. QED
          BY <5>1, <5>2
      <4>2. CASE Fetched(Url)
        <5> DEFINE F == Followed(Head(queue), web[Url])
        <5>1. web[Url] \in Bodies
          BY <3>2, <4>2 DEF Fetched, DiscoveryTypeOK, Cache
        <5>2. /\ F \in Seq(Entry)
              /\ \A i \in DOMAIN F :
                   /\ web[Url].html /\ Head(queue).depth < DepthLimit
                   /\ F[i].depth = Head(queue).depth + 1
                   /\ F[i].url \in Leads(Url)
              /\ web[Url].html /\ Head(queue).depth < DepthLimit =>
                   \A u \in Leads(Url) \ seen' : \E i \in DOMAIN F : F[i].url = u
          BY <3>2, <5>1, FollowedEntries DEF Leads
        <5>3. new = F
          BY <4>2
        <5> HIDE DEF F
        <5>4. web[Url].html => L = Leads(Url)
          BY <4>2
        <5>5. ~web[Url].html => L = {}
          OBVIOUS
        <5> HIDE DEF L, new
        <5>6. QED
          BY <3>1, <5>2, <5>3, <5>4, <5>5
      <4>3. QED
        BY <4>1, <4>2
    <3> HIDE DEF L, new
    <3>7. Leveled(Tail(queue) \o new, seen \cup {queue[1].url}, [Walked EXCEPT ![queue[1].url] = L])
      BY <2>1, <2>2, <2>3, <3>1, <3>2, <3>5, <3>6, LeveledAfterVisit
    <3>8. QED
      BY <3>1, <3>2, <3>3, <3>4, <3>7
  <2>7. QED
    BY <1>2, <2>4, <2>5, <2>6, CrawlSteps DEF ReadRobots, ChangeWeb, discoveryVars, crawl
<1>3. QED
  BY <1>1, <1>2

-----------------------------------------------------------------------------
(***************************************************************************)
(* The theorems.                                                           *)
(***************************************************************************)

LEMMA InitInvariant == DiscoveryInit => DiscoveryInv
  BY InitTyped DEF DiscoveryInit, Empty, DiscoveryInv, SeenInv, ProposalInv, NewsInv, LevelInv,
                   KnownIsProposed

LEMMA NextInvariant == DiscoveryInv /\ [DiscoveryNext]_discoveryVars => DiscoveryInv'
  BY NextTyped, SeenInductive, ProposalInductive, NewsInductive, LevelInductive, KnownInductive
     DEF DiscoveryInv

(* What every crawl keeps to (crawl, _crawl_with).                         *)
THEOREM DiscoveryInvariant == DiscoverySpec => []DiscoveryInv
  BY InitInvariant, NextInvariant, PTL DEF DiscoverySpec

(* Every variable of Discovery keeps its type (DiscoveryCrawler).          *)
THEOREM TypeCorrect == DiscoverySpec => []DiscoveryTypeOK
  BY DiscoveryInvariant, PTL DEF DiscoveryInv

(* A crawl proposes nothing the cache had, and no URL twice.               *)
THEOREM CrawlIsIdempotent == DiscoverySpec => []ProposesOnlyChanges
<1>1. DiscoveryInv => ProposesOnlyChanges
  BY DEF DiscoveryInv, ProposalInv, ProposesOnlyChanges
<1>2. QED
  BY <1>1, DiscoveryInvariant, PTL

(* What the cache on disk remembers was handed to the reviewer, or lost    *)
(* by a crash between the two writes.                                      *)
THEOREM NothingIsForgotten == DiscoverySpec => []KnownIsProposed
  BY DiscoveryInvariant, PTL DEF DiscoveryInv

(* A crawl with nothing left to visit has visited what is within the depth *)
(* limit, for any web.                                                     *)
LEMMA VisitsAllWithin ==
  ASSUME LevelInv, activity = "crawl", quiet, queue = <<>>
  PROVE  seen = Within[DepthLimit]
<1>1. Leveled(queue, seen, Walked)
  BY DEF LevelInv
<1>2. /\ \A d \in 0..DepthLimit : Reach(Walked)[d] \subseteq seen
      /\ seen \subseteq Reach(Walked)[DepthLimit]
  BY <1>1 DEF Leveled
<1>3. Walked \in [Urls -> SUBSET Urls] /\ Onward \in [Urls -> SUBSET Urls]
  BY UrlAssumption DEF Walked, Onward
<1>4. Reach(Walked) \in [0..DepthLimit -> SUBSET Urls]
  BY <1>3, ReachDef
<1>5. \A d \in 0..DepthLimit : d < DepthLimit => \A p \in Reach(Walked)[d] : Walked[p] = Onward[p]
  <2>1. ASSUME NEW d \in 0..DepthLimit, NEW p \in Reach(Walked)[d] PROVE Walked[p] = Onward[p]
    <3>1. p \in Urls /\ p \in seen
      BY <1>2, <1>4
    <3>2. QED
      BY <3>1 DEF Walked
  <2>2. QED
    BY <2>1
<1>6. DepthLimit \in 0..DepthLimit
  BY Bounds
<1>7. \A d \in 0..DepthLimit : Reach(Walked)[d] = Reach(Onward)[d]
  BY <1>3, <1>5, <1>6, ReachAgrees
<1>8. QED
  BY <1>2, <1>6, <1>7 DEF Within

(* A crawl that meets no failure and no change, and empties its queue, has *)
(* proposed exactly what is new within the depth limit.                    *)
THEOREM QuietCrawlIsComplete == DiscoverySpec => []QuietCrawlFindsAll
<1>1. ASSUME DiscoveryInv, activity = "crawl", quiet, queue = <<>>
      PROVE  ToSet(proposals) = News
  <2>1. seen = Within[DepthLimit]
    BY <1>1, VisitsAllWithin DEF DiscoveryInv
  <2>2. ToSet(proposals) = SeenNews
    BY <1>1 DEF DiscoveryInv, NewsInv, SeenNews
  <2>3. SeenNews = News
    BY <2>1 DEF SeenNews, News
  <2>4. QED
    BY <2>2, <2>3
<1>2. DiscoveryInv => QuietCrawlFindsAll
  BY <1>1 DEF QuietCrawlFindsAll
<1>3. QED
  BY <1>2, DiscoveryInvariant, PTL

-----------------------------------------------------------------------------
LEMMA ToSetOfConcat ==
  ASSUME NEW T, NEW s \in Seq(T), NEW t \in Seq(T)
  PROVE  ToSet(s \o t) = ToSet(s) \cup ToSet(t)
<1>1. /\ Len(s) \in Nat /\ Len(t) \in Nat /\ DOMAIN s = 1..Len(s) /\ DOMAIN t = 1..Len(t)
      /\ DOMAIN (s \o t) = 1..(Len(s) + Len(t))
      /\ \A n \in 1..Len(s) : (s \o t)[n] = s[n]
      /\ \A n \in 1..Len(t) : (s \o t)[Len(s) + n] = t[n]
  OBVIOUS
<1>2. PICK c : c = s \o t
  OBVIOUS
<1>3. \A n \in DOMAIN c : n \in 1..Len(s) \/ n - Len(s) \in 1..Len(t)
  BY <1>1, <1>2
<1>4. \A n \in DOMAIN c : c[n] \in ToSet(s) \cup ToSet(t)
  <2> TAKE n \in DOMAIN c
  <2>1. CASE n \in 1..Len(s)
    BY <2>1, <1>1, <1>2 DEF ToSet
  <2>2. CASE n - Len(s) \in 1..Len(t)
    <3>1. Len(s) + (n - Len(s)) = n
      BY <1>1, <1>2
    <3>2. c[n] = t[n - Len(s)]
      BY <2>2, <3>1, <1>1, <1>2
    <3>3. QED
      BY <2>2, <3>2, <1>1 DEF ToSet
  <2>3. QED
    BY <2>1, <2>2, <1>3
<1>5. /\ \A n \in 1..Len(s) : n \in DOMAIN c /\ c[n] = s[n]
      /\ \A n \in 1..Len(t) : Len(s) + n \in DOMAIN c /\ c[Len(s) + n] = t[n]
  BY <1>1, <1>2
<1>6. ToSet(s) \subseteq ToSet(c) /\ ToSet(t) \subseteq ToSet(c)
  BY <1>1, <1>5 DEF ToSet
<1>7. ToSet(c) \subseteq ToSet(s) \cup ToSet(t)
  BY <1>4 DEF ToSet
<1>8. QED
  BY <1>2, <1>6, <1>7

-----------------------------------------------------------------------------
(* The URLs of some links, and links made of URLs.                         *)
LEMMA UrlsTyped ==
  ASSUME NEW links \in Seq(Link)
  PROVE  UrlsOf(links) \in Seq(SiteUrls) /\ ToSet(UrlsOf(links)) = {l.url : l \in ToSet(links)}
<1>1. Len(links) \in Nat /\ DOMAIN links = 1..Len(links) /\ \A n \in DOMAIN links : links[n].url \in SiteUrls
  <2>1. Len(links) \in Nat /\ DOMAIN links = 1..Len(links) /\ \A n \in DOMAIN links : links[n] \in Link
    BY ElementOfSeq, LenProperties
  <2>2. QED
    BY <2>1 DEF Link
<1> DEFINE us == UrlsOf(links)
<1>2. us = [n \in 1..Len(links) |-> links[n].url]
  BY <1>1 DEF UrlsOf
<1> HIDE DEF us
<1>3. us \in [1..Len(links) -> SiteUrls]
  BY <1>1, <1>2
<1>4. us \in Seq(SiteUrls)
  BY <1>1, <1>3, SeqDef
<1>5. ToSet(us) = {l.url : l \in ToSet(links)}
  BY <1>1, <1>2 DEF ToSet
<1>6. QED
  BY <1>4, <1>5 DEF us

LEMMA BareTyped ==
  ASSUME NEW urls \in Seq(SiteUrls)
  PROVE  Bare(urls) \in Seq(Link) /\ {l.url : l \in ToSet(Bare(urls))} = ToSet(urls)
<1> DEFINE bare == Bare(urls)
<1>1. Len(urls) \in Nat /\ DOMAIN urls = 1..Len(urls) /\ \A n \in DOMAIN urls : urls[n] \in SiteUrls
  BY ElementOfSeq, LenProperties
<1>2. bare = [n \in 1..Len(urls) |-> [url |-> urls[n], legal |-> FALSE]]
  BY <1>1 DEF Bare
<1> HIDE DEF bare
<1>3. \A n \in 1..Len(urls) : bare[n] \in Link /\ bare[n].url = urls[n]
  BY <1>1, <1>2 DEF Link
<1>4. DOMAIN bare = 1..Len(urls)
  BY <1>2
<1>5. bare \in [1..Len(urls) -> Link]
  BY <1>2, <1>3, <1>4
<1>6. bare \in Seq(Link)
  BY <1>1, <1>5, SeqDef
<1>7. {l.url : l \in ToSet(bare)} = ToSet(urls)
  BY <1>1, <1>3, <1>4 DEF ToSet
<1>8. QED
  BY <1>6, <1>7 DEF bare

LEMMA EntriesTyped ==
  ASSUME NEW hits \in Seq(Link)
  PROVE  /\ EntriesFromHits(hits) \in Seq(SiteUrls) /\ IsInjective(EntriesFromHits(hits))
         /\ ToSet(EntriesFromHits(hits)) = {l.url : l \in ToSet(hits) \cap LegalLinks}
<1>1. PICK kept : kept = Kept(hits, LegalLinks)
  OBVIOUS
<1>2. kept \in Seq(Link) /\ ToSet(kept) = ToSet(hits) \cap LegalLinks
  BY <1>1, KeptSet
<1>3. UrlsOf(kept) \in Seq(SiteUrls) /\ ToSet(UrlsOf(kept)) = {l.url : l \in ToSet(kept)}
  BY <1>2, UrlsTyped
<1>4. /\ WithoutRepeats(UrlsOf(kept)) \in Seq(SiteUrls)
      /\ ToSet(WithoutRepeats(UrlsOf(kept))) = ToSet(UrlsOf(kept))
      /\ Distinct(WithoutRepeats(UrlsOf(kept)))
  BY <1>3, WithoutRepeatsProperties
<1>5. QED
  BY <1>1, <1>2, <1>3, <1>4, Zenon DEF EntriesFromHits, IsInjective, Distinct

(* The links of a page are links, those that may be used too, and what     *)
(* joins the queue is what it should be.                                   *)
LEMMA UsableIs ==
  ASSUME site \in Sites, NEW page \in SiteUrls
  PROVE  /\ Usable(page) \in Seq(Link)
         /\ \A l \in ToSet(Usable(page)) : l \in Link /\ l.url \in Home \ barred
<1>1. site.links[page] \in Seq(Link)
  BY SiteAssumption DEF Site
<1>2. /\ Usable(page) \in Seq(Link)
      /\ ToSet(Usable(page)) = ToSet(site.links[page]) \cap {l \in Link : l.url \in Home \ barred}
  BY <1>1, KeptSet DEF Usable
<1>3. QED
  BY <1>2

LEMMA NewPagesAre ==
  ASSUME site \in Sites, NEW page \in SiteUrls
  PROVE  /\ NewPages(page) \in Seq(SiteUrls)
         /\ ToSet(NewPages(page)) = LeadsTo(page) \ (visited \cup {page} \cup ToSet(Tail(upcoming)))
<1> DEFINE out  == SiteUrls \ (Terminal \cup visited \cup {page} \cup ToSet(Tail(upcoming)))
           urls == UrlsOf(Usable(page))
<1>1. urls \in Seq(SiteUrls) /\ ToSet(urls) = {l.url : l \in ToSet(Usable(page))}
  BY UsableIs, UrlsTyped
<1>2. NewPages(page) = WithoutRepeats(Kept(urls, out))
  BY DEF NewPages
<1> HIDE DEF urls, out
<1>3. PICK kept : kept = Kept(urls, out)
  OBVIOUS
<1>4. kept \in Seq(SiteUrls) /\ ToSet(kept) = ToSet(urls) \cap out
  BY <1>1, <1>3, KeptSet
<1>5. WithoutRepeats(kept) \in Seq(SiteUrls) /\ ToSet(WithoutRepeats(kept)) = ToSet(kept)
  BY <1>4, WithoutRepeatsProperties
<1>6. ToSet(urls) \subseteq SiteUrls
  BY <1>1, ElementOfSeq, LenProperties DEF ToSet
<1>7. QED
  BY <1>1, <1>2, <1>3, <1>4, <1>5, <1>6 DEF LeadsTo, out

(* The anchors of any pages are links.                                     *)
LEMMA AnchorsTyped ==
  ASSUME site \in Sites, NEW names \in Seq(SiteUrls)
  PROVE  AnchorsOf(names)[Len(names)] \in Seq(Link)
<1> DEFINE anchors == CHOOSE anchors : anchors =
             [n \in 0..Len(names) |-> IF n = 0 THEN <<>> ELSE anchors[n - 1] \o site.links[names[n]]]
           N == Len(names)
           X == Seq(Link)
           base == <<>>
           step == [p \in (1..N) \X X |-> p[2] \o site.links[names[p[1]]]]
<1>1. N \in Nat /\ base \in X /\ \A n \in 1..N : site.links[names[n]] \in Seq(Link)
  BY SiteAssumption DEF Site
<1>2. StaysIn(step, N, X)
  BY <1>1 DEF StaysIn
<1>3. PICK f : Recursion(f, N, X, base, step)
  <2> HIDE DEF step, N, X, base
  <2>1. QED
    BY <1>1, <1>2, RecursionDefines
<1>4. f \in [0..N -> X] /\ f[0] = <<>> /\ \A n \in 1..N : f[n] = step[<<n, f[n - 1]>>]
  BY <1>3 DEF Recursion
<1>5. \A n \in 1..N : f[n] = f[n - 1] \o site.links[names[n]]
  <2> TAKE n \in 1..N
  <2>1. n - 1 \in 0..N
    BY <1>1
  <2>2. f[n - 1] \in X
    BY <1>4, <2>1
  <2>3. step[<<n, f[n - 1]>>] = f[n - 1] \o site.links[names[n]]
    BY <2>2
  <2>4. QED
    BY <1>4, <2>3
<1>6. f = [n \in 0..N |-> IF n = 0 THEN <<>> ELSE f[n - 1] \o site.links[names[n]]]
  <2> HIDE DEF N, X
  <2>1. \A n \in 0..N : n # 0 => n \in 1..N
    BY <1>1
  <2>2. \A n \in 0..N : f[n] = IF n = 0 THEN <<>> ELSE f[n - 1] \o site.links[names[n]]
    BY <2>1, <1>4, <1>5
  <2>3. QED
    BY <2>2, <1>4
<1>7. anchors = [n \in 0..N |-> IF n = 0 THEN <<>> ELSE anchors[n - 1] \o site.links[names[n]]]
  BY <1>6, Zenon
<1>8. AnchorsOf(names) = anchors
  BY Zenon DEF AnchorsOf
<1> DEFINE good == {n \in Nat : anchors[n] \in X}
<1> HIDE DEF anchors
<1>9. 0..N \subseteq good
  <2>1. 0 \in good
    BY <1>1, <1>7
  <2>2. ASSUME NEW n \in 0..N, n < N, n \in good PROVE n + 1 \in good
    <3>1. n + 1 \in 0..N /\ n + 1 # 0 /\ n + 1 \in 1..N /\ (n + 1) - 1 = n /\ n + 1 \in Nat
      BY <1>1, <2>2
    <3>2. anchors[n + 1] = anchors[n] \o site.links[names[n + 1]]
      BY <1>7, <3>1
    <3>3. anchors[n + 1] \in X
      BY <1>1, <2>2, <3>1, <3>2
    <3>4. QED
      BY <3>1, <3>3
  <2> HIDE DEF good, N
  <2>3. QED
    BY <1>1, <2>1, <2>2, Induction
<1>10. QED
  BY <1>1, <1>8, <1>9
-----------------------------------------------------------------------------
(* Reachable has what it should have, and nothing else.                    *)
LEMMA ReachableIs ==
  ASSUME site \in Sites
  PROVE  /\ Reachable \subseteq SiteUrls /\ {Seed} \ barred \subseteq Reachable
         /\ \A p \in Reachable \cap site.html : LeadsTo(p) \subseteq Reachable
         /\ \A ps \in SUBSET SiteUrls : Closed(ps) => Reachable \subseteq ps
<1>1. \A p \in SiteUrls : LeadsTo(p) \subseteq SiteUrls
  <2> TAKE p \in SiteUrls
  <2>1. \A l \in ToSet(Usable(p)) : l \in Link
    BY UsableIs
  <2>2. QED
    BY <2>1 DEF LeadsTo, Link
<1>2. Seed \in SiteUrls
  BY SiteAssumption
<1>3. Reachable \subseteq SiteUrls /\ \A ps \in SUBSET SiteUrls : Closed(ps) => Reachable \subseteq ps
  BY DEF Reachable
<1>4. {Seed} \ barred \subseteq Reachable
  BY <1>2 DEF Reachable, Closed
<1>5. ASSUME NEW p \in Reachable \cap site.html, NEW u \in LeadsTo(p)
      PROVE  u \in Reachable
  <2>1. u \in SiteUrls
    BY <1>1, <1>3, <1>5
  <2>2. ASSUME NEW ps \in SUBSET SiteUrls, Closed(ps) PROVE u \in ps
    BY <1>3, <1>5, <2>2 DEF Closed
  <2>3. QED
    BY <2>1, <2>2 DEF Reachable
<1>6. QED
  BY <1>3, <1>4, <1>5

(* What is seen or queued is within reach, but for a seed that may not be  *)
(* touched; what was found was due; and while no request is lost every     *)
(* page seen has led on to where it leads and yielded what is due of it.   *)
WalkInv ==
  /\ visited \cup ToSet(upcoming) \subseteq Reachable \cup barred
  /\ Seed \in visited \cup ToSet(upcoming)
  /\ ToSet(found) \subseteq UNION {ToSet(Usable(p)) \cap LegalLinks : p \in Reachable \cap site.html}
  /\ ~unanswered => \A p \in (visited \ barred) \cap site.html :
       /\ LeadsTo(p) \subseteq visited \cup ToSet(upcoming)
       /\ ToSet(Usable(p)) \cap LegalLinks \subseteq ToSet(found)
  /\ IsFiniteSet(visited) /\ fetched <= Cardinality(visited \cap Reachable)

SiteCrawlerInv ==
  /\ SiteCrawlerTypeOK
  /\ crawlPhase \in {"robots", "sitemap"} =>
       upcoming = <<Seed>> /\ visited = {} /\ fetched = 0 /\ found = <<>>
  /\ crawlPhase = "crawl" => WalkInv
  /\ crawlPhase = "done" => fetched = 0 \/ (WalkInv /\ entries = EntriesFromHits(found))
  /\ crawlPhase \in {"done", "offline"} => IsInjective(entries)
  /\ crawlPhase = "done" => ToSet(entries) \cap barred = {}

(* A walk starts well.                                                     *)
LEMMA WalkStarts ==
  ASSUME upcoming = <<Seed>>, visited = {}, fetched = 0, found = <<>>
  PROVE  WalkInv
<1>1. ToSet(upcoming) = {Seed} /\ ToSet(found) = {}
  BY DEF ToSet
<1>2. IsFiniteSet(visited) /\ Cardinality(visited \cap Reachable) = 0
  BY FS_EmptySet
<1>3. Seed \in SiteUrls
  BY SiteAssumption
<1>4. Seed \in Reachable \cup barred
  BY <1>3 DEF Reachable, Closed
<1>5. QED
  BY <1>1, <1>2, <1>4 DEF WalkInv

(* An entry of the crawl is a link that may be used and looks legal.       *)
LEMMA WalkEntries ==
  ASSUME SiteCrawlerTypeOK, WalkInv
  PROVE  /\ EntriesFromHits(found) \in Seq(SiteUrls) /\ IsInjective(EntriesFromHits(found))
         /\ ToSet(EntriesFromHits(found)) = {l.url : l \in ToSet(found)}
         /\ ToSet(EntriesFromHits(found)) \subseteq Due
         /\ ToSet(EntriesFromHits(found)) \cap barred = {}
         /\ upcoming = <<>> /\ ~unanswered => ToSet(EntriesFromHits(found)) = Due
<1> DEFINE es == EntriesFromHits(found)
           due == UNION {ToSet(Usable(p)) \cap LegalLinks : p \in Reachable \cap site.html}
<1>1. found \in Seq(Link) /\ site \in Sites /\ visited \subseteq SiteUrls
  BY DEF SiteCrawlerTypeOK
<1>2. /\ es \in Seq(SiteUrls) /\ IsInjective(es)
      /\ ToSet(es) = {l.url : l \in ToSet(found) \cap LegalLinks}
  BY <1>1, EntriesTyped
<1>3. ToSet(found) \subseteq due
  BY DEF WalkInv
<1>4. Due = {l.url : l \in due}
  BY DEF Due
<1>5. \A l \in due : l \in LegalLinks /\ l.url \notin barred
  <2>1. \A p \in Reachable : \A l \in ToSet(Usable(p)) : l.url \in Home \ barred
    BY <1>1, ReachableIs, UsableIs
  <2>2. QED
    BY <2>1
<1> HIDE DEF es, due
<1>6. ToSet(es) = {l.url : l \in ToSet(found)} /\ ToSet(es) \subseteq Due /\ ToSet(es) \cap barred = {}
  BY <1>2, <1>3, <1>4, <1>5
<1>7. ASSUME upcoming = <<>>, ~unanswered PROVE due \subseteq ToSet(found)
  <2> DEFINE ps == visited \ barred
  <2>1. ToSet(upcoming) = {}
    BY <1>7 DEF ToSet
  <2>2. /\ Seed \in visited
        /\ \A p \in ps \cap site.html :
             LeadsTo(p) \subseteq visited /\ ToSet(Usable(p)) \cap LegalLinks \subseteq ToSet(found)
    BY <1>7, <2>1 DEF WalkInv
  <2>3. \A p \in ps : LeadsTo(p) \cap barred = {}
    <3> TAKE p \in ps
    <3>1. \A l \in ToSet(Usable(p)) : l.url \in Home \ barred
      BY <1>1, UsableIs
    <3>2. QED
      BY <3>1 DEF LeadsTo
  <2>4. Closed(ps)
    BY <2>2, <2>3 DEF Closed
  <2>5. Reachable \subseteq ps
    BY <2>4, <1>1, ReachableIs
  <2> HIDE DEF ps
  <2>6. \A p \in Reachable \cap site.html : ToSet(Usable(p)) \cap LegalLinks \subseteq ToSet(found)
    BY <2>2, <2>5
  <2>7. QED
    BY <2>6 DEF due
<1>8. upcoming = <<>> /\ ~unanswered => ToSet(es) = Due
  BY <1>3, <1>4, <1>6, <1>7
<1>9. QED
  BY <1>2, <1>6, <1>8 DEF es

LEMMA SiteCrawlerInitInv ==
  ASSUME SiteCrawlerInit
  PROVE  SiteCrawlerInv
<1>1. Seed \in SiteUrls /\ PageBudget \in Nat
  BY SiteAssumption
<1>2. <<Seed>> \in Seq(SiteUrls) /\ <<>> \in Seq(Link) /\ <<>> \in Seq(SiteUrls)
  BY <1>1
<1>3. SiteCrawlerTypeOK
  <2>1. fetched \in 0..PageBudget /\ upcoming \in Seq(SiteUrls) /\ found \in Seq(Link) /\ entries \in Seq(SiteUrls)
    BY <1>1, <1>2 DEF SiteCrawlerInit
  <2>2. QED
    BY <2>1, Zenon DEF SiteCrawlerInit, SiteCrawlerTypeOK
<1>4. QED
  BY <1>3 DEF SiteCrawlerInit, SiteCrawlerInv

(* One more page of the walk.                                              *)
LEMMA VisitKeeps ==
  ASSUME SiteCrawlerInv, NEW answered \in BOOLEAN, VisitPage(answered)
  PROVE  SiteCrawlerInv'
<1> DEFINE url  == Head(upcoming)
           ask  == url \notin visited /\ url \notin barred
           page == ask /\ answered /\ url \in site.html
           new  == ToSet(NewPages(url))
           rest == ToSet(Tail(upcoming))
           kept == Kept(Usable(url), LegalLinks)
<1>1. /\ SiteCrawlerTypeOK /\ WalkInv /\ crawlPhase = "crawl" /\ upcoming # <<>> /\ fetched < PageBudget
      /\ answered \/ ask
      /\ visited' = visited \cup {url}
      /\ fetched' = IF ask /\ answered THEN fetched + 1 ELSE fetched
      /\ found' = IF page THEN found \o kept ELSE found
      /\ upcoming' = IF page THEN Tail(upcoming) \o NewPages(url) ELSE Tail(upcoming)
      /\ unanswered' = (unanswered \/ ~answered)
      /\ UNCHANGED <<site, crawlPhase, respect, barred, entries>>
  BY DEF VisitPage, SiteCrawlerInv
<1>2. /\ site \in Sites /\ upcoming \in Seq(SiteUrls) /\ visited \subseteq SiteUrls /\ found \in Seq(Link)
      /\ fetched \in 0..PageBudget /\ PageBudget \in Nat /\ unanswered \in BOOLEAN /\ barred \subseteq SiteUrls
  BY <1>1, SiteAssumption DEF SiteCrawlerTypeOK
<1>3. url \in SiteUrls /\ Tail(upcoming) \in Seq(SiteUrls) /\ ToSet(upcoming) = {url} \cup rest
  <2>1. /\ url \in SiteUrls /\ Tail(upcoming) \in Seq(SiteUrls) /\ Len(upcoming) \in Nat
        /\ DOMAIN upcoming = 1..Len(upcoming) /\ DOMAIN Tail(upcoming) = 1..(Len(upcoming) - 1)
        /\ \A n \in 1..(Len(upcoming) - 1) : Tail(upcoming)[n] = upcoming[n + 1]
        /\ url = upcoming[1] /\ Len(upcoming) >= 1
    BY <1>1, <1>2
  <2> HIDE DEF url
  <2>2. \A n \in DOMAIN upcoming : n = 1 \/ (n - 1 \in DOMAIN Tail(upcoming) /\ Tail(upcoming)[n - 1] = upcoming[n])
    <3> TAKE n \in DOMAIN upcoming
    <3> SUFFICES ASSUME n # 1 PROVE n - 1 \in DOMAIN Tail(upcoming) /\ Tail(upcoming)[n - 1] = upcoming[n]
      OBVIOUS
    <3>1. n - 1 \in 1..(Len(upcoming) - 1) /\ (n - 1) + 1 = n
      BY <2>1
    <3>2. QED
      BY <3>1, <2>1
  <2>3. ToSet(upcoming) \subseteq {url} \cup rest
    <3>1. \A n \in DOMAIN Tail(upcoming) : Tail(upcoming)[n] \in rest
      BY DEF ToSet
    <3>2. \A n \in DOMAIN upcoming : upcoming[n] = url \/ upcoming[n] \in rest
      BY <2>1, <2>2, <3>1, Zenon
    <3>3. QED
      BY <3>2 DEF ToSet
  <2>4. rest \subseteq ToSet(upcoming) /\ url \in ToSet(upcoming)
    <3>1. \A n \in DOMAIN Tail(upcoming) : n + 1 \in DOMAIN upcoming
      BY <2>1
    <3>2. QED
      BY <2>1, <3>1 DEF ToSet
  <2>5. QED
    BY <2>1, <2>3, <2>4
<1>4. /\ NewPages(url) \in Seq(SiteUrls)
      /\ new = LeadsTo(url) \ (visited \cup {url} \cup rest)
  BY <1>2, <1>3, NewPagesAre
<1>5. kept \in Seq(Link) /\ ToSet(kept) = ToSet(Usable(url)) \cap LegalLinks
  BY <1>2, <1>3, UsableIs, KeptSet
<1>6. Reachable' = Reachable /\ \A p : LeadsTo(p)' = LeadsTo(p) /\ Usable(p)' = Usable(p)
  BY <1>1 DEF Reachable, Closed, LeadsTo, Usable
<1> HIDE DEF url, new, rest, kept
<1>7. /\ page => /\ upcoming' \in Seq(SiteUrls) /\ ToSet(upcoming') = rest \cup new
                 /\ found' \in Seq(Link) /\ ToSet(found') = ToSet(found) \cup ToSet(kept)
      /\ ~page => /\ upcoming' \in Seq(SiteUrls) /\ ToSet(upcoming') = rest
                  /\ found' \in Seq(Link) /\ ToSet(found') = ToSet(found)
  <2>1. CASE page
    <3>1. upcoming' = Tail(upcoming) \o NewPages(url) /\ found' = found \o kept
      BY <1>1, <2>1
    <3>2. ToSet(Tail(upcoming) \o NewPages(url)) = ToSet(Tail(upcoming)) \cup ToSet(NewPages(url))
      BY <1>3, <1>4, ToSetOfConcat
    <3>3. ToSet(found \o kept) = ToSet(found) \cup ToSet(kept)
      BY <1>2, <1>5, ToSetOfConcat
    <3>4. upcoming' \in Seq(SiteUrls) /\ found' \in Seq(Link)
      BY <3>1, <1>2, <1>3, <1>4, <1>5
    <3>5. QED
      BY <2>1, <3>1, <3>2, <3>3, <3>4 DEF new, rest
  <2>2. CASE ~page
    BY <2>2, <1>1, <1>2, <1>3 DEF rest
  <2>3. QED
    BY <2>1, <2>2
<1>8. url \in Reachable \cup barred
  BY <1>1, <1>3 DEF WalkInv
<1>9. ask => url \in Reachable
  BY <1>8
<1>10. /\ Reachable \subseteq SiteUrls
       /\ \A p \in Reachable \cap site.html : LeadsTo(p) \subseteq Reachable
  BY <1>2, ReachableIs
<1>11. visited' \cup ToSet(upcoming') \subseteq Reachable \cup barred
  <2>1. visited \cup {url} \cup rest \subseteq Reachable \cup barred
    BY <1>1, <1>3 DEF WalkInv
  <2>2. page => new \subseteq Reachable
    BY <1>4, <1>9, <1>10
  <2>3. QED
    BY <2>1, <2>2, <1>1, <1>7
<1>12. Seed \in visited' \cup ToSet(upcoming')
  BY <1>1, <1>3, <1>7 DEF WalkInv
<1>13. ToSet(found') \subseteq UNION {ToSet(Usable(p)) \cap LegalLinks : p \in Reachable \cap site.html}
  <2> DEFINE due == UNION {ToSet(Usable(p)) \cap LegalLinks : p \in Reachable \cap site.html}
  <2>1. ToSet(found) \subseteq due
    BY <1>1 DEF WalkInv
  <2>2. page => ToSet(kept) \subseteq due
    BY <1>5, <1>9
  <2> HIDE DEF due
  <2>3. ToSet(found') \subseteq due
    BY <2>1, <2>2, <1>7
  <2>4. QED
    BY <2>3 DEF due
<1>14. ASSUME ~unanswered', NEW p \in (visited' \ barred) \cap site.html
       PROVE  /\ LeadsTo(p) \subseteq visited' \cup ToSet(upcoming')
              /\ ToSet(Usable(p)) \cap LegalLinks \subseteq ToSet(found')
  <2>1. ~unanswered /\ answered
    BY <1>1, <1>14, <1>2
  <2>2. CASE p \in visited
    <3>1. /\ LeadsTo(p) \subseteq visited \cup ToSet(upcoming)
          /\ ToSet(Usable(p)) \cap LegalLinks \subseteq ToSet(found)
      BY <1>1, <1>14, <2>1, <2>2 DEF WalkInv
    <3>2. QED
      BY <3>1, <1>1, <1>3, <1>7
  <2>3. CASE p \notin visited
    <3>1. p = url /\ page
      BY <1>1, <1>14, <2>1, <2>3
    <3>2. QED
      BY <3>1, <1>1, <1>4, <1>5, <1>7
  <2>4. QED
    BY <2>2, <2>3
<1>15. IsFiniteSet(visited') /\ fetched' <= Cardinality(visited' \cap Reachable)
  <2>1. /\ IsFiniteSet(visited) /\ fetched <= Cardinality(visited \cap Reachable)
        /\ IsFiniteSet(visited \cap Reachable) /\ Cardinality(visited \cap Reachable) \in Nat
    BY <1>1, FS_Subset, FS_CardinalityType DEF WalkInv
  <2>2. IsFiniteSet(visited')
    BY <1>1, <2>1, FS_AddElement
  <2>3. CASE url \in visited \/ url \notin Reachable
    <3>1. visited' \cap Reachable = visited \cap Reachable /\ fetched' = fetched
      BY <2>3, <1>1, <1>9
    <3>2. QED
      BY <3>1, <2>1, <2>2
  <2>4. CASE url \notin visited /\ url \in Reachable
    <3>1. visited' \cap Reachable = (visited \cap Reachable) \cup {url} /\ url \notin visited \cap Reachable
      BY <2>4, <1>1
    <3>2. Cardinality(visited' \cap Reachable) = Cardinality(visited \cap Reachable) + 1
      BY <3>1, <2>1, FS_AddElement
    <3>3. fetched' <= fetched + 1
      BY <1>1, <1>2
    <3>4. fetched' \in Nat
      BY <1>1, <1>2
    <3>5. QED
      BY <3>2, <3>3, <3>4, <2>1, <2>2, <1>2
  <2>5. QED
    BY <2>3, <2>4
<1>16. SiteCrawlerTypeOK'
  <2>1. fetched' \in 0..PageBudget
    BY <1>1, <1>2
  <2>2. visited' \subseteq SiteUrls
    BY <1>1, <1>2, <1>3
  <2>3. unanswered' \in BOOLEAN
    BY <1>1, <1>2
  <2>4. upcoming' \in Seq(SiteUrls) /\ found' \in Seq(Link)
    BY <1>7
  <2>5. QED
    BY <1>1, <2>1, <2>2, <2>3, <2>4 DEF SiteCrawlerTypeOK
<1>17. WalkInv'
  <2> HIDE DEF page, ask
  <2>1. /\ site' = site /\ barred' = barred /\ Reachable' = Reachable
        /\ \A p : LeadsTo(p)' = LeadsTo(p) /\ Usable(p)' = Usable(p)
    BY <1>1, <1>6
  <2>2. LegalLinks' = LegalLinks
    BY DEF LegalLinks, Link
  <2>3. QED
    BY <2>1, <2>2, <1>11, <1>12, <1>13, <1>14, <1>15 DEF WalkInv
<1>18. QED
  BY <1>1, <1>16, <1>17 DEF SiteCrawlerInv
LEMMA SiteCrawlerStep ==
  ASSUME SiteCrawlerInv, [SiteCrawlerNext]_siteCrawlerVars
  PROVE  SiteCrawlerInv'
<1>0. /\ SiteCrawlerTypeOK /\ site \in Sites /\ site \in Site /\ Listing \in Seq(SiteUrls)
  BY SiteAssumption DEF SiteCrawlerInv, SiteCrawlerTypeOK
<1>1. ASSUME NEW files \in SUBSET SiteUrls, DiscoverOffline(files) PROVE SiteCrawlerInv'
  <2> DEFINE seeds == Kept(Listing, files \cap Legal)
             names == Kept(Listing, files \cap site.html)
             hits  == Bare(seeds) \o AnchorsOf(names)[Len(names)]
  <2>1. seeds \in Seq(SiteUrls) /\ names \in Seq(SiteUrls)
    BY <1>0, KeptSet
  <2>2. entries' = EntriesFromHits(hits) /\ crawlPhase' = "offline" /\ crawlPhase = "robots"
        /\ UNCHANGED <<site, respect, barred, walkVars, unanswered>>
    BY <1>1 DEF DiscoverOffline
  <2> HIDE DEF seeds, names
  <2>3. Bare(seeds) \in Seq(Link) /\ AnchorsOf(names)[Len(names)] \in Seq(Link)
    BY <2>1, <1>0, BareTyped, AnchorsTyped
  <2>4. hits \in Seq(Link)
    BY <2>3
  <2> HIDE DEF hits
  <2>5. entries' \in Seq(SiteUrls) /\ IsInjective(entries')
    BY <2>2, <2>4, EntriesTyped
  <2>6. SiteCrawlerTypeOK'
    BY <1>0, <2>2, <2>5 DEF SiteCrawlerTypeOK, walkVars
  <2>7. QED
    BY <2>2, <2>5, <2>6 DEF SiteCrawlerInv
<1>2. ASSUME NEW answered \in BOOLEAN, LoadRobots(answered) PROVE SiteCrawlerInv'
  <2>1. barred' \subseteq SiteUrls
    BY <1>0, <1>2 DEF LoadRobots, Site
  <2>2. SiteCrawlerTypeOK'
    BY <1>0, <1>2, <2>1 DEF LoadRobots, SiteCrawlerTypeOK, walkVars
  <2>3. QED
    BY <1>2, <2>2 DEF LoadRobots, SiteCrawlerInv, walkVars
<1>3. ASSUME NEW answered \in BOOLEAN, TrySitemap(answered) PROVE SiteCrawlerInv'
  <2> DEFINE locs == IF answered THEN site.locs ELSE <<>>
  <2>1. /\ crawlPhase = "sitemap" /\ unanswered' = (unanswered \/ ~answered)
        /\ UNCHANGED <<site, respect, barred, walkVars>>
        /\ upcoming = <<Seed>> /\ visited = {} /\ fetched = 0 /\ found = <<>>
    BY <1>3 DEF TrySitemap, SiteCrawlerInv
  <2>2. unanswered' \in BOOLEAN /\ locs \in Seq(SiteUrls)
    BY <1>0, <2>1 DEF SiteCrawlerTypeOK, Site
  <2>3. CASE locs = <<>>
    <3>1. crawlPhase' = "crawl" /\ entries' = entries
      BY <1>3, <2>3 DEF TrySitemap
    <3>2. SiteCrawlerTypeOK'
      BY <1>0, <2>1, <2>2, <3>1 DEF SiteCrawlerTypeOK, walkVars
    <3>3. (upcoming = <<Seed>> /\ visited = {} /\ fetched = 0 /\ found = <<>>)'
      BY <2>1 DEF walkVars
    <3>4. WalkInv'
      BY <3>3, WalkStarts, PTL
    <3>5. QED
      BY <3>1, <3>2, <3>4 DEF SiteCrawlerInv
  <2>4. CASE locs # <<>>
    <3> DEFINE kept == Kept(locs, Home \ barred)
    <3>1. crawlPhase' = "done" /\ entries' = EntriesFromHits(Bare(kept))
      BY <1>3, <2>4 DEF TrySitemap
    <3>2. kept \in Seq(SiteUrls) /\ ToSet(kept) \cap barred = {}
      <4>1. kept \in Seq(SiteUrls) /\ ToSet(kept) = ToSet(locs) \cap (Home \ barred)
        BY <2>2, KeptSet
      <4>2. QED
        BY <4>1
    <3> HIDE DEF kept
    <3>3. PICK bare : bare = Bare(kept)
      OBVIOUS
    <3>4. bare \in Seq(Link) /\ {l.url : l \in ToSet(bare)} = ToSet(kept)
      BY <3>2, <3>3, BareTyped
    <3>5. /\ entries' \in Seq(SiteUrls) /\ IsInjective(entries')
          /\ ToSet(entries') = {l.url : l \in ToSet(bare) \cap LegalLinks}
      BY <3>1, <3>3, <3>4, EntriesTyped
    <3>6. ToSet(entries') \cap barred' = {}
      BY <2>1, <3>2, <3>4, <3>5
    <3>7. SiteCrawlerTypeOK'
      BY <1>0, <2>1, <2>2, <3>1, <3>5 DEF SiteCrawlerTypeOK, walkVars
    <3>8. fetched' = 0
      BY <2>1 DEF walkVars
    <3>9. QED
      BY <3>1, <3>5, <3>6, <3>7, <3>8 DEF SiteCrawlerInv
  <2>5. QED
    BY <2>3, <2>4
<1>4. ASSUME NEW answered \in BOOLEAN, VisitPage(answered) PROVE SiteCrawlerInv'
  BY <1>4, VisitKeeps
<1>5. CASE EndSiteCrawl
  <2>1. /\ crawlPhase = "crawl" /\ crawlPhase' = "done" /\ entries' = EntriesFromHits(found)
        /\ UNCHANGED <<site, respect, barred, walkVars, unanswered>> /\ WalkInv
    BY <1>5 DEF EndSiteCrawl, SiteCrawlerInv
  <2>2. /\ EntriesFromHits(found) \in Seq(SiteUrls) /\ IsInjective(EntriesFromHits(found))
        /\ ToSet(EntriesFromHits(found)) \cap barred = {}
    BY <1>0, <2>1, WalkEntries
  <2>3. SiteCrawlerTypeOK'
    BY <1>0, <2>1, <2>2 DEF SiteCrawlerTypeOK, walkVars
  <2>4. WalkInv'
    <3>1. /\ Reachable' = Reachable /\ LegalLinks' = LegalLinks
          /\ \A p : LeadsTo(p)' = LeadsTo(p) /\ Usable(p)' = Usable(p)
      BY <2>1 DEF walkVars, Reachable, Closed, LeadsTo, Usable, LegalLinks, Link
    <3>2. QED
      BY <2>1, <3>1 DEF WalkInv, walkVars
  <2>5. (entries = EntriesFromHits(found))'
    BY <2>1 DEF walkVars, EntriesFromHits, LegalLinks, Link
  <2>6. QED
    BY <2>1, <2>2, <2>3, <2>4, <2>5 DEF SiteCrawlerInv
<1>6. CASE UNCHANGED siteCrawlerVars
  <2>1. SiteCrawlerTypeOK'
    BY <1>0, <1>6 DEF SiteCrawlerTypeOK, siteCrawlerVars, walkVars
  <2>2. WalkInv <=> WalkInv'
    BY <1>6 DEF WalkInv, siteCrawlerVars, walkVars, Reachable, Closed, LeadsTo, Usable, LegalLinks, Link
  <2>3. QED
    BY <1>6, <2>1, <2>2 DEF SiteCrawlerInv, siteCrawlerVars, walkVars, EntriesFromHits, LegalLinks, Link
<1>7. QED
  BY <1>1, <1>2, <1>3, <1>4, <1>5, <1>6 DEF SiteCrawlerNext

LEMMA SiteCrawlerSound ==
  ASSUME SiteCrawlerInv
  PROVE  SiteCrawlerTypeOK /\ CrawlIsExact
<1>1. ASSUME crawlPhase = "done", fetched > 0
      PROVE  /\ ToSet(entries) \subseteq Due
             /\ upcoming = <<>> /\ ~unanswered => ToSet(entries) = Due
             /\ fetched <= Cardinality(visited \cap Reachable)
  <2>1. SiteCrawlerTypeOK /\ WalkInv /\ entries = EntriesFromHits(found)
    BY <1>1 DEF SiteCrawlerInv
  <2>2. QED
    BY <2>1, WalkEntries DEF WalkInv
<1>2. QED
  BY <1>1 DEF SiteCrawlerInv, CrawlIsExact

(* Whatever the site and whichever requests are unanswered, the variables of the *)
(* crawler keep their types: it never fetches more pages than its budget.  *)
THEOREM SiteCrawlerTyped == SiteCrawlerSpec => []SiteCrawlerTypeOK
<1>1. SiteCrawlerInit => SiteCrawlerInv
  BY SiteCrawlerInitInv
<1>2. SiteCrawlerInv /\ [SiteCrawlerNext]_siteCrawlerVars => SiteCrawlerInv'
  BY SiteCrawlerStep
<1>3. SiteCrawlerInv => SiteCrawlerTypeOK
  BY SiteCrawlerSound
<1>4. QED
  BY <1>1, <1>2, <1>3, PTL DEF SiteCrawlerSpec

(* A crawl of any site has an entry for exactly what is within reach,      *)
(* allowed and legal, or for a part of it when it was cut short.           *)
THEOREM SiteCrawlExact == SiteCrawlerSpec => []CrawlIsExact
<1>1. SiteCrawlerInit => SiteCrawlerInv
  BY SiteCrawlerInitInv
<1>2. SiteCrawlerInv /\ [SiteCrawlerNext]_siteCrawlerVars => SiteCrawlerInv'
  BY SiteCrawlerStep
<1>3. SiteCrawlerInv => CrawlIsExact
  BY SiteCrawlerSound
<1>4. QED
  BY <1>1, <1>2, <1>3, PTL DEF SiteCrawlerSpec
=============================================================================
