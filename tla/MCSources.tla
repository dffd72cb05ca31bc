----------------------------- MODULE MCSources ------------------------------
(***************************************************************************)
(* A small instance for TLC of the two sides of rie_ingest that gather     *)
(* documents: the ingestions of Corpus and the crawls of Discovery.  They  *)
(* share no state (a crawl writes proposals for a reviewer, who alone      *)
(* changes the registry), so that a behaviour takes the steps of one.      *)
(***************************************************************************)
EXTENDS MCCorpus, Discovery

CONSTANTS u1, u2, u3, u4, u5, host

MCHostOf   == [u \in Urls |-> host]
MCSeeds    == <<u1>>
MCU4       == {u4}
MCU5       == {u5}

Page(links)    == [html |-> TRUE, listed |-> TRUE, links |-> links, version |-> 1]
Hidden(links)  == [html |-> TRUE, listed |-> FALSE, links |-> links, version |-> 1]
File(version)  == [html |-> FALSE, listed |-> TRUE, links |-> <<>>, version |-> version]

(* Two versions of a file, three listed pages, one of which links twice to *)
(* another, and an unlisted one with a malformed link.                     *)
MCBodies    == {Page(<<u2, u2, u3>>), Page(<<u3>>), Page(<<u4>>), Hidden(<<u2, u5>>),
                File(1), File(2)}
(* Pages that link ahead, across and back, up to three links deep.         *)
MCGraphs    ==
  {w \in [Urls -> MCBodies \cup {NoPage}] :
     /\ w[u1] = Page(<<u2, u2, u3>>)
     /\ w[u2] \in {Page(<<u3>>), Page(<<u4>>), File(1)}
     /\ w[u3] \in {Page(<<u2, u2, u3>>), Page(<<u4>>), Hidden(<<u2, u5>>)}
     /\ w[u4] \in {File(1), Page(<<u3>>)}
     /\ w[u5] = NoPage}

-----------------------------------------------------------------------------
VARIABLE side

NoIngestion == registry = Missing /\ world = [p \in Places |-> Absent] /\ Init
NoCrawl     == web = (CHOOSE w \in MCGraphs : w[u4] = File(1)) /\ DiscoveryInit

SourcesInit ==
  \/ side = "ingest" /\ Init /\ NoCrawl
  \/ side = "crawl" /\ NoIngestion /\ DiscoveryInit

SourcesNext ==
  /\ UNCHANGED side
  /\ \/ side = "ingest" /\ Next /\ UNCHANGED discoveryVars
     \/ side = "crawl" /\ DiscoveryNext /\ UNCHANGED vars

SourcesSpec == SourcesInit /\ [][SourcesNext]_<<side, vars, discoveryVars>>
=============================================================================
