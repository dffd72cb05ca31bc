------------------------------ MODULE Retrieval ------------------------------
(***************************************************************************)
(* RetrievalService: the index of child chunks in the vector store, its    *)
(* bookkeeping in memory, and queries against both.                        *)
(*                                                                         *)
(* One service is shared by all request threads of a process.  A document  *)
(* enters the index in three steps (chunk texts, points, document map), a  *)
(* query is answered in three (search, filter, build), and nothing locks   *)
(* them against each other.  The points outlive the process where the      *)
(* store is a server; the bookkeeping does not.                            *)
(*                                                                         *)
(* Scores are abstract: the fused ranking and the reranker's order are     *)
(* arbitrary permutations.                                                 *)
(***************************************************************************)
EXTENDS Filter, Naturals, SequencesExt, FiniteSetsExt

CONSTANTS
  Documents, Elements, Children, Jurisdictions,
  JurisdictionOf,   (* of a document                                       *)
  DocOf,            (* of an element                                       *)
  ElementOf,        (* of a child chunk                                    *)
  Threads,
  TopInitial,       (* top_k_initial, 40 by default                        *)
  TopK,             (* top_k of a query; the pipeline asks for 8           *)
  OverFetch,        (* factor of the search limit                          *)
  MaxIndexings, MaxQueries, MaxRestarts   (* bounds on the history         *)

ASSUME MapAssumption ==
  /\ JurisdictionOf \in [Documents -> Jurisdictions]
  /\ DocOf \in [Elements -> Documents] /\ ElementOf \in [Children -> Elements]
  /\ Documents # {} /\ Jurisdictions # {} /\ IsFiniteSet(Children)
ASSUME LimitAssumption ==
  /\ {TopInitial, TopK, OverFetch} \subseteq Nat \ {0} /\ TopK <= TopInitial
  /\ {MaxIndexings, MaxQueries, MaxRestarts} \subseteq Nat

VARIABLES
  points,     (* children in the vector store                              *)
  childText,  (* keys of _child_text                                       *)
  docs,       (* _docs: the elements of each document that is registered   *)
  step,       (* step[t]: where thread t is                               *)
  doc, chunks,           (* what thread t is indexing                      *)
  asked, ranked, kept,   (* the query of thread t, its candidates ...      *)
  hits,                  (* ... and its answer                             *)
  alone,                 (* history: no other thread was at work at the    *)
                         (* same time as the last query of thread t        *)
  indexings, queries, restarts

memory == <<childText, docs>>
work   == <<doc, chunks>>
query  == <<asked, ranked, kept, hits>>
bounds == <<indexings, queries, restarts>>
indexVars == <<points, memory, step, work, query, alone, bounds>>

-----------------------------------------------------------------------------
IndexTypeOK ==
  /\ points \subseteq Children /\ childText \subseteq Children
  /\ \E registered \in SUBSET Documents : docs \in [registered -> SUBSET Elements]
  /\ \A d \in DOMAIN docs : \A e \in docs[d] : DocOf[e] = d
  /\ step \in [Threads -> {"idle", "upsert", "register", "filter", "build", "answered"}]
  /\ doc \in [Threads -> Documents] /\ chunks \in [Threads -> SUBSET Children]
  /\ asked \in [Threads -> Jurisdictions] /\ alone \in [Threads -> BOOLEAN]
  /\ {ranked, kept, hits} \subseteq [Threads -> Seq(Children)]
  /\ indexings \in 0..MaxIndexings /\ queries \in 0..MaxQueries
  /\ restarts \in 0..MaxRestarts

IndexInit ==
  /\ points = {} /\ childText = {} /\ docs = [d \in {} |-> {}]
  /\ step = [t \in Threads |-> "idle"]
  /\ doc \in [Threads -> {CHOOSE d \in Documents : TRUE}]
  /\ chunks = [t \in Threads |-> {}]
  /\ asked \in [Threads -> {CHOOSE j \in Jurisdictions : TRUE}]
  /\ ranked = [t \in Threads |-> <<>>] /\ kept = ranked /\ hits = ranked
  /\ alone = [t \in Threads |-> TRUE]
  /\ indexings = 0 /\ queries = 0 /\ restarts = 0

-----------------------------------------------------------------------------
Working(t) == step[t] \notin {"idle", "answered"}
Others(t)  == {u \in Threads \ {t} : Working(u)}

(* Mutant: the document is registered before its points are written.       *)
IndexRegisters(t, d, extracted) ==
  /\ ~Working(t) /\ indexings < MaxIndexings
  /\ \A c \in extracted : DocOf[ElementOf[c]] = d
  /\ childText' = childText \cup extracted
  /\ docs' = [x \in DOMAIN docs \cup {d} |->
                IF x = d THEN {ElementOf[c] : c \in extracted} ELSE docs[x]]
  /\ doc' = [doc EXCEPT ![t] = d] /\ chunks' = [chunks EXCEPT ![t] = extracted]
  /\ step' = [step EXCEPT ![t] = "upsert"]
  /\ alone' = [u \in Threads |-> alone[u] /\ u \notin Others(t)]
  /\ indexings' = indexings + 1
  /\ UNCHANGED <<points, query, queries, restarts>>

(* index_document, first loop: every chunk's text is noted.                *)
Index(t, d, extracted) ==
  /\ ~Working(t) /\ indexings < MaxIndexings
  /\ \A c \in extracted : DocOf[ElementOf[c]] = d
  /\ childText' = childText \cup extracted
  /\ doc' = [doc EXCEPT ![t] = d] /\ chunks' = [chunks EXCEPT ![t] = extracted]
  /\ step' = [step EXCEPT ![t] = "upsert"]
  /\ alone' = [u \in Threads |-> alone[u] /\ u \notin Others(t)]
  /\ indexings' = indexings + 1
  /\ UNCHANGED <<points, docs, query, queries, restarts>>

(* The points are written, batch by batch; those of an earlier extraction  *)
(* stay.                                                                   *)
Upsert(t) ==
  /\ step[t] = "upsert"
  /\ \/ \E batch \in SUBSET chunks[t] : points' = points \cup batch /\ UNCHANGED step
     \/ points' = points \cup chunks[t] /\ step' = [step EXCEPT ![t] = "register"]
  /\ UNCHANGED <<memory, work, query, alone, bounds>>

(* The embedder or the store raises, before or between batches: so does    *)
(* index_document, and its locals are gone.                                *)
IndexFails(t) ==
  /\ step[t] = "upsert" /\ chunks[t] # {}
  /\ step' = [step EXCEPT ![t] = "idle"]
  /\ chunks' = [chunks EXCEPT ![t] = {}]
  /\ UNCHANGED <<points, memory, doc, query, alone, bounds>>

(* Mutant: the map is built from every chunk noted so far.                 *)
RegisterAll(t) ==
  /\ step[t] = "register"
  /\ docs' = [d \in DOMAIN docs \cup {doc[t]} |->
                IF d = doc[t] THEN {ElementOf[c] : c \in childText} ELSE docs[d]]
  /\ step' = [step EXCEPT ![t] = "idle"]
  /\ chunks' = [chunks EXCEPT ![t] = {}]
  /\ UNCHANGED <<points, childText, doc, query, alone, bounds>>

(* The document's map replaces that of an earlier extraction.  Elements    *)
(* without a chunk are in it, too, but no query ever asks for them.        *)
Register(t) ==
  /\ step[t] = "register"
  /\ docs' = [d \in DOMAIN docs \cup {doc[t]} |->
                IF d = doc[t] THEN {ElementOf[c] : c \in chunks[t]} ELSE docs[d]]
  /\ step' = [step EXCEPT ![t] = "idle"]
  /\ chunks' = [chunks EXCEPT ![t] = {}]
  /\ UNCHANGED <<points, childText, doc, query, alone, bounds>>

-----------------------------------------------------------------------------
SearchLimit == OverFetch * TopInitial

(* search_hybrid over everybody's points, in some order of relevance.      *)
Search(t, jurisdiction) ==
  /\ ~Working(t) /\ queries < MaxQueries
  /\ asked' = [asked EXCEPT ![t] = jurisdiction]
  /\ \E found \in kSubset(Min({SearchLimit, Cardinality(points)}), points) :
       \E ranking \in SetToSeqs(found) : ranked' = [ranked EXCEPT ![t] = ranking]
  /\ kept' = [kept EXCEPT ![t] = <<>>] /\ hits' = [hits EXCEPT ![t] = <<>>]
  /\ step' = [step EXCEPT ![t] = "filter"]
  /\ alone' = [u \in Threads |-> IF u = t THEN Others(t) = {}
                                ELSE alone[u] /\ u \notin Others(t)]
  /\ queries' = queries + 1
  /\ UNCHANGED <<points, memory, work, indexings, restarts>>

(* A child belongs to a registered document that has its element.          *)
Owned(c) ==
  LET d == DocOf[ElementOf[c]]
  IN  d \in DOMAIN docs /\ ElementOf[c] \in docs[d]

(* A candidate is kept unless its text is unknown or its document is       *)
(* another jurisdiction's; without a document there is no jurisdiction.    *)
Passing(jurisdiction) ==
  {c \in childText : Owned(c) => JurisdictionOf[DocOf[ElementOf[c]]] = jurisdiction}

(* The first n of a list, or all of a shorter one.                         *)
First(s, n) == SubSeq(s, 1, Min({n, Len(s)}))

(* Mutant: the candidates are cut to top_k_initial before they are         *)
(* filtered.                                                               *)
FilterCut(t) ==
  /\ step[t] = "filter"
  /\ kept' = [kept EXCEPT ![t] = Kept(First(ranked[t], TopInitial), Passing(asked[t]))]
  /\ step' = [step EXCEPT ![t] = "build"]
  /\ UNCHANGED <<points, memory, work, asked, ranked, hits, alone, bounds>>

Filter(t) ==
  /\ step[t] = "filter"
  /\ kept' = [kept EXCEPT ![t] = First(Kept(ranked[t], Passing(asked[t])), TopInitial)]
  /\ step' = [step EXCEPT ![t] = "build"]
  /\ UNCHANGED <<points, memory, work, asked, ranked, hits, alone, bounds>>

(* Mutant: a hit is built for a child without an owner, too.               *)
BuildUnowned(t) ==
  /\ step[t] = "build"
  /\ \E order \in SetToSeqs(ToSet(kept[t])) :
       hits' = [hits EXCEPT ![t] = First(order, TopK)]
  /\ step' = [step EXCEPT ![t] = "answered"]
  /\ UNCHANGED <<points, memory, work, asked, ranked, kept, alone, bounds>>

(* The reranked candidates, the first top_k of them, those without an      *)
(* owner dropped.                                                          *)
Build(t) ==
  /\ step[t] = "build"
  /\ \E order \in SetToSeqs(ToSet(kept[t])) :
       hits' = [hits EXCEPT ![t] = Kept(First(order, TopK), {c \in Children : Owned(c)})]
  /\ step' = [step EXCEPT ![t] = "answered"]
  /\ UNCHANGED <<points, memory, work, asked, ranked, kept, alone, bounds>>

(* The process restarts with an empty memory, and with the points where    *)
(* the store is a server.                                                  *)
Restart ==
  /\ restarts < MaxRestarts
  /\ step' = [t \in Threads |-> "idle"]
  /\ points' \in {points, {}}
  /\ childText' = {} /\ docs' = [d \in {} |-> {}]
  /\ restarts' = restarts + 1
  /\ chunks' = [t \in Threads |-> {}]
  /\ UNCHANGED <<doc, query, alone, indexings, queries>>

IndexNext ==
  \/ \E t \in Threads :
       \/ \E d \in Documents :
            \E extracted \in SUBSET {c \in Children : DocOf[ElementOf[c]] = d} :
              Index(t, d, extracted)
       \/ Upsert(t) \/ IndexFails(t) \/ Register(t)
       \/ \E jurisdiction \in Jurisdictions : Search(t, jurisdiction)
       \/ Filter(t)
       \/ Build(t)
  \/ Restart

IndexSpec == IndexInit /\ [][IndexNext]_indexVars

-----------------------------------------------------------------------------
(***************************************************************************)
(* Properties.  Live children are those a query could return.              *)
(***************************************************************************)

Live(jurisdiction) ==
  {c \in points \cap childText :
     Owned(c) /\ JurisdictionOf[DocOf[ElementOf[c]]] = jurisdiction}

Orphans == {c \in points \cap childText : ~Owned(c)}

(* A query that shares the service with nobody returns only children of    *)
(* the jurisdiction it asks for, though the filter lets children pass that *)
(* have no document: those are dropped when the hit is built (retrieve,    *)
(* _build_hit).  Overlapping an indexing, it may return others.            *)
OwnJurisdictionOnly ==
  \A t \in Threads : alone[t] =>
    \A c \in ToSet(hits[t]) : JurisdictionOf[DocOf[ElementOf[c]]] = asked[t]

(* A document is registered only when all of it can be found: every        *)
(* element with text has a chunk in the store whose text is known, though  *)
(* indexings overlap, fail between their steps and are repeated with other *)
(* elements (index_document registers last).                               *)
RegisteredIsSearchable ==
  \A d \in DOMAIN docs : \A e \in docs[d] :
    \E c \in points \cap childText : ElementOf[c] = e

(* While the store has no more points than a search returns and none of    *)
(* them is an orphan, a query misses nothing: it gets top_k hits, or all   *)
(* the live children of its jurisdiction where there are fewer - points of *)
(* other jurisdictions or of earlier processes do not displace them.       *)
SmallStoreIsComplete ==
  [][\A t \in Threads :
       step[t] = "build" /\ step'[t] = "answered" /\ alone[t] /\ Orphans = {}
         /\ Cardinality(points) <= SearchLimit =>
       Len(hits'[t]) = Min({TopK, Cardinality(Live(asked[t]))})]_indexVars
=============================================================================
