# A verification development of the Regulatory Intelligence Engine

TLA+ models of the engine's own core logic - the claim pipeline with its human
review, the verification gates, the stores they share, the two crawlers,
ingestion, and the stages from extraction to the submission files - with the TLC
runs that check them and TLAPS proofs of the properties that matter most.

    tlc -config solo.cfg MCPipeline       # any run: its cfg, its MC module
    tlapm PipelineProofs.tla              # the proofs; also CorpusProofs, DiscoveryProofs,
                                          # FilterProofs, RegimeProofs, ReportProofs,
                                          # StoresProofs, VerificationProofs

`PROJECT.json` lists the runs, the definitions and the source lines each one
models, a mutant for each property, the hazards and the theorems.

## 1. The system: inventory

The engine reads legal documents, finds clauses that bear on an indicator,
asks a language model whether a clause is evidence, checks the answer with four
gates, lets a reviewer settle the doubtful ones, and reports coverage per
indicator and a score band per verified claim. It is a set of Python packages
under `src/packages`, run by a FastAPI process whose request threads execute a
LangGraph state machine, or once by `main.py`, which also writes a submission.

| Part | State it keeps | Operations | Hard behaviour |
|---|---|---|---|
| rie-orchestration (runner, graph, nodes, review node, review queue) | checkpoint of each thread (run id), the graph state of an invocation | start a run, one node after another, interrupt for review, resume, run status | two requests on one run id; a crash between nodes; state copied into a checkpoint and used after the store moved on; a pending interrupt lost or consumed twice |
| rie-orchestration (conformance), rie-output | the CSV and JSON files of a run | build rows, write both files | one claim that makes no row; a stop between the files; files of an earlier attempt |
| rie-persistence (repository) | rows: documents, elements, edges, claims, verifications per gate, coverage, recommendations, reviews | one transaction per call; upserts keyed by derived ids | a report is four rows; `latest_verification` recombines them by time; elements are overwritten in place; documents and elements are committed apart; a claim saved again is pending again |
| rie-verify (gates, panel, advisory checks, KG gate) | none of its own; reads elements when each gate runs | `verify`, `verify_with_kg` | backends that raise; a document extracted again between two gates; later checks changing a fixed status |
| rie-domain | none | `derive_status`, citations, regime walk, authority | two copies of one rule must agree; a regime that depends on the order of edges |
| rie-classify | none | samples, votes, spans, `save_claim` | samples that fail, pillars that retrieve the same clause, span ids that collide |
| rie-coverage | corpus manifests | state of an indicator, completeness, defensible zero, score bands | absence concluded from an incomplete corpus; ties between bands; recommendations stored by runs and computed by the API from rows that runs share |
| rie-ingest | content cache, robots, discovery cache and proposal files | crawl, discover, ingest | one temporary file for two writers; sources that fail; breadth-first bounds; a crash between two files |
| rie-extract | none of its own; emits elements and structure edges | one adapter per format, `StructureGraphBuilder.build` | pages without text, retries, the chapter in force, ids of numbered headings; several edges between the same two clauses |
| rie-retrieval | points in Qdrant, texts and documents in memory | index in three steps, query in three steps, chunk | two threads between the steps; a restart that keeps half of the state; a limit shared by all jurisdictions |
| rie-api | the process: pool of request threads, checkpointer | POST runs, resume, reviews; read routes | overlapping requests; the status that is answered |
| rie-eval | none | gold matching, counts per indicator, rates from reviews | greedy matching in file order; counts that must add up |
| rie-profiles, rie-config, rie-contracts, UIs, tools, data | none that lives | reading and formatting | - |

How they interact: a request thread carries an invocation through the nodes
ingest, extract, index, retrieve, classify, verify, (review), coverage, layer2.
Nodes call services directly; what they share with other invocations is the
repository, the retrieval service (one object per process), the checkpointer and
the content cache on disk. Every repository call is a transaction of its own, so
another invocation may run between any two of them. The discovery crawler is a
process of its own whose files a person reviews; the source crawler fills
registries; `EconomyIngestor` reads registries without the pipeline.

What would make each part correct:
- pipeline: no status, recommendation or coverage row without its warrant; no
  claim in doubt overlooked before coverage; a pending question is not lost;
  every request is answered; when nothing overlaps, state and store agree;
- verification: rejected only for a cause, verified only by answers and never by
  silence, never promoted after the gates, cited as it was read;
- gate rows: what is read back is never older than what was read before, and a
  failed gate withholds the claim until a newer one passes;
- corpus: a cached file is what was fetched; a finished run has stored what it
  read, whatever earlier runs left half done; a failing source costs no other;
- crawlers: a crawl finds exactly what is new, or what is within reach and
  allowed; a repeated crawl is idempotent; nothing becomes known unproposed;
- extraction: elements in order, told apart, filed under the heading in force;
- retrieval: a registered document can be found; hits are of the jurisdiction
  asked for; a small store misses nothing;
- chunks: no word is lost, and the loop advances;
- regimes: exactly the clauses within two edges of a clause, each once and in one
  role, whether read from an extraction or from the store;
- classification: a claim has the label no other outvotes, of the right pillar,
  and spans of stored text; each clause has one outcome;
- coverage: absence only where it was measured, and never from knowing more;
- scoring: a band moves only the way of a word or an example that is new;
- recommendations: what a run stores is what the API would compute from the rows,
  and no claim shows a band that coverage never counted;
- submission: both files of a run or neither, a row for each claim not rejected;
- evaluation: pairs are maximal and counts and rates add up.

## 2. Modules

| Module | What it models |
|---|---|
| `Verdicts` | Verdicts and gates: `derive_status`, its mirror in the repository, the verifier's own decision, a demotion |
| `Filter`, `FilterProofs` | Lists as the code filters them, with the lemmas about them and the induction the other proofs use |
| `ClaimLifecycle` | Abstract specification: the status of claims as a client of the claims API sees it |
| `Pipeline` | Request threads, invocations, checkpoints, crashes and the store; implements `ClaimLifecycle` (`LifecycleSpec`) |
| `PipelineProofs` | Theorems about `Pipeline` |
| `Verification` | One claim from the classifier's prompt to its citations, while its document may be extracted again |
| `VerificationProofs` | Theorems about `Verification` |
| `GateStore` | Verifiers storing reports gate by gate, and reading them back |
| `Corpus` | Ingestions that share the content cache and the document and element rows; retries, crashes, sources that change |
| `CorpusProofs` | Theorems about `Corpus` |
| `Discovery` | Repeated crawls for news, their cache and proposal files, a web that changes |
| `SourceCrawler` | One crawl from a seed to registry entries: sitemap, breadth-first, offline |
| `DiscoveryProofs` | Theorems about `Discovery` and `SourceCrawler` |
| `Extraction` | The adapters: block walk, page-by-page transcription, merge with a layout |
| `StructureGraph` | The elements of a text, their ids and numbers, and the edges `build` reads off them |
| `Regime` | Extractions into the store, and the walk of `assemble_regime` over either graph |
| `RegimeProofs` | Theorems about `Regime` and `Extraction` |
| `Retrieval` | Indexing and querying from several threads, restarts |
| `Chunker` | The loop of `chunk_text`, over every small text |
| `StoresProofs` | Theorems about `GateStore`, `Retrieval` and `Chunker`, and that the three derivations of a verdict agree |
| `Classification` | Hits of several pillars to saved claims: samples, votes, spans, failures |
| `Coverage` | What may be said of an indicator without evidence |
| `Scoring` | Score bands: the points of a text, the example that overrules them |
| `Recommendations` | Where runs store recommendations, and how the API shows or computes one |
| `Submission` | The rows and the two files of a run |
| `Evaluation` | Gold matching and the rates of an evaluation |
| `ReportProofs` | Theorems about `Classification`, `Coverage`, `Scoring`, `Recommendations`, `Submission` and `Evaluation` |
| `MCPipeline`, `MCVerification`, `MCCorpus`, `MCRegime` | Instances for TLC |
| `MCSources` | `Corpus` and `Discovery` side by side, one of them per behaviour |
| `MCStores` | `Retrieval` and `GateStore` side by side, one store per behaviour |
| `MCStages` | `Regime` and the modules of the other stages side by side, one stage per behaviour |

How they compose. `Pipeline` EXTENDS `Verdicts` and takes a verification as one
step with an arbitrary verdict: what verdicts are possible is `Verification`,
and that storing a report may be one step as long as verifiers take turns is
`StatusFollowsGates` of `GateStore`; where they overlap, `GateStore` shows what
the step hides. `Pipeline`'s `Prepare` stands for the nodes before
classification; what they keep between runs is `Corpus` and `Retrieval`, and the
outcomes `Prepare` chooses among are theirs. `ClassifyClaim` is one claim of
`Classification`, `EvaluateCoverage` is `CoverageRow` of `Coverage` and `SaveLayer2` is
`SaveRecommendation` of `Recommendations`, which takes the band of each text, `Band` of
`Scoring`, as a constant. `Regime` EXTENDS `StructureGraph`, whose operators
it walks over; the regime it ends with is what `ClassifyClaim` stores with a
claim. `Submission` takes the claims and verdicts a finished `Pipeline` run holds.

### Pipeline: state and actions

`pc[w]` is the node a request thread is in and `inv[w]` the `RieState` it works
on; `thread[r]` is the checkpoint of run `r`; `row`, `gateLog`, `layer2`,
`coverage` and `reviews` are the repository. Loops over claims are executed one
repository call a step (`ClassifyClaim`, `VerifyClaim`, `ScreenClaim`,
`AcceptClaim`, `SaveLayer2`), and the set `todo` is what is left of a loop. A
node's last step writes the checkpoint (`Save`). Only the graph with the review
node has a saver, the memory saver (`HasSaver`): `build_postgres_checkpointer` fails
in every build (section 6), so a `Crash` loses all checkpoints. `Interrupt` pauses the
thread with the claims it asks about (`asked`), and `Resume` continues from the
checkpoint as it was stored, whatever the store says by now; its `accepts` may name
any claims and leave any out. An invocation may `Fail` in any node and between
the graph's end and the answer. `attested` and `approved` are history variables: claims
for which a verified report was stored, and claims some resume request accepted.
`InTurn` says that invocations take turns: one is executed at a time, and while a
question to a reviewer is open only an invocation of that run.

A run id that is posted again replaces the checkpoint but keeps the two channels
the new run does not write, `ingest_degraded` and `layer2_recommendations`.

### Verification: state and actions

`element` is the store of texts, `prompt` what the classifier was shown; a span
is offsets into one element. Each gate reads `element` when it runs, and the
verbatim gate reads it twice (`VerbatimRead`, `VerbatimCompare`). Texts are short
sequences of words: the properties only tell equal texts, sub-sequences and
empty ones apart. The answers of models are arbitrary, and each backend may
raise; `silent` and `touched` are history variables. `Reextract` is another run's
`save_elements`.

### GateStore: state and actions

`saved` is the verification rows in the order they were stored, each gate with
its `ran_at` (`clock`); `Latest` picks a gate's row by time and `ReadBack` puts a
report together from four of them; `row` is the claim's status. `overlapped`
remembers whether a verifier ever began while another was at work.

### Corpus: state and actions

`world` is what disk and network hold at each place of the `registry`; `tmp` and
`bin` are the two files of the cache under each hash, and a hash is named by the
bytes it is of. An ingestion `w` is a pipeline run, an economy load or one
`fetch_and_register`; `pc[w]` is where it is in `_fetch_raw`
(`Read`, `ReadPinned`, `Request`, `Answer`, `Retry`) or in `store` (`Open`,
`Write`, `Replace`), `job[w]` its locals. `Save` is `save_document`, `Extract` one
iteration of `extract_node`, which torn bytes always fail and any bytes may
(`ExtractFails`). A rename moves whatever the file holds by then:
`file` follows the file an ingestion has open, which another one may have renamed
(it then writes into the final file) or replaced. `raced` and `alone` are history.

### Discovery and SourceCrawler: state and actions

`Discovery`: `queue`, `seen`, `pages`, `known` (the code's `cache`) and `proposals` are the locals of
`_crawl_with`; `disk` and `written` are its two files. A crawl reads `disk` at its
start and replaces it at its end, then writes the proposals. A request with its
redirects is one answer, `web[u]`.

`SourceCrawler`: a site is its links with whether their text looks legal, its HTML
pages, its robots policy and its sitemap. `LoadRobots`, `TrySitemap` and
`VisitPage` are one request each, to which there may be no answer; `EndSiteCrawl`
makes the entries. `upcoming`, `visited`, `fetched` and `found` are the locals
`queue`, `seen`, `pages` and `hits` of the walk. `unanswered` is history: some
request of this crawl had no answer.

### Retrieval and Chunker: state and actions

`points` is Qdrant, `childText` and `docs` the maps of the service. Indexing is
`Index` (texts noted), `Upsert` (a batch of the points a step) or `IndexFails`,
`Register`; a query is `Search`,
`Filter`, `Build`; `step[t]` is the one thread `t` is at. Scores are arbitrary: any
ranking may come back. The walk over `_docs` is one step. `Chunker` takes one turn of the loop a step (`Cut`).

### Extraction, StructureGraph and Regime: state and actions

`Extraction` takes a paper as a list of blocks with kind, number, text and page.
`outline` is what the loop over them has come to - elements, offset, chapter and
section in force - and `ReadBlock` one turn of it, which differs for PDF, HTML and
scans only in how ids and offsets are made; a scan is transcribed page by page
with `tries` requests; a Docling layout is merged by likeness of texts.

A document of `StructureGraph` is a sequence of texts, each reduced to the marks
the builder looks for (`Text`). `Id` is the element id: a section's is its number,
so two sections of one number are one element, as in the store. In `Regime`, `doc`
is what was extracted last, `rows` and `stored` the element and edge rows, which
`SaveElements` only adds to. `Walk` begins `assemble_regime`, once for the
classifier over the store (`WalkStore`, then `Hint` for each id the model names)
and once for the node over the state (`WalkState`); `Look` is one edge,
`NextSource` and `NextLevel` the two loops. `SELECT` without `ORDER BY` gives rows
in any order, so over the store `Look` takes any edge of the element at hand; over
the state it takes the first. `Return` drops the locals.

### Classification, Coverage, Scoring, Recommendations: state and actions

`Classification` goes through `offered`, the hits of all pillars, with `pos`; each step draws a sample, which
may be `NoAnswer`, and with the last of them votes (`Modal`), makes spans and saves
the claim, or counts the clause as `missing` or an error. A save whose spans have
two equal ids fails the run.

`Coverage` and `Scoring` hold what is known so far, and each action adds one thing:
a document read, a hit, a verified claim (`Coverage`); a word of the claim's text, an
example of the indicator (`AddWord`, `AddShot`). What the code computes from it is an
operator (`GoldRecall`, `CoverageRow`, `Defensible`; `Scores`, `FewShotBand`, `PickBand`),
so that a property may compare the conclusions before and after a step. A gold item
is recalled by an element id that has the item's document id or its text in it. A
manifest that cannot be parsed fails the run (`FailedRow`).

A text of `Scoring` is the set of its words. Everything the policy looks at is computed
from it: points for the words of a band's description, keywords and cues that occur
in one of their spellings, and the Jaccard overlap with the words of each example,
which every word changes, those of keywords and cues too.

`Recommendations` has the rows that all runs write: `claimRows`, `coverageRows` and
`bandRows`. `BeginScoring` brings a run with the claims it has saved to `coverage_node`,
`SaveCoverage` and `SaveRecommendation` are one row each, `StopScoring` an exception or the
end of the process between them. `Shown` is what `GET /v1/claims/{id}` answers: the
stored recommendation, or else the one `Computed` from the claim's row and its
indicator's stored coverage row, whichever run wrote these last. `alone` and
`everCounted` are history.

### Submission: state and actions

`BeginSubmission` hands `write_submission` a final state, `BuildRecords` makes all
rows or fails on the first that lacks a required field, `WriteCsv` and `WriteJson` open a file
(which truncates it) and write it. A claim without spans has its clause id in place of
a document id and is quoted whole. `StopSubmission` may come at any step. A text is the set of
its words' places, so `Snippet` says which part of the clause is quoted.

### Evaluation: state and actions

`goldItems` and `predicted` grow in the order of their files and `reviews` as people
file them; `HarnessMatching` and `ServiceMatching` are the two matchings, the rest
counts them.

## 3. Runs

| Run | Instance and bounds | What it shows |
|---|---|---|
| `solo` | 1 thread, 1 run id, 2 claims, review in every run, 2 posts, 2 resumes, 1 crash | `StoreMatchesState`, `UnverifiableWithheld`, `CompletedMeansCovered`, `PauseKept` and the types: with one invocation at a time, state, store and answers agree, and while the process lives no question is lost |
| `overlap` | 2 threads, 2 run ids, 1 claim, with and without review, 2 posts, 2 resumes, 1 crash | `StoreInv` (the inductive invariant) with its parts `VerifiedIsWarranted`, `Layer2NeedsGates`, `ReviewBeforeCoverage`; `PromotionNeedsFlag`; the refinement `LifecycleSpec` |
| `overlap_live` | 2 threads on one run id, 2 posts, 1 resume | `AlwaysAnswered` under weak fairness |
| `claim_path` | 2 elements of a document, texts of at most 2 words, 2 samples, a panel of 2 lenses, both advisory checks, the KG gate, 1 re-extraction | `RejectedNeedsCause`, `SilenceNeverVerifies`, `DemoteOnly`, `UntouchedIsExported` |
| `sources` | ingest: 2 ingestors, 2 starts, 2 contents, a file and a URL, 2 documents, 2 attempts per request, 1 change of a source, 1 crash; crawl: 5 URLs, 18 webs, depth 2, 4 pages, 2 crawls, 1 change | `TornNeedsRace`, `FinishedRunIsStored`, `LocalSourcesAreRead`; `QuietCrawlFindsAll`, `ProposesOnlyChanges`, `KnownIsProposed` |
| `stores` | index: 2 threads, 2 documents of two jurisdictions, 3 elements, 4 chunks, 3 indexings, 1 query, 1 restart; rows: 2 verifiers, 4 gates, 2 reports each stored up to twice | `RegisteredIsSearchable`, `OwnJurisdictionOnly`, `SmallStoreIsComplete`; `NeverReadsOlder`, `ReadBackIsNewest` |
| `stages` | one stage per behaviour, bounds below | `ListedOnce`, `RegimeIsBall`, `CutsCoverWords`, `CrawlIsExact`, `OutlineIsSound`, `ClaimsAreWarranted`, `AbsenceIsEarned`, `KnowledgeNeverHurts`, `BandFollowsFindings`, `RoutesAgree`, `HarnessIsExact`, `EvaluatorIsSound`, `SubmissionIsWhole` |
| `evidence`, `wrong_citation`, `shadowed_exception`, `torn_cache`, `lost_question` | the smallest instances that show it | a documented property that the code does not have (section 6) |

`MCStages` extends the modules of all stages, whose variables are their own, as they
are in the proofs. No two stages run at once: a behaviour begins in one of them with
any of its inputs, stays in it, and leaves every other at one quiet initial state.
`MCStores` does the same for two stores that never meet, and `MCSources` for the
ingestions and the discovery crawls, which only share the registry a person edits.

| Stage | Bounds |
|---|---|
| `regime` | 5 texts of up to 5 elements (a definition with a use and an exception, a proviso, two sections of one number, none), depth 2, 1 further extraction |
| `cuts` | every text of up to 10 letters and blanks, targets 1, 3, 4 and 6, overlaps 0-3 |
| `crawl` | 72 sites of 6 URLs and an empty one, one of another host, 3 pages; any request may go without an answer |
| `reading` | 24 papers of 3 pages (two chapters, a section number used twice, blank blocks, a page of one text), 3 layouts and none, 3 requests a page |
| `classify` | 2 hit lists of two pillars with a shared clause, a clause that is not stored and two of one length; 3 samples of 4 answers or none |
| `coverage` | 4 documents of 3 kinds with 4 elements, one id the prefix of another, a gold text that is part of an element id; 4 gold sets, 4 manifests (none, malformed, empty, three kinds), 2 claims, 2 authorities |
| `score` | every text of 8 words; a keyword of one word and one of two, 1 cue, up to 2 of 4 examples that share words with each other, with the cue and with a keyword |
| `recommend` | 3 claims; 2 pillars that share an indicator and score it differently; 4 findings (other texts, another pillar, a claim not counted, a claim not verified); 2 invocations, 3 runs |
| `eval` | 2 gold items of 4, 3 predictions of 5, 2 reviews |
| `submit` | 90 final states (rejected, flagged and undecided claims; spans of the clause, of another element, of a missing one, none; laws not in the registry or without URL), 2 attempts |

Why the bounds are enough. The hazards are about two actors and one object: two
invocations of one run, or of two runs that meet the same claim; two reports
whose rows interleave; an indexing and a query; two ingestions of the same bytes.
Two threads, two runs and one claim have all of these; loops matter only where one
claim's step falls between another's, which `solo` covers with two claims. A post,
a second post of the same id, a resume, a second resume that races the first or
follows one that failed half way, and a crash are all within the bounds; a third would repeat a state the first two can
already reach, since a `Post` forgets everything of the thread but the two channels
named above. Two documents of two jurisdictions with one extra extraction give
the retrieval store live points, orphans and foreign ones at once. The eighteen
webs are every choice of links among five URLs that matter for depth: a page first
reached by the long way, a page beyond the limit, a malformed link, a page that
robots.txt disallows, a budget of one page less than the web has. The texts of
`regime` have every kind of edge, parallel edges of different types between two
clauses, clauses at distance three and a re-extraction that adds edges between old
elements; a walk has two levels in production, as here. Two ingestions are a
race, or a run that comes after whatever an earlier one left. Greedy matchings go
wrong with two items and two predictions; the third is the spare one.

Symmetry is used over run ids and threads (`MCPipeline`), ingestors (`MCSources`),
verifiers and retrieval threads (`MCStores`), and in no run that checks liveness.
Deadlock is not checked, because the bounds on posts, resumes, crawls and
extractions do let every instance stop.

Fairness. `FairSpec` assumes weak fairness of each thread's own steps,
`Execute(w)`: a request thread is a running Python thread which no code
suspends, and it holds no lock while it waits. Requests, crashes and reviews are
not fair. `AlwaysAnswered` says that the graph cannot wait for another invocation
or a reviewer while it holds a thread; there is no fairness on a human's
decision, so nothing is claimed about paused runs ending.

Properties of a deployment without overlap (`StoreMatchesState`,
`UnverifiableWithheld`, `CompletedMeansCovered`, `PauseKept`) are checked on such an
instance, and proved of every behaviour in which invocations take turns (section
4); that the second one needs it is in section 6.

## 4. Proofs

`PipelineProofs` proves for any number of threads, runs, claims and indicators,
any mix of runs with and without review and any bounds:

| Theorem | Statement |
|---|---|
| `TypeCorrect` | `Spec => []TypeOK` |
| `StoreInvariant` | `Spec => []StoreInv` |
| `Warranted`, `Layer2Gated`, `ReviewFirst` | the parts of `StoreInv` a reader wants |
| `PromotionGuarded` | `Spec => PromotionNeedsFlag`, an action property |
| `LifecycleImplemented` | `Spec => Lifecycle!Spec`, the refinement |

The argument. "A verified row has a warrant" is not inductive: the row is written
from `inv[w].reports`, which `Resume` copied from a checkpoint, which an earlier
invocation wrote from its own reports. So the invariant must say of every copy
what it still guarantees when it is used. `Backed(state)` does so for invocations
and checkpoints alike: a verified report in it is in `attested`, and a claim in it
has a row. `LoopWork` says the same of the rest of a loop, which was selected
when the loop began: what `apply` will promote was flagged in this invocation's
own reports and accepted in its own payload, that what was flagged is in the question
it answers, and that what `layer2` will recommend was verified by the gates. That the
question had all claims in doubt is `QuestionComplete`, of every checkpoint that waits
for an answer: `ReviewFirst` says that coverage is computed over a claim in doubt only
after a reviewer was asked about it and did not accept it. That the reviewer has
decided on it is not so (section 6). With these, each action preserves `StoreInv`
(one lemma per action, one step per conjunct it can disturb), given `TypeOK`.
`PromotionNeedsFlag` and the refinement follow step by step from `StoreInv`.
The proofs assume only the named assumptions of the module: constants have their
types, and `NoRun` is not a run.

Of deployments in which invocations take turns it proves

| Theorem | Statement |
|---|---|
| `TurnInvariant` | `Spec /\ []InTurn => []TurnInv` |
| `StoreAgrees` | `Spec /\ []InTurn => []StoreMatchesState` |
| `Withheld` | `Spec /\ []InTurn => []UnverifiableWithheld` |
| `CompletedCovered` | `Spec /\ []InTurn => CompletedMeansCovered`, an action property |
| `QuestionKept` | `Spec /\ []InTurn => PauseKept`: until a restart, only the end of a resumed review or a new run of the same id closes a question |
| `SoloTakesTurns` | `Spec => []InTurn` with one thread, one run id and review in every run |

`InTurn` is a hypothesis on behaviours and not a restriction of the model: any
number of threads and runs, crashes and restarts are allowed, but no request is
accepted while another one is executed, nor for another run while a question is
open. `SoloTakesTurns` says that the deployment of the run `solo` is one of these; TLC
has checked `TurnInv` also of two threads and two runs that take turns.
`TurnInv` says how far state and store agree at each node: before the review, the
row is the last report, or pending where there is none yet; from the acceptances
on, the row is the acceptance or the report; a paused checkpoint is `Resumable`, that
is, in step but for acceptances a failed resume has stored; no report passes what
its gates rejected; and whoever answers "completed" without an open question has
evaluated every indicator.

`RegimeProofs` proves for any documents, depth and number of extractions

| Theorem | Statement |
|---|---|
| `RegimeTypeOK` | `Spec => []TypeOK` |
| `RegimeListedOnce` | `Spec => []ListedOnce` |
| `RegimeIsTheBall` | `Spec => []RegimeIsBall` |

`RegimeInv` adds to the first two that a frontier is only walked below the depth
bound and that the clause itself is a member while its regime is being put
together; one lemma, `ClauseJoins`, serves both ways a clause can join. The third is
the correctness of a breadth-first search. `GraphInv` says of the edges a walk is
given that both their ends exist, whatever the extractions they come from.
`WalkInv` and `AtLevel` say that at depth d the walk has all that lies within d edges
and nothing that does not lie within d + 1, that what is new beyond d waits for the
next level, and that an edge which leaves the ball of d leads to a member or is
still to be looked at. `BallClosed` is the argument why a walk that finds no new
clause may stop early.

`VerificationProofs` proves for any elements, texts, spans, lenses and samples, and
whatever is extracted again while the claim is at work,

| Theorem | Statement |
|---|---|
| `VerificationInvariant` | `Spec => []VerificationInv` |
| `RejectionHasCause` | `Spec => []RejectedNeedsCause` |
| `ExportIsFaithful` | `Spec => []UntouchedIsExported` |
| `SilenceIsNoConsent` | `Spec => []SilenceNeverVerifies` |
| `StatusOnlyDemoted` | `Spec => DemoteOnly`, an action property |

That a rejection has a cause is not inductive: when the verdict falls, the reads it
rests on are past. `SpanInv` therefore says of every element nobody has overwritten
that it is what the prompt showed and that spans of it cover all of it, and `GateInv`
that a failure which is noted, but not yet a gate result, has its cause already,
and that a first read of such an element was of that text. `StageInv` says which
gates have run at which stage and where the loops over spans are, `SilenceInv` that a
silent backend of the entailment gate has failed it and a silent lens counts as a
refutation, `CitedInv` how far the citation has come.

`DiscoveryProofs` proves for any web, seeds, hosts and limits, however the web changes
and wherever a crawl fails or dies,

| Theorem | Statement |
|---|---|
| `DiscoveryInvariant` | `DiscoverySpec => []DiscoveryInv` |
| `CrawlIsIdempotent` | `DiscoverySpec => []ProposesOnlyChanges` |
| `NothingIsForgotten` | `DiscoverySpec => []KnownIsProposed` |
| `QuietCrawlIsComplete` | `DiscoverySpec => []QuietCrawlFindsAll` |

The last one compares the crawl with the set of pages at each depth (`Reach`). A
page that is first reached the long way would be lost if the crawl were not
level by level, so `LevelInv` says of a quiet crawl that its queue holds at most two
levels in order, that all that can be reached at a depth is visited or waits at
that depth or a smaller one, and that what is visited can be reached at the depth
of everything that waits. `ProposalInv` relates cache, disk and proposals while a
crawl is at work, `NewsInv` says what a quiet crawl has proposed so far.

`StoresProofs` proves for any documents, chunks, threads and limits, with any
number of overlapping, failing and repeated indexings and of restarts,

| Theorem | Statement |
|---|---|
| `RetrievalInvariant` | `IndexSpec => []RetrievalInv` |
| `RegisteredAreFound` | `IndexSpec => []RegisteredIsSearchable` |
| `LoneQueryStaysHome` | `IndexSpec => []OwnJurisdictionOnly` |
| `SmallStoreMissesNothing` | `IndexSpec => SmallStoreIsComplete`, an action property |

from the assumptions that the maps have their types, that there are finitely many
chunks, and that top_k <= top_k_initial. `IndexingInv` says what a thread that
indexes has written already at each of its steps. `QueryInv` says of a query that
nothing has overlapped so far that nobody else is at work, that its ranking is one
of the points as they are, and its candidates what the maps as they are let pass;
the third theorem then counts lists without repetitions (`KeptCount`,
`DistinctCount`).

`FilterProofs` holds what these proofs share. A recursive function over `0..n`
satisfies its own equation (`RecursionDefines`), and a fact of 0 that passes from n
to n + 1 holds up to any bound (`Induction`): both by a least counterexample, as
the induction theorems of the library cannot be instantiated here. With them it
proves what `Kept`, the comprehension `[x for x in s if x in S]`, returns
(`KeptProperties`, `KeptDistinct`, `KeptWhole`), that it keeps the order
(`KeptOrdered`) and what `list(dict.fromkeys(s))` returns, `WithoutRepeats`: each element
once, where it came first (`WithoutRepeatsProperties`, `FirstStaysFirst`).
`DiscoveryProofs` and `RegimeProofs` use the induction for `Reach` and `Ball`, and for the loop
over blocks; `ReportProofs` for the two matchings.

`CorpusProofs` proves for any set of ingestions, sources, contents and attempts

| Theorem | Statement |
|---|---|
| `CorpusTypeCorrect` | `Spec => []TypeOK` |
| `TornOnlyByRace` | `Spec => []TornNeedsRace` |
| `RunIsStored` | `Spec => []FinishedRunIsStored` |
| `LocalsAreRead` | `Spec => []LocalSourcesAreRead` |

from the named assumptions of `Corpus`. That an entry is not torn says nothing of
the temporary file the next rename will make into it, so `CacheInv` adds, for a
hash that was never raced, that at most one ingestion is writing it, that this one
writes to the temporary file and not to an entry somebody renamed under it, and
that the file is whole when it is renamed. `RowsInv` says of a run that is `alone`
that no other ingestion is busy, that each document it recorded has the row of the
bytes it read, and that the documents before its position have their elements;
`ReadInv` says that the local sources before its position were read, and
`SourceInv` that a position is one of the registry.

`StoresProofs` proves that the mirror of `derive_status` in the repository, which
its comment asks to be kept in sync, agrees with the original for every vector
of results, complete or not (`MirrorAgrees`); that the verifier's own decision agrees
with both (`VerifyAgrees`); and that verified means that all gates passed
(`VerifiedMeansAllPassed`). For any number of verifiers and of reports, and any order
in which `verify` runs the gates, it proves from the named assumptions of `GateStore`

| Theorem | Statement |
|---|---|
| `GateStoreTypeCorrect` | `Spec => []TypeOK` |
| `ReadsNoOlder` | `Spec => NeverReadsOlder`, an action property |
| `NewestIsReadBack` | `Spec => []ReadBackIsNewest` |

`Stamped` says that results of
one gate with one start time are one result, stored or not, and that none is of the
future: what makes "the latest row" unique, although a report may be stored
twice. `Newest` says that the rows of a gate have a latest one, which the `CHOOSE`
of `Latest` then picks. `TurnInv` says what holds while verifiers take turns: one is at
work, what it has run is newer than all rows, and the last report stored is the
newest and gave the claim its status.

### The stages

Each stage has a specification of its own (`ChunkerSpec`, `SiteCrawlerSpec`,
`ExtractionSpec`, `ClassificationSpec`, `CoverageSpec`, `ScoringSpec`,
`RecommendationsSpec`, `SubmissionSpec`, `EvaluationSpec`), of which the theorems speak for any inputs that satisfy the
module's named assumptions; the run `stages` checks the same properties on its
instances. The type invariant of each is proved beside them.

| Theorem | Module | Statement |
|---|---|---|
| `ChunksCover` | `StoresProofs` | `ChunkerSpec => []CutsCoverWords` |
| `SiteCrawlExact` | `DiscoveryProofs` | `SiteCrawlerSpec => []CrawlIsExact` |
| `OutlinesSound` | `RegimeProofs` | `ExtractionSpec => []OutlineIsSound` |
| `Warrants` | `ReportProofs` | `ClassificationSpec => []ClaimsAreWarranted` |
| `AbsenceEarned` | `ReportProofs` | `CoverageSpec => []AbsenceIsEarned` |
| `KnowledgeHelps` | `ReportProofs` | `CoverageSpec => KnowledgeNeverHurts`, an action property |
| `BandFollows` | `ReportProofs` | `ScoringSpec => BandFollowsFindings`, an action property |
| `RoutesAlways` | `ReportProofs` | `RecommendationsSpec => []RoutesAgree` |
| `SubmissionWhole` | `ReportProofs` | `SubmissionSpec => []SubmissionIsWhole` |
| `HarnessExact`, `EvaluatorSound` | `ReportProofs` | `EvaluationSpec => []HarnessIsExact`, `[]EvaluatorIsSound` |

Chunks. That the words are covered at the end is not inductive, nor that chunks
overlap as they should: both depend on where the loop resumes. `ChunkerInv` says
that words before `from` are covered already and that each chunk is a run of
words. Its part `Resumes` says that the next chunk starts at or before the word
after the last chunk, later than that chunk started, within the overlap of its
end, and with room for the words they share: so the next chunk ends no
earlier, and the loop ends only with the last word covered.

The crawl of a site. `WalkInv` says that what is queued or visited can be reached
from the seed over allowed links, that what was found was due, and that as long as
every request had an answer each visited page has led on to all it leads to and
yielded all that is due of it. When the queue is empty, what was visited is closed
under links, and `Reachable` is the least such set (`ReachableIs`).

Extraction. `Sound(w, p)` says of an outline that has come to page p that its
elements are in order, have ids that will not be given again unless they are made
of a number, and are under a heading of their own chapter, and that the headings in
force are such headings as well. Each adapter adds elements in its own way; one
lemma, `SoundAppend`, says what an added element must be like, and the turns for
PDF, HTML, scans and pages without text are instances of it. For a scan,
`ExtractionInv` adds that the pages of the outline are those before the current one.

Classification. `ClassificationInv` says that each clause looked at has exactly one
of three outcomes - a claim, an error, not stored - and that the clause in hand was
not looked at before, so that the pillar it is classified for is the first that
retrieved it. `ModalWins` says of the vote that the winner was drawn and no label
has more votes.

Coverage. A row is a function of what the run has found (`RowIs`); `MoreIsNoWeaker`
compares the rows of two states. Fractions are compared by cross-multiplication,
their terms counted as cardinalities (`RecallCounts`, `ExpectedCounts`).

Scoring. What moves is not only the points: a further word of the text changes the
overlap with every example, so that another example may decide, or none.
`BandFollowsFindings` therefore says what a word may do while no example decides, when
an example that decides goes on deciding, and what a further example may do. `PickIs`
says which band wins for any three totals; `ScoresAre` gives the totals and
`FewShotIs` the example that decides, the first of the closest ones, which exists
because overlaps are ordered fractions (`FractionOrder`, `SomeDecides`); `BandIs` puts
them together. Then `WordFinds` and `WordOverlaps` compare the counts before and after
a word, and `WordMovesBand`, `WordDecidesBand` and `ShotMovesBand` are the cases of the
theorem.

Recommendations. `RecommendationsInv` has a part for each half of `RoutesAgree`.
`CountedFirst` holds however runs overlap or stop: a band and a coverage row only have
claims that were counted, since a run writes its coverage rows before its bands.
`RowsAreIts` says of a run that nothing overlaps how far the rows of its claims, cells
and recommendations are as it has saved them, and `RunsOwn` what it stores where no
other pillar of the run has the indicator.

Submission. `SubmissionInv` says what an attempt has done by each phase: files are
opened only when all rows have been built without a failure, and are those of
the last attempt until then.

Evaluation. `Serves` characterizes a greedy matching without its recursion: each
item is given what the choice picks of what the items before it left.
`GreedyServes` is the induction; from it follow that no prediction is given twice
(`ServedApart`), that of each key the smaller number is matched (`PairsOfKey`), and
that the counts of a row are those of the units (`RowCountsUnits`).

Only model-checked: `AlwaysAnswered`, since liveness under fairness and ENABLED are out
of the prover's reach. Every other property of a passing run is the statement of
a theorem. The properties of the five violation runs do not hold.

## 5. Abstractions

- Ingest, extract, index and retrieve are one step of `Pipeline`, with the clauses
  found, the errors and the degraded flag as its outcome.
- The check for a pending interrupt in `resume_pipeline` and the invocation that
  follows are one step; two resumes of one run overlap from there on, both from
  the same checkpoint.
- A verdict and its storing are one step of `Pipeline` (see section 2).
- Races on primary keys (two sessions that both insert) end a request as any
  exception does (`Fail`) and are not told apart.
- Model answers, scores and rankings are arbitrary. The real bundle attaches no
  panel and no KG grounder; `Verification` covers them because the verifier does,
  and its instance switches them on. The real classifier sets no model
  confidence, so the confidence screen never demotes because of it; screening
  is modelled with the gold-recall rule, which the code has.
- Fakes, tracing and the sequential fallback without LangGraph are test support
  and are left out.
- One crawler process at a time; the names of proposal files are not modelled.
- The walk over `_docs` is one step, though a thread that inserts meanwhile makes
  Python raise in the middle of it.
- In `Corpus`, one write of a file is a step between opening and renaming it, and
  what a crash leaves of an unfinished write is "torn", whatever its length.
- Chapters, articles and lettered items are left out of `StructureGraph`; the
  numbering and the links of sections and numbered items stand for theirs, and
  ids are those of the text extractor. `Extraction` has chapters and sections.
- The order of rows is chosen anew for each element a walk scans. Only edges
  between the same two clauses compete, and these meet at one element only, so
  no role depends on it.
- Points of `Scoring` are quarters. A text is a set of words there, so that the places
  of words are lost: the phrase "personal data" occurs where both words do, and a
  keyword inside a longer word is a spelling of its own (`Spellings`).
- In `Recommendations` a run saves its claims in one step and has each once; what a
  text scores is a table. The API's read is one step.
- The likeness of two texts in `Extraction` is a
  table; in `Submission` it is computed from the words.
- In `Evaluation`, score band, authority tier and quotation are one field.
- Rows of `Submission` have the fields that can be missing or wrong; the rest, and
  the warning about an article without a paragraph, are wording.

Not modelled: prompt text and language choice, HTTP and model clients,
tokenizers and embedders, what PDF, HTML and OCR libraries make of bytes, the
parsing of robots.txt, YAML schemas, profiles, audit queries and the read-only
routes, cost and wording metrics, command lines, front ends, data files. None of
them keeps state that a later step reads. `cross_corpus.py`, `DiscoveryTagger` and
`rie_domain/layer2.py` (a copy of the scoring policy) are not called by the program.

## 6. Where code and documents disagree

Each of the five violation runs checks one property that a document or comment
states, and TLC finds a behaviour of the code that violates it; the findings in
`PROJECT.json` quote the lines.

- `evidence`: coverage filters claims by the status the object had when it was
  classified; `verify_node` stores its verdict without updating it, so a single
  run never finds evidence for an indicator whose claim it has just verified.
- `wrong_citation`: texts are overwritten in place, and a citation is cut from the
  text of that moment.
- `shadowed_exception`: a clause "Notwithstanding section 1 ..." has a
  cross-reference edge to section 1 before its notwithstanding edge, and the walk
  keeps the first: section 1 has no exception, and scoring counts none.
- `torn_cache`: two ingestions of the same bytes use one temporary file, so one may
  rename what the other has just truncated; a crash then leaves a torn entry, and
  no hash is compared when it is read. `TornNeedsRace` is what does hold.
- `lost_question`: runs with review keep their checkpoints in the process. The
  Postgres saver is never attached: `graph.py:124-125` calls `setup()` on what
  `PostgresSaver.from_conn_string` returns, a context manager, the exception is caught
  at line 130, and `runner.py:270-275` falls back on the memory saver. So a restart
  loses every open question, against `systemArchitecture.md:120` ("a crash resumes
  without re-work"), `README.md:56` and `state.py:4` (Postgres in production).
  `PauseKept` is what does hold.

Met while modelling and visible in the models, without a run of their own.

Pipeline and verification:

- `review_node.py:72`: a resume accepts a claim by the flagged report of its
  checkpoint and overwrites what another run has rejected since, against "every
  unverifiable claim is withheld" (`systemArchitecture.md:78`). `solo` with two
  threads and run ids shows it as a violation of `UnverifiableWithheld`.
- `repository.py:284` and `:347`: status is set in the order of storing, gates are
  read back in the order of running, so verifiers that overlap can leave a claim
  verified over a rejecting report; `StatusFollowsGates` is what holds without
  overlap.
- `repository.py:347` derives the verdict read back from gate rows, so a claim
  flagged by a check after the gates is not in the review queue, which
  `review_queue.py:3` describes as every claim in doubt.
- `runner.py:323` may answer a resume with "running", which the response schema
  of that route does not have (reply `schema_error` of `Answer`).
- `nodes.py:336` leaves the recommendations of an earlier run on a reused id in
  place where no claim is verified (`EndLayer2`).
- `reviews.py:33` stores a record and settles nothing (`SubmitReview`), while
  `review_node.py:10` presents it as the way a decision is recorded.
- `schemas.py:83`: the decisions of a resume need not name every claim that was asked
  about, and `review_node` takes a missing one for "": the claim stays flagged and the
  run goes on to coverage, so a reviewer need not have decided on every claim in doubt.
- `review_node.py:72`: a resume stores each acceptance before its checkpoint is
  replaced. If it fails half way, a second resume that leaves out or rejects such a
  claim ends with a verified row for a claim its state has flagged, while line 10
  says that rejected claims stay flagged. The proof of `TurnInvariant` showed it: that
  rows equal the state's verdict is not inductive, and TLC refutes it with a second
  resume; `StoreMatchesState` states the difference there may be.
- `verify/service.py:248`: advisory checks demote a verdict, while
  `contracts/models.py:301` speaks of the gates alone.
- `verify/service.py:315`: the report is rebuilt after the KG gate and loses the
  panel's notes that `adversarial.py:31` says it carries.

Submission:

- `conformance.py:103` withholds rejected claims only: a flagged or undecided claim is
  a row, with its status in the notes, while the comment in `main.py:74` says "batch
  run → no interrupt; FLAGGED still withheld".
- `conformance.py:58`: the snippet is the clause cut by the offsets of the claim's
  first span, which may be of another element; "byte-true" (line 4) it is of the
  clause, not of the span.
- One row that lacks a number, a URL or a decimal indicator raises after the graph
  has run, and no row is written; `resume_pipeline` writes no submission at all. A claim
  without spans is such a row: its "document" is its clause id (`conformance.py:67`), which
  no registry has.

Ingestion and crawlers:

- `ingest/service.py:133`: bytes cached under a pin, and bytes fetched for a pinned
  entry, are never compared with the pin.
- `nodes.py:125` catches `IngestError` only; a registry that does not load raises
  `ConfigError`, and a missing local file or a transport error after the last
  attempt something else again: the run fails instead of being degraded.
- `nodes.py:132`: the document row is committed before its elements.
- `crawler.py:118`: two URLs that differ in their query get one source id.
- `crawler.py:224`: an offline crawl applies neither robots policy nor host check, and
  a sitemap that is not empty replaces the crawl.
- `discovery.py:370`: redirects are followed past the robots check of line 302.

Extraction and regimes:

- `regime.py:67`: edges are walked both ways whatever their type, so a clause that
  mentions a defined term is listed as a definition in the regime of the
  definition, and a governed clause as an exception in that of its proviso.
- `repository.py:148`: edges are never deleted, and the classifier's own regime is
  walked over all of them; where the invocation extracted the document, its
  regime replaces the classifier's together with the model's hints.
- `text_extractor.py:129` and the other adapters: two headings of one number get one
  element id, and the second text overwrites the first.
- Elements merged with a Docling layout may have parents that Docling named and
  nothing stores; a hint with the letters "ocr" in it, as in "democracy", sends a PDF
  to the adapter for scans; a page whose third request fails drops the document.

Classification, coverage, retrieval:

- `classify/service.py:279`: span ids are built from offsets within an element and
  collide between elements of a document; two such spans in one claim violate the
  key of `persistence/models.py:91`, outside the `try` of `classify_node`, and the run
  fails (progress "failed" of `Classification`).
- `classify/service.py:166`: one valid sample out of three is a majority.
- `nodes.py:198`: a clause that two pillars retrieve is classified for the first one
  only, even where that fails.
- `claims.py:124-138` answers with the stored recommendation and computes one only where
  there is none, while `layer2_service.py:8-10` says that the route recomputes it and
  that there is no persistence table. What is stored outlives the coverage row, the
  verdict and the text it was made from; what is computed (`Computed`) uses the rows of
  whichever run wrote last, and any claim's, verified by the gates or not.
- `layer2_node` scores a claim once per pillar of the run that has its indicator and
  keeps the last; the route takes the rubric of the claim's own pillar. Where pillars
  share an indicator the two differ, which `Unshared` excepts from `RoutesAgree`.
- `chunker.py:52-53` promises that a chunk starts at the last token boundary at or before
  `previous_end - overlap`; lines 100-111 take the first word that starts at or after it.
  The two differ unless a word starts at that very offset: the overlap is then
  shorter than the docstring says, never longer. `CutsCoverWords` states the code's bound and
  contradicts the docstring's.
- `gold_recall.py:103`: an element id that has a gold item's document id or text in it
  recalls the item, whichever document it is of.
- `retrieval/service.py:289`: a query overlapping an indexing may return another
  jurisdiction's hit; line 273's over-fetch is shared by all jurisdictions.

Evaluation:

- `gold_harness.py:187`: the exact and the lenient pass of the matching use the same
  key, so the second never finds anything; a match by the wrong indicator, which
  lines 298-302 allow for, cannot happen.
- `gold_harness.py:348`: a false zero is counted by key, so a matched item counts when
  another of its key is missed.
- `eval/service.py:394`: the docstring of `_match` asks for a claim that cites the
  item's document; the code falls back on any claim of the jurisdiction.

## 7. Plan

The claim pipeline with its verdicts came first, then what it is built on, then
the stages around it; all parts of the inventory that keep state have a module, and
the safety and action properties of every module are proved. What is left are
the hazards in `PROJECT.json` that no property covers. Three are behaviours the models
have and the code does not rule out (span ids that collide, a run id posted again
over an open question, a claim saved again that is pending again): a property
needs a decision of the code's owners first. Two are inside what is one step here:
a redirect of a request in `Discovery`, and two sessions that both insert in
`Pipeline`; a next version would take these apart.
