------------------------------ MODULE Coverage ------------------------------
(***************************************************************************)
(* What may be said of one indicator in one jurisdiction when no clause is *)
(* evidence for it: the gold-set recall of the run, the three states, the  *)
(* downgrade for a corpus that lacks expected kinds of sources, and the    *)
(* verdict whether the absence could be defended as a zero.                *)
(*                                                                         *)
(* The state is what a run has found out so far; Row and Defensible are    *)
(* what coverage_node and evaluate_defensible conclude from it.  Rates are *)
(* pairs <<part, whole>>, None where not measured.                         *)
(***************************************************************************)
EXTENDS Integers, FiniteSetsExt, SequencesExt

CONSTANTS
  Claims,
  Relevant,    (* claims of this indicator and this jurisdiction           *)
  CorpusDocs,  (* documents                                                *)
  TypeOf,      (* document_type                                            *)
  HitIds,      (* element ids                                              *)
  NamedIn,     (* NamedIn[d]: element ids that contain the id of d         *)
  QuotedIn,    (* QuotedIn[x]: element ids that contain the span text x    *)
  GoldSets,    (* possible gold sets: [doc, text] of the indicator's items *)
  Manifests,   (* possible expected_source_types, Unknown for no file      *)
  BadManifest, (* a file that load_manifest refuses                        *)
  Default,     (* DEFAULT_EXPECTED_SOURCE_TYPES                            *)
  Authorities, (* expected authoritative source types                      *)
  Unknown      (* not measured, not given                                  *)

ASSUME CoverageAssumption ==
  /\ Relevant \subseteq Claims /\ DOMAIN TypeOf = CorpusDocs
  /\ GoldSets \subseteq Seq([doc : CorpusDocs, text : DOMAIN QuotedIn])

(* What is counted is finite, and no rate is the unknown one.              *)
ASSUME CountAssumption ==
  /\ IsFiniteSet(Authorities) /\ IsFiniteSet(Default)
  /\ \A m \in Manifests \ {Unknown, BadManifest} : IsFiniteSet(m)
  /\ Unknown \notin Nat \X Nat

VARIABLES
  goldSet, manifest,
  enabled,    (* RIE_CORPUS_COMPLETENESS_ENABLED                           *)
  verified,   (* claims with a verified report and status                  *)
  read,       (* documents this run has ingested                           *)
  degraded,   (* ingest_degraded                                           *)
  hits,       (* element ids of the retrieval hits                         *)
  reached     (* authoritative source types reached                        *)

config       == <<goldSet, manifest, enabled>>
coverageVars == <<config, verified, read, degraded, hits, reached>>

CoverageTypeOK ==
  /\ goldSet \in GoldSets /\ manifest \in Manifests /\ enabled \in BOOLEAN
  /\ verified \subseteq Claims /\ read \subseteq CorpusDocs /\ hits \subseteq HitIds
  /\ degraded \in BOOLEAN /\ reached \subseteq Authorities

CoverageInit ==
  /\ goldSet \in GoldSets /\ manifest \in Manifests /\ enabled \in BOOLEAN
  /\ verified = {} /\ read = {} /\ degraded = FALSE /\ hits = {} /\ reached = {}

-----------------------------------------------------------------------------
(* _gold_hit_in_retrieved: an element id that contains the item's document *)
(* id or its text recalls it, whichever document it is of.                 *)
GoldHit(item) == hits \cap (NamedIn[item.doc] \cup QuotedIn[item.text]) # {}

(* Mutant: a degraded run measures like any other.                         *)
GoldRecallDegraded ==
  IF goldSet = <<>> \/ hits = {} THEN Unknown
  ELSE <<Cardinality({i \in DOMAIN goldSet : GoldHit(goldSet[i])}), Len(goldSet)>>

(* Mutant: items of documents this run has not read are left out.          *)
GoldRecallRead ==
  LET items == {i \in DOMAIN goldSet : goldSet[i].doc \in read}
  IN  IF degraded \/ items = {} \/ hits = {} THEN Unknown
      ELSE <<Cardinality({i \in items : GoldHit(goldSet[i])}), Cardinality(items)>>

(* lookup_gold_recall, of a run without a coverage adapter of its own      *)
(* measurements.                                                           *)
GoldRecall ==
  IF degraded \/ goldSet = <<>> \/ hits = {} THEN Unknown
  ELSE <<Cardinality({i \in DOMAIN goldSet : GoldHit(goldSet[i])}), Len(goldSet)>>

Qualifying == verified \cap Relevant

(* CoverageReasoner.evaluate, with `classify`.                             *)
Evaluate(recall) ==
  IF Qualifying # {} THEN [state |-> "evidence_found", recall |-> recall, claims |-> Qualifying]
  ELSE IF recall = Unknown
         THEN [state |-> "insufficient_coverage", recall |-> Unknown, claims |-> {}]
         ELSE [state |-> "no_evidence_in_searched_corpus", recall |-> recall, claims |-> {}]

(* expected_for: without a file, the default; not asked of a malformed one. *)
Expected == IF manifest \in {Unknown, BadManifest} THEN Default ELSE manifest

(* compute_completeness: a share of what is expected, all of it when       *)
(* nothing is.                                                             *)
Completeness ==
  LET covered == Expected \cap {TypeOf[d] : d \in read}
  IN  [ratio |-> IF Expected = {} THEN <<1, 1>> ELSE <<Cardinality(covered), Cardinality(Expected)>>,
       missing |-> Expected \ covered]

(* enrich_with_completeness: below one half, an absence is taken back.     *)
Enrich(row) ==
  IF row.state = "no_evidence_in_searched_corpus" /\ 2 * Completeness.ratio[1] < Completeness.ratio[2]
    THEN [row EXCEPT !.state = "insufficient_coverage", !.recall = Unknown] ELSE row

(* No row: load_manifest raises, and the run fails.                        *)
FailedRow == [state |-> "failed", recall |-> Unknown, claims |-> {}]

(* coverage_node                                                           *)
CoverageRow ==
  IF enabled THEN IF manifest = BadManifest THEN FailedRow ELSE Enrich(Evaluate(GoldRecall))
  ELSE Evaluate(GoldRecall)

(* AuthoritativeSourceCheck over counts, assess_reachability over types.   *)
Reachability ==
  IF Authorities = {} THEN <<1, 1>> ELSE <<Cardinality(reached), Cardinality(Authorities)>>

(* Mutant: either floor is enough.                                         *)
IsDefensibleZeroEither(row, reach) ==
  /\ row.state = "no_evidence_in_searched_corpus"
  /\ 5 * row.recall[1] >= 4 * row.recall[2] \/ 10 * reach[1] >= 9 * reach[2]

(* is_defensible_zero: recall of 0.8 and reachability of 0.9 at least.     *)
IsDefensibleZero(row, reach) ==
  /\ row.state = "no_evidence_in_searched_corpus"
  /\ 5 * row.recall[1] >= 4 * row.recall[2]
  /\ 10 * reach[1] >= 9 * reach[2]

(* evaluate_defensible works on the row before completeness is looked at.  *)
Defensible == IsDefensibleZero(Evaluate(GoldRecall), Reachability)

-----------------------------------------------------------------------------
Read(d) ==
  /\ d \notin read /\ ~degraded
  /\ read' = read \cup {d}
  /\ UNCHANGED <<config, verified, degraded, hits, reached>>

(* No source could be read.                                                *)
Degrade ==
  /\ read = {} /\ ~degraded
  /\ degraded' = TRUE
  /\ UNCHANGED <<config, verified, read, hits, reached>>

(* The index also has documents of earlier runs.                           *)
Retrieve(e) ==
  /\ hits' = hits \cup {e}
  /\ UNCHANGED <<config, verified, read, degraded, reached>>

ReachSource(a) ==
  /\ reached' = reached \cup {a}
  /\ UNCHANGED <<config, verified, read, degraded, hits>>

Verify(c) ==
  /\ verified' = verified \cup {c}
  /\ UNCHANGED <<config, read, degraded, hits, reached>>

(* A claim of an earlier run is rejected now.                              *)
Withdraw(c) ==
  /\ verified' = verified \ {c}
  /\ UNCHANGED <<config, read, degraded, hits, reached>>

CoverageNext ==
  \/ Degrade
  \/ \E d \in CorpusDocs : Read(d)
  \/ \E e \in HitIds : Retrieve(e)
  \/ \E a \in Authorities : ReachSource(a)
  \/ \E c \in Claims : Verify(c) \/ Withdraw(c)

CoverageSpec == CoverageInit /\ [][CoverageNext]_coverageVars

-----------------------------------------------------------------------------
Rank(row) ==
  CASE row.state \in {"failed", "insufficient_coverage"} -> 0
    [] row.state = "no_evidence_in_searched_corpus" -> 1
    [] row.state = "evidence_found" -> 2

(* The more a run reads, retrieves and verifies, the firmer its statement: *)
(* no further document, hit or claim turns evidence into absence or an     *)
(* absence into ignorance, and no measured recall falls (coverage_node).   *)
KnowledgeStep ==
  verified \subseteq verified' /\ degraded' = degraded =>
    /\ Rank(CoverageRow') >= Rank(CoverageRow)
    /\ CoverageRow.recall # Unknown /\ CoverageRow'.recall # Unknown =>
         CoverageRow'.recall[1] * CoverageRow.recall[2] >= CoverageRow.recall[1] * CoverageRow'.recall[2]

KnowledgeNeverHurts == [][KnowledgeStep]_coverageVars

(* An absence is stated, or called defensible, only where the run was not  *)
(* degraded and nothing qualified; it carries the recall over all the gold *)
(* items, each recalled by a hit that names its document or has its text;  *)
(* and a defensible one has missed a fifth of the items and a tenth of the *)
(* authorities at most (evaluate, lookup_gold_recall, is_defensible_zero). *)
AbsenceIsEarned ==
  LET missed == {i \in DOMAIN goldSet :
                   \A e \in hits : e \notin NamedIn[goldSet[i].doc] \cup QuotedIn[goldSet[i].text]}
  IN  /\ CoverageRow.state = "no_evidence_in_searched_corpus" =>
           /\ ~degraded /\ goldSet # <<>> /\ hits # {} /\ verified \cap Relevant = {}
           /\ CoverageRow.recall[1] + Cardinality(missed) = CoverageRow.recall[2]
           /\ enabled => manifest # BadManifest /\ 2 * Cardinality(Completeness.missing) <= Cardinality(Expected)
      /\ Defensible =>
           /\ ~degraded /\ verified \cap Relevant = {}
           /\ 5 * Cardinality(missed) <= Len(goldSet)
           /\ 10 * Cardinality(Authorities \ reached) <= Cardinality(Authorities)
=============================================================================
