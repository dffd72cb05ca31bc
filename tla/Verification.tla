---------------------------- MODULE Verification ----------------------------
(***************************************************************************)
(* The evidence of one claim, from the classifier's prompt to the exported *)
(* citation: the spans the classifier materialises, the four gates, the    *)
(* advisory checks and the knowledge-graph gate of VerificationService,    *)
(* the stored verdict and the citation built from the spans.               *)
(*                                                                         *)
(* None of these steps holds the element text: each reads it again, in a   *)
(* transaction of its own, by element id.  Another run may extract the     *)
(* document again between any two reads (save_elements overwrites a text   *)
(* in place), so the claim, the verdict and the citation may be about      *)
(* different texts.                                                        *)
(*                                                                         *)
(* A text is a short sequence of words; a word is also what the entity     *)
(* extractors find in a text.  Every span the classifier emits starts at   *)
(* offset 0 of its element, so a span is an element and an end offset.     *)
(***************************************************************************)
EXTENDS Verdicts, Filter, FiniteSets

CONSTANTS
  Elements, Documents,
  DocOf,          (* document of an element                                *)
  Words,
  Texts,          (* texts an extraction may produce: sequences of words   *)
  Absent,         (* text of an element that was never stored              *)
  MentionChoices, (* sets of words a claim's decomposition may mention     *)
  Samples,        (* n_samples of the classifier                           *)
  Lenses,         (* lenses of the adversarial panel; {} when there is none*)
  Advisers,       (* subset of {"entity_grounding", "source_refetch"}      *)
  KgEnabled,      (* the kg_grounding gate is on                           *)
  MaxExtractions  (* bound on the extractions that interfere               *)

ASSUME DocOfAssumption == DocOf \in [Elements -> Documents]
ASSUME TextAssumption == Texts \subseteq Seq(Words) /\ Absent \notin Texts
ASSUME MentionAssumption == MentionChoices \subseteq SUBSET Words
ASSUME SampleAssumption == Samples \in Nat \ {0} /\ MaxExtractions \in Nat
ASSUME LensAssumption ==
  /\ IsFiniteSet(Lenses) /\ {"nli", "second_llm"} \cap Lenses = {}
  /\ KgEnabled \in BOOLEAN
ASSUME AdviserAssumption == Advisers \subseteq {"entity_grounding", "source_refetch"}

VARIABLES
  element,     (* element[e]: the stored text                              *)
  pc,
  clause,      (* the element that is classified                           *)
  prompt,      (* the texts the classifier put into its prompt             *)
  spans,       (* evidence_spans of the claim                              *)
  votes,       (* self_consistency_votes: of the claimed indicator, of all *)
  mentions,    (* words the claim's decomposition mentions                 *)
  k,           (* the span the current loop is at                          *)
  sound,       (* the current loop has found no problem                    *)
  first,       (* the first of verbatim_match's two reads                  *)
  gates,       (* results of the gates run so far                          *)
  refuted,     (* lenses that have refuted the mapping, and ...            *)
  survived,    (* ... those that have not                                  *)
  advisory,    (* advisory_checks of the report                            *)
  graph,       (* the texts kg_grounding has read                          *)
  status,      (* status of the report                                     *)
  citation,    (* snippets exported                                        *)
  silent,      (* history: backends and lenses that raised                 *)
  touched,     (* history: elements overwritten since the prompt was built *)
  extractions

claim   == <<clause, prompt, spans, votes, mentions>>
loop    == <<k, sound, first>>
panel   == <<refuted, survived>>
report  == <<gates, advisory, status>>
history == <<silent, touched>>
vars    == <<element, pc, claim, loop, panel, report, graph, citation, history, extractions>>

-----------------------------------------------------------------------------
Span == [element : Elements, end : Nat]

Stage == {"idle", "classify", "save_claim", "span_existence", "verbatim_match",
          "reread", "entailment", "self_consistency", "grounding", "panel",
          "refetch", "kg", "export", "done", "failed"}

TypeOK ==
  /\ element \in [Elements -> Texts \cup {Absent}]
  /\ pc \in Stage
  /\ clause \in Elements
  /\ prompt \in [Elements -> Texts \cup {Absent}]
  /\ spans \in Seq(Span)
  /\ votes \in [own : 0..Samples, total : 0..Samples]
  /\ mentions \in MentionChoices \cup {{}}
  /\ k \in Nat \ {0} /\ sound \in BOOLEAN
  /\ first \in Texts \cup {Absent}
  /\ gates \in PartialGateVector
  /\ refuted \subseteq Lenses /\ survived \subseteq Lenses
  /\ advisory \subseteq Advisers \cup {"panel"}
  /\ graph \subseteq Texts
  /\ status \in Verdict \cup {"none"}
  /\ citation \in Seq(Seq(Words) \cup {Absent})
  /\ silent \subseteq {"nli", "second_llm"} \cup Lenses
  /\ touched \subseteq Elements
  /\ extractions \in 0..MaxExtractions

Init ==
  /\ element \in [Elements -> Texts \cup {Absent}]
  /\ pc = "idle"
  /\ clause \in Elements
  /\ prompt = [e \in Elements |-> Absent]
  /\ spans = <<>> /\ votes = [own |-> 0, total |-> 0] /\ mentions = {}
  /\ k = 1 /\ sound = TRUE /\ first = Absent
  /\ gates = [g \in {} |-> TRUE]
  /\ refuted = {} /\ survived = {} /\ advisory = {} /\ graph = {}
  /\ status = "none" /\ citation = <<>>
  /\ silent = {} /\ touched = {} /\ extractions = 0

-----------------------------------------------------------------------------
WordsOf(text) == {text[i] : i \in DOMAIN text}

(* Mutant: the end offset is taken to be one past where it is.              *)
SliceShort(text, span) ==
  SubSeq(text, 1, IF span.end <= Len(text) THEN span.end - 1 ELSE Len(text))

(* text[start:end]; Python cuts an end that is out of range.               *)
Slice(text, span) == SubSeq(text, 1, IF span.end <= Len(text) THEN span.end ELSE Len(text))

(* Mutant: a span may not reach the end of its element.                    *)
ResolvesStrict(text, span) == text # Absent /\ span.end < Len(text)

Resolves(text, span) == text # Absent /\ span.end <= Len(text)

CitedElements == {spans[i].element : i \in DOMAIN spans}

(* EvidenceSpan.span_id: document and offsets, without the element.        *)
SpanId(span) == <<DocOf[span.element], 0, span.end>>

(* The element of _primary_span: that of the first span with role primary, *)
(* which are those of the classified clause, else of the first span.       *)
Premise == IF clause \in CitedElements THEN clause ELSE spans[1].element

(* Gate results with one more.                                             *)
WithGate(gate, passed) ==
  [g \in DOMAIN gates \cup {gate} |-> IF g = gate THEN passed ELSE gates[g]]

-----------------------------------------------------------------------------
(* classify_clause reads the clause and its neighbourhood for the prompt.  *)
Prompt ==
  /\ pc = "idle" /\ element[clause] # Absent
  /\ prompt' = element
  /\ touched' = {}
  /\ pc' = "classify"
  /\ UNCHANGED <<element, clause, spans, votes, mentions, loop, panel, report, graph,
                 citation, silent, extractions>>

(* Its samples are in: the winning one cites the elements `cited`, which   *)
(* are read again for their length; one that is not stored is left out,    *)
(* and without any the clause is skipped.  Samples that failed are not     *)
(* among the votes.                                                        *)
Materialise(cited, own, total, words) ==
  LET known == Kept(cited, {e \in Elements : element[e] # Absent})
  IN  /\ pc = "classify"
      /\ own <= total
      /\ spans' = [i \in DOMAIN known |-> [element |-> known[i], end |-> Len(element[known[i]])]]
      /\ votes' = [own |-> own, total |-> total]
      /\ mentions' = words
      /\ pc' = IF known = <<>> THEN "failed" ELSE "save_claim"
      /\ UNCHANGED <<element, clause, prompt, loop, panel, report, graph, citation, history, extractions>>

(* save_claim: span ids are part of a primary key, so two spans with the   *)
(* same id make the transaction, and with it the run, fail.                *)
SaveClaim ==
  /\ pc = "save_claim"
  /\ pc' = IF \A i, j \in DOMAIN spans : SpanId(spans[i]) = SpanId(spans[j]) => i = j
             THEN "span_existence" ELSE "failed"
  /\ UNCHANGED <<element, claim, loop, panel, report, graph, citation, history, extractions>>

-----------------------------------------------------------------------------
(* One iteration of a gate's loop over the spans; after the last one the   *)
(* gate's result is recorded.                                              *)
Iterate(gate, again, next, ok) ==
  IF k < Len(spans)
    THEN /\ k' = k + 1 /\ sound' = (sound /\ ok) /\ pc' = again /\ UNCHANGED gates
    ELSE /\ k' = 1 /\ sound' = TRUE /\ pc' = next
         /\ gates' = WithGate(gate, sound /\ ok)

SpanExistence ==
  /\ pc = "span_existence"
  /\ LET text == element[spans[k].element]
     IN  Iterate("span_existence", "span_existence", "verbatim_match",
                 Resolves(text, spans[k]) /\ Slice(text, spans[k]) # <<>>)
  /\ UNCHANGED <<element, claim, first, panel, advisory, status, graph, citation,
                 history, extractions>>

(* The text of a span is read twice and its two slices compared.           *)
VerbatimRead ==
  /\ pc = "verbatim_match"
  /\ first' = element[spans[k].element]
  /\ pc' = "reread"
  /\ UNCHANGED <<element, claim, k, sound, panel, report, graph, citation, history, extractions>>

VerbatimCompare ==
  /\ pc = "reread"
  /\ LET text == element[spans[k].element]
     IN  Iterate("verbatim_match", "verbatim_match", "entailment",
                 /\ Resolves(first, spans[k]) /\ Resolves(text, spans[k])
                 /\ Slice(first, spans[k]) = Slice(text, spans[k]))
  /\ first' = Absent
  /\ UNCHANGED <<element, claim, panel, advisory, status, graph, citation,
                 history, extractions>>

(* Mutant: a backend that raises is left out of the conjunction.           *)
EntailmentTolerant(nli, llm) ==
  /\ pc = "entailment"
  /\ gates' = WithGate("entailment",
        element[Premise] # Absent /\ nli # "no" /\ (nli # "raised" => llm # "no"))
  /\ silent' = silent \cup (IF nli = "raised" THEN {"nli"} ELSE {})
                      \cup (IF nli # "raised" /\ llm = "raised" THEN {"second_llm"} ELSE {})
  /\ pc' = "self_consistency"
  /\ UNCHANGED <<element, claim, loop, panel, advisory, status, graph, citation,
                 touched, extractions>>

(* NLI scorer and second LLM, each answering or raising; the second is not *)
(* asked when the first raised.                                            *)
Entailment(nli, llm) ==
  /\ pc = "entailment"
  /\ gates' = WithGate("entailment",
        element[Premise] # Absent /\ nli = "yes" /\ llm = "yes")
  /\ silent' = IF element[Premise] = Absent THEN silent
               ELSE silent \cup (IF nli = "raised" THEN {"nli"} ELSE {})
                      \cup (IF nli # "raised" /\ llm = "raised" THEN {"second_llm"} ELSE {})
  /\ pc' = "self_consistency"
  /\ UNCHANGED <<element, claim, loop, panel, advisory, status, graph, citation,
                 touched, extractions>>

(* The votes are those of the claim: a strict majority of the samples that *)
(* were valid.  With the last gate in, verify fixes the status.            *)
SelfConsistency ==
  /\ pc = "self_consistency"
  /\ gates' = WithGate("self_consistency",
        votes.total > 0 /\ votes.own >= (votes.total \div 2) + 1)
  /\ status' = VerifyStatus(gates')
  /\ pc' = "grounding"
  /\ UNCHANGED <<element, claim, loop, panel, advisory, graph, citation, history, extractions>>

-----------------------------------------------------------------------------
(* The entity-grounding check: advisory, whatever it finds.                *)
GroundEntities ==
  /\ pc = "grounding"
  /\ advisory' = advisory \cup (Advisers \cap {"entity_grounding"})
  /\ pc' = IF Lenses = {} THEN "refetch" ELSE "panel"
  /\ UNCHANGED <<element, claim, loop, panel, gates, status, graph, citation,
                 history, extractions>>

(* One skeptic of the adversarial panel; one that raises counts as a       *)
(* refutation.                                                             *)
Refute(lens, verdict) ==
  /\ pc = "panel" /\ lens \notin refuted \cup survived
  /\ IF verdict \in {"refute", "raised"}
       THEN refuted' = refuted \cup {lens} /\ UNCHANGED survived
       ELSE survived' = survived \cup {lens} /\ UNCHANGED refuted
  /\ silent' = IF verdict = "raised" THEN silent \cup {lens} ELSE silent
  /\ UNCHANGED <<element, pc, claim, loop, report, graph, citation, touched, extractions>>

MajorityRefutes == Cardinality(refuted) >= (Cardinality(Lenses) \div 2) + 1

(* Mutant: a panel the mapping survives settles the status.                *)
EndPanelPromotes ==
  /\ pc = "panel" /\ refuted \cup survived = Lenses
  /\ advisory' = advisory \cup {"panel"}
  /\ status' = IF MajorityRefutes THEN Demote(status, TRUE) ELSE "verified"
  /\ pc' = "refetch"
  /\ UNCHANGED <<element, claim, loop, panel, gates, graph, citation, history, extractions>>

EndPanel ==
  /\ pc = "panel" /\ refuted \cup survived = Lenses
  /\ advisory' = advisory \cup {"panel"}
  /\ status' = Demote(status, MajorityRefutes)
  /\ pc' = "refetch"
  /\ UNCHANGED <<element, claim, loop, panel, gates, graph, citation, history, extractions>>

(* The source re-fetch: advisory, whatever it finds.                       *)
RefetchSource ==
  /\ pc = "refetch"
  /\ advisory' = advisory \cup (Advisers \cap {"source_refetch"})
  /\ pc' = IF KgEnabled /\ status # "rejected" THEN "kg" ELSE "export"
  /\ UNCHANGED <<element, claim, loop, panel, gates, status, graph, citation,
                 history, extractions>>

(* kg_grounding reads the cited elements one after the other (an element   *)
(* cited twice once) ...                                                   *)
ReadGraph ==
  /\ pc = "kg" /\ k <= Len(spans)
  /\ graph' = graph \cup ({element[spans[k].element]} \ {Absent})
  /\ k' = k + 1
  /\ UNCHANGED <<element, pc, claim, sound, first, panel, report, citation, history, extractions>>

(* Mutant: the result is pushed into the report's gates.                   *)
GroundInGraphAsGate ==
  LET unresolved == mentions \ UNION {WordsOf(text) : text \in graph}
      objection  == graph = {} \/ unresolved # {}
  IN  /\ pc = "kg" /\ k > Len(spans)
      /\ gates' = WithGate("kg_grounding", ~objection)
      /\ status' = Demote(status, objection)
      /\ k' = 1
      /\ pc' = "export"
      /\ UNCHANGED <<element, claim, sound, first, panel, advisory, graph, citation,
                     history, extractions>>

(* ... and objects when there is no text, or when a word the claim         *)
(* mentions is in none of them.  The demoted report is a new one, made     *)
(* from the gates and the reasons alone.                                   *)
GroundInGraph ==
  LET unresolved == mentions \ UNION {WordsOf(text) : text \in graph}
      objection  == graph = {} \/ unresolved # {}
  IN  /\ pc = "kg" /\ k > Len(spans)
      /\ status' = Demote(status, objection)
      /\ advisory' = IF objection /\ status = "verified" THEN {} ELSE advisory
      /\ k' = 1
      /\ pc' = "export"
      /\ UNCHANGED <<element, claim, sound, first, panel, gates, graph, citation,
                     history, extractions>>

(* extract_snippet: the slice, or the whole text where it is empty.        *)
Snippet(text, span) == IF Slice(text, span) = <<>> THEN text ELSE Slice(text, span)

(* materialise_citations, one span: the snippet is cut from the text       *)
(* stored now; a span whose element is gone is left out.                   *)
Cite ==
  /\ pc = "export" /\ k <= Len(spans)
  /\ LET text == element[spans[k].element]
     IN  citation' = Append(citation, IF text = Absent THEN Absent ELSE Snippet(text, spans[k]))
  /\ k' = k + 1
  /\ UNCHANGED <<element, pc, claim, sound, first, panel, report, graph, history, extractions>>

Finish ==
  /\ pc = "export" /\ k > Len(spans)
  /\ pc' = "done"
  /\ UNCHANGED <<element, claim, loop, panel, report, graph, citation, history, extractions>>

(* Another run extracts document d again: the elements it emits get its    *)
(* texts, in one transaction; elements it does not emit keep theirs.       *)
Reextract(d, new) ==
  /\ pc \notin {"done", "failed"}
  /\ extractions < MaxExtractions
  /\ \A e \in DOMAIN new : DocOf[e] = d
  /\ element' = [e \in Elements |-> IF e \in DOMAIN new THEN new[e] ELSE element[e]]
  /\ touched' = touched \cup {e \in DOMAIN new : new[e] # element[e]}
  /\ extractions' = extractions + 1
  /\ UNCHANGED <<pc, claim, loop, panel, report, graph, citation, silent>>

-----------------------------------------------------------------------------
Answer == {"yes", "no", "raised"}

Classify ==
  \/ Prompt
  \/ \E n \in 1..2 : \E cited \in [1..n -> Elements] :
       \E own, total \in 1..Samples, words \in MentionChoices :
         Materialise(cited, own, total, words)
  \/ SaveClaim

Gate ==
  \/ SpanExistence
  \/ VerbatimRead \/ VerbatimCompare
  \/ \E nli, llm \in Answer : Entailment(nli, llm)
  \/ SelfConsistency

Advise ==
  \/ GroundEntities
  \/ \E lens \in Lenses, verdict \in {"refute", "survive", "raised"} : Refute(lens, verdict)
  \/ EndPanel
  \/ RefetchSource
  \/ ReadGraph \/ GroundInGraph

Next ==
  \/ Classify \/ Gate \/ Advise \/ Cite \/ Finish
  \/ \E d \in Documents, S \in (SUBSET Elements) \ {{}} :
       \E new \in [S -> Texts] : Reextract(d, new)

Spec == Init /\ [][Next]_vars
-----------------------------------------------------------------------------
(***************************************************************************)
(* Properties, whatever is extracted again while the claim is at work.     *)
(***************************************************************************)

(* The deterministic gates reject a claim only for a cause: a cited        *)
(* element was overwritten since the classifier's prompt was built, or was *)
(* empty.  The spans the classifier materialises are otherwise within      *)
(* their elements (_materialise_spans against _gate_span_existence and     *)
(* _gate_verbatim_match, each with its own reads).                         *)
RejectedNeedsCause ==
  status = "rejected" =>
    \E i \in DOMAIN spans : spans[i].element \in touched \/ spans[i].end = 0

(* A backend that raises never helps a claim: a verified claim got an      *)
(* answer from both entailment backends, and fewer than a majority of the  *)
(* lenses refuted it or failed to answer (_gate_entailment, evaluate).     *)
SilenceNeverVerifies ==
  status = "verified" /\ pc \in {"export", "done"} =>
    /\ {"nli", "second_llm"} \cap silent = {}
    /\ Lenses # {} =>
         Cardinality(refuted \cup (silent \cap Lenses)) < (Cardinality(Lenses) \div 2) + 1

(* Once the four gates have fixed the status, everything that follows may  *)
(* only turn "verified" into "flagged": the panel, the two advisory checks *)
(* and the KG gate never promote, and never reject (verify,                *)
(* verify_with_kg).                                                        *)
DemoteOnly ==
  [][status # "none" /\ status' # status => status = "verified" /\ status' = "flagged"]_vars

(* A verified claim exports, for each cited element that nobody has        *)
(* overwritten since the prompt, exactly the text the classifier was shown *)
(* (_materialise_spans, extract_snippet).                                  *)
UntouchedIsExported ==
  pc = "done" /\ status = "verified" =>
    \A i \in DOMAIN spans :
      spans[i].element \notin touched => citation[i] = prompt[spans[i].element]
=============================================================================
