--------------------------- MODULE Classification ---------------------------
(***************************************************************************)
(* From retrieval hits to claims: classify_node takes each clause once,    *)
(* the classifier samples the model, lets the answers vote and turns the   *)
(* modal answer's element ids into spans, a regime and a claim, which is   *)
(* saved before the next hit is looked at.                                 *)
(*                                                                         *)
(* An answer of the model is its indicator and element ids; the prompt and *)
(* the clause's language, of which no step depends, are left out.          *)
(***************************************************************************)
EXTENDS Filter, Integers, SequencesExt, FiniteSetsExt

CONSTANTS
  HitLists,    (* possible hits of a run: [pillar, clause], in order       *)
  Indicators,  (* Indicators[p]: the choices of a pillar                   *)
  Stored,      (* elements of the repository                               *)
  DefinitionIds,   (* elements that are definitions                        *)
  DocumentOf, SizeOf,   (* of an element                                   *)
  Answers,     (* possible answers: [ind, evidence, members]               *)
  NoAnswer,    (* the call fails, or the answer has not the shape asked for*)
  SampleCount  (* RIE_N_SAMPLES                                            *)

ASSUME ClassificationAssumption ==
  /\ SampleCount \in Nat \ {0} /\ NoAnswer \notin Answers
  /\ \A hs \in HitLists : IsList(hs)
  /\ \A a \in Answers : IsList(a.evidence) /\ IsList(a.members)

VARIABLES
  offered, pos,      (* the hits of all pillars, the one being looked at   *)
  drawn,             (* the answers to its samples so far                  *)
  taken,             (* clauses taken: `seen`                              *)
  claims,            (* claims saved, in order                             *)
  missing, errors,   (* clauses not stored, clauses skipped for an error   *)
  progress           (* "run", "done", or "failed" by a save               *)

classificationVars == <<offered, pos, drawn, taken, claims, missing, errors, progress>>

ClassificationTypeOK ==
  /\ offered \in HitLists /\ pos \in 1..(Len(offered) + 1)
  /\ drawn \in Seq(Answers \cup {NoAnswer}) /\ Len(drawn) <= SampleCount
  /\ taken \subseteq {h.clause : h \in Range(offered)}
  /\ missing \subseteq taken /\ errors \subseteq taken
  /\ IsList(claims) /\ {c.clause : c \in Range(claims)} \subseteq taken
  /\ progress \in {"run", "done", "failed"}

ClassificationInit ==
  /\ offered \in HitLists /\ pos = 1
  /\ drawn = <<>> /\ taken = {} /\ claims = <<>> /\ missing = {} /\ errors = {}
  /\ progress = "run"

Hit == offered[pos]

-----------------------------------------------------------------------------
(* Mutant: any indicator passes.                                           *)
ValidShape(pillar) == Answers

(* build_output_model: only an indicator of the pillar passes.             *)
Valid(pillar) == {a \in Answers : a.ind \in Indicators[pillar]}

(* _draw_samples: what fails is dropped.                                   *)
ValidSamples == Kept(drawn, Valid(Hit.pillar))

VotersFor(samples, i) == {k \in DOMAIN samples : samples[k].ind = i}
Votes(samples) ==
  [i \in {a.ind : a \in Range(samples)} |-> Cardinality(VotersFor(samples, i))]

(* most_common: of the labels with the most votes the first to be drawn,   *)
(* and of its samples the first.                                           *)
Modal(samples) ==
  LET votes == Votes(samples)
      top   == {k \in DOMAIN samples : \A i \in DOMAIN votes : votes[samples[k].ind] >= votes[i]}
  IN  samples[Min(top)]

(* _materialise_spans: a span for each id that is stored, as often as it   *)
(* was named; span_id is made of the document and the element's length.    *)
Spans(clause, ids) ==
  LET known == Kept(ids, Stored)
  IN  [k \in DOMAIN known |->
         [span |-> <<DocumentOf[known[k]], SizeOf[known[k]]>>, element |-> known[k],
          primary |-> known[k] = clause]]

(* materialise_regime_from_llm_ids: the clause, then what is stored, once. *)
RegimeFrom(clause, ids) ==
  LET members == WithoutRepeats(<<clause>> \o Kept(ids, Stored))
  IN  [members |-> members, definitions |-> Kept(Tail(members), DefinitionIds)]

(* _build_claim                                                            *)
ClaimOf(samples) ==
  LET modal == Modal(samples)
  IN  [clause |-> Hit.clause, pillar |-> Hit.pillar, ind |-> modal.ind,
       spans |-> Spans(Hit.clause, modal.evidence),
       regime |-> RegimeFrom(Hit.clause, modal.members), votes |-> Votes(samples)]

(* The rows of a claim's spans are keyed by span_id and claim_id.          *)
Keyed(claim) == \A j, k \in DOMAIN claim.spans : claim.spans[j].span = claim.spans[k].span => j = k

-----------------------------------------------------------------------------
Advance == pos' = pos + 1 /\ drawn' = <<>>

(* The clause of an earlier hit, of whichever pillar.                      *)
SkipTaken ==
  /\ progress = "run" /\ pos <= Len(offered) /\ Hit.clause \in taken /\ drawn = <<>>
  /\ Advance
  /\ UNCHANGED <<offered, taken, claims, missing, errors, progress>>

SkipMissing ==
  /\ progress = "run" /\ pos <= Len(offered) /\ Hit.clause \notin taken /\ Hit.clause \notin Stored
  /\ taken' = taken \cup {Hit.clause} /\ missing' = missing \cup {Hit.clause}
  /\ Advance
  /\ UNCHANGED <<offered, claims, errors, progress>>

Sample(answer) ==
  /\ progress = "run" /\ pos <= Len(offered) /\ Len(drawn) < SampleCount
  /\ Hit.clause \in Stored /\ (Hit.clause \notin taken \/ drawn # <<>>)
  /\ drawn' = Append(drawn, answer)
  /\ taken' = taken \cup {Hit.clause}
  /\ UNCHANGED <<offered, pos, claims, missing, errors, progress>>

Sampled == progress = "run" /\ pos <= Len(offered) /\ Len(drawn) = SampleCount

(* No valid sample, or none of its elements stored: the clause is skipped. *)
Classified == ValidSamples # <<>> /\ ClaimOf(ValidSamples).spans # <<>>

SkipError ==
  /\ Sampled /\ ~Classified
  /\ errors' = errors \cup {Hit.clause}
  /\ Advance
  /\ UNCHANGED <<offered, taken, claims, missing, progress>>

Save ==
  /\ Sampled /\ Classified /\ Keyed(ClaimOf(ValidSamples))
  /\ claims' = Append(claims, ClaimOf(ValidSamples))
  /\ Advance
  /\ UNCHANGED <<offered, taken, missing, errors, progress>>

(* The save is outside the try: the run fails with it.                     *)
SaveFails ==
  /\ Sampled /\ Classified /\ ~Keyed(ClaimOf(ValidSamples))
  /\ progress' = "failed"
  /\ UNCHANGED <<offered, pos, drawn, taken, claims, missing, errors>>

End ==
  /\ progress = "run" /\ pos > Len(offered)
  /\ progress' = "done"
  /\ UNCHANGED <<offered, pos, drawn, taken, claims, missing, errors>>

ClassificationNext ==
  \/ SkipTaken \/ SkipMissing \/ SkipError \/ Save \/ SaveFails \/ End
  \/ \E a \in Answers \cup {NoAnswer} : Sample(a)

ClassificationSpec == ClassificationInit /\ [][ClassificationNext]_classificationVars

-----------------------------------------------------------------------------
FirstPillar(c) == offered[Min({k \in DOMAIN offered : offered[k].clause = c})].pillar

Warranted(c) ==
  /\ c.pillar = FirstPillar(c.clause) /\ c.ind \in Indicators[c.pillar]
  /\ \A i \in DOMAIN c.votes : i \in Indicators[c.pillar] /\ c.votes[i] <= c.votes[c.ind]
  /\ c.spans # <<>> /\ {s.element : s \in Range(c.spans)} \subseteq Stored
  /\ c.regime.members[1] = c.clause

(* However the answers fall, a claim carries an indicator of the pillar    *)
(* that retrieved its clause first, which no other label outvotes, and     *)
(* spans of stored elements; and each clause looked at has one outcome: a  *)
(* claim, an error or no element (classify_node, classify_clause).         *)
ClaimsAreWarranted ==
  /\ \A k \in DOMAIN claims :
       /\ Warranted(claims[k]) /\ claims[k].clause \notin errors \cup missing
       /\ \A j \in DOMAIN claims : claims[j].clause = claims[k].clause => j = k
  /\ errors \cap missing = {}
  /\ progress = "done" =>
       {h.clause : h \in Range(offered)} = {c.clause : c \in Range(claims)} \cup errors \cup missing
=============================================================================
