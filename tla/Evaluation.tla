----------------------------- MODULE Evaluation -----------------------------
(***************************************************************************)
(* Measuring a run against the gold set: how the offline harness and the   *)
(* evaluator pair gold items with predictions, the counts both report per  *)
(* indicator, and the two rates taken from human reviews.                  *)
(*                                                                         *)
(* Of an item and a prediction only what the matching and the counts tell  *)
(* apart is kept; score band, authority tier and quotation are one field,  *)
(* `band`.                                                                 *)
(***************************************************************************)
EXTENDS Filter, Integers, SequencesExt, FiniteSetsExt

CONSTANTS
  Items,           (* possible gold items                                  *)
  Predictions,     (* possible predictions                                 *)
  JurisdictionOf,  (* of a document id                                     *)
  Normal,          (* the normalised spelling of a document id             *)
  NoClaim,         (* NO_CLAIM_LABEL                                       *)
  MaxGold, MaxRecords, MaxReviews

(* `cites`: the documents of the evidence spans, the first of them the     *)
(* doc_id of the record the harness reads.                                 *)
ASSUME EvaluationAssumption ==
  /\ \A g \in Items : DOMAIN g = {"ind", "doc", "band"}
  /\ \A r \in Predictions :
       /\ DOMAIN r = {"ind", "cites", "band", "new", "verified"}
       /\ IsList(r.cites) /\ r.cites # <<>>
  /\ \A d \in DOMAIN Normal : JurisdictionOf[Normal[d]] = JurisdictionOf[d]

Decisions == {"accept", "correct", "reject"}

VARIABLES
  goldItems, predicted,   (* in the order of their files                   *)
  reviews                 (* of each prediction, oldest first              *)

evaluationVars == <<goldItems, predicted, reviews>>

EvaluationTypeOK ==
  /\ goldItems \in Seq(Items) /\ predicted \in Seq(Predictions)
  /\ reviews \in Seq(Seq(Decisions)) /\ Len(reviews) = Len(predicted)

EvaluationInit == goldItems = <<>> /\ predicted = <<>> /\ reviews = <<>>

-----------------------------------------------------------------------------
(* _provision_key: the document's id is normalised in the exact key too.   *)
GoldKey(g)   == <<JurisdictionOf[g.doc], g.ind, Normal[g.doc]>>
RecordKey(r) == <<JurisdictionOf[r.cites[1]], r.ind, Normal[r.cites[1]]>>

(* A matching gives each gold item the place of its prediction, 0 if none: *)
(* choice[i][free] for item i, with the predictions that are left.         *)
GreedyOf(choice) ==
  LET matching[n \in 0..Len(goldItems)] ==
        IF n = 0 THEN <<>>
        ELSE Append(matching[n - 1], choice[n][DOMAIN predicted \ Range(matching[n - 1])])
  IN  matching

Greedy(choice) == GreedyOf(choice)[Len(goldItems)]

FirstOf(ks) == IF ks = {} THEN 0 ELSE Min(ks)

WithKey(i, ks) == {k \in ks : RecordKey(predicted[k]) = GoldKey(goldItems[i])}

(* Mutant: a prediction may answer for several items.                      *)
HarnessMatchingReused ==
  Greedy([i \in DOMAIN goldItems |->
            [free \in SUBSET DOMAIN predicted |-> FirstOf(WithKey(i, DOMAIN predicted))]])

(* match_provisions: the first unused prediction of the item's key.        *)
HarnessMatching ==
  Greedy([i \in DOMAIN goldItems |->
            [free \in SUBSET DOMAIN predicted |-> FirstOf(WithKey(i, free))]])

Citing(d, ks)    == {k \in ks : d \in Range(predicted[k].cites)}
InPlaceOf(d, ks) == {k \in ks : JurisdictionOf[predicted[k].cites[1]] = JurisdictionOf[d]}

(* _match: an unused claim that cites the document, or else any of the     *)
(* jurisdiction; among those the first of the indicator, or else the first.*)
Candidates(g, free) ==
  LET pool == IF Citing(g.doc, free) # {} THEN Citing(g.doc, free) ELSE InPlaceOf(g.doc, free)
      same == {k \in pool : predicted[k].ind = g.ind}
  IN  IF same # {} THEN same ELSE pool

ServiceMatching ==
  Greedy([i \in DOMAIN goldItems |->
            [free \in SUBSET DOMAIN predicted |-> FirstOf(Candidates(goldItems[i], free))]])

Missed(m)   == {i \in DOMAIN m : m[i] = 0}
Matched(m)  == DOMAIN m \ Missed(m)
Unused(m)   == DOMAIN predicted \ Range(m)

(* Mutant: what is tagged NEW is spurious like the rest.                   *)
SpuriousAll(m) == Unused(m)

(* A prediction tagged NEW that matches nothing is no error.               *)
Spurious(m) == {k \in Unused(m) : ~predicted[k].new}

-----------------------------------------------------------------------------
(* y_true and y_pred: a unit for each item and each extra prediction.      *)
Units(m, extra) ==
  {[of |-> <<"gold", i>>, true |-> goldItems[i].ind,
    pred |-> IF m[i] = 0 THEN NoClaim ELSE predicted[m[i]].ind] : i \in DOMAIN goldItems}
  \cup {[of |-> <<"claim", k>>, true |-> NoClaim, pred |-> predicted[k].ind] : k \in extra}

(* prf: true positives, false positives and false negatives of a label.    *)
Prf(units, l) ==
  [tp |-> Cardinality({u \in units : u.true = l /\ u.pred = l}),
   fp |-> Cardinality({u \in units : u.true # l /\ u.pred = l}),
   fn |-> Cardinality({u \in units : u.true = l /\ u.pred # l})]

Labels(units) == ({u.true : u \in units} \cup {u.pred : u \in units}) \ {NoClaim}

(* Matched items of the label, or not, with a prediction of it, or not.    *)
Right(m, l) == {i \in Matched(m) : goldItems[i].ind = l /\ predicted[m[i]].ind = l}
Wrong(m, l) == {i \in Matched(m) : goldItems[i].ind # l /\ predicted[m[i]].ind = l}
Lost(m, l)  == {i \in Matched(m) : goldItems[i].ind = l /\ predicted[m[i]].ind # l}
Extra(m, l) == {k \in Spurious(m) : predicted[k].ind = l}

(* Mutant: a missed item is no false negative.                             *)
IndicatorRowFound(m, l) ==
  [tp |-> Cardinality(Right(m, l)),
   fp |-> Cardinality(Wrong(m, l)) + Cardinality(Extra(m, l)),
   fn |-> Cardinality(Lost(m, l))]

(* _indicator_row counts the three parts of the matching by themselves.    *)
IndicatorRow(m, l) ==
  [tp |-> Cardinality(Right(m, l)),
   fp |-> Cardinality(Wrong(m, l)) + Cardinality(Extra(m, l)),
   fn |-> Cardinality(Lost(m, l)) + Cardinality({i \in Missed(m) : goldItems[i].ind = l})]

(* field accuracy, of the matched items                                    *)
Agreeing(m) == {i \in Matched(m) : predicted[m[i]].band = goldItems[i].band}

(* false_zeros: items with a positive band whose key is among the missed.  *)
FalseZeros(m) ==
  {i \in DOMAIN goldItems : goldItems[i].band # "0" /\ \E j \in Missed(m) : GoldKey(goldItems[j]) = GoldKey(goldItems[i])}

-----------------------------------------------------------------------------
Verified == {k \in DOMAIN predicted : predicted[k].verified}

(* _citation_support_precision: by the latest review; 1 without any.       *)
CitationSupport ==
  LET scored == {k \in Verified : reviews[k] # <<>>}
  IN  IF scored = {} THEN <<1, 1>>
      ELSE <<Cardinality({k \in scored : Last(reviews[k]) = "accept"}), Cardinality(scored)>>

(* Mutant: a correction is not an override.                                *)
OverrideRateRejects ==
  IF Verified = {} THEN <<0, 1>>
  ELSE <<Cardinality({k \in Verified : "reject" \in Range(reviews[k])}), Cardinality(Verified)>>

(* _reviewer_override_rate: by any review.                                 *)
OverrideRate ==
  IF Verified = {} THEN <<0, 1>>
  ELSE <<Cardinality({k \in Verified : Range(reviews[k]) \cap {"correct", "reject"} # {}}),
         Cardinality(Verified)>>

-----------------------------------------------------------------------------
AddGold(g) ==
  /\ Len(goldItems) < MaxGold
  /\ goldItems' = Append(goldItems, g)
  /\ UNCHANGED <<predicted, reviews>>

Predict(r) ==
  /\ Len(predicted) < MaxRecords
  /\ predicted' = Append(predicted, r)
  /\ reviews' = Append(reviews, <<>>)
  /\ UNCHANGED goldItems

Review(k, d) ==
  /\ FoldSeq(LAMBDA rs, n : Len(rs) + n, 0, reviews) < MaxReviews
  /\ reviews' = [reviews EXCEPT ![k] = Append(@, d)]
  /\ UNCHANGED <<goldItems, predicted>>

EvaluationNext ==
  \/ \E g \in Items : AddGold(g)
  \/ \E r \in Predictions : Predict(r)
  \/ \E k \in DOMAIN predicted, d \in Decisions : Review(k, d)

EvaluationSpec == EvaluationInit /\ [][EvaluationNext]_evaluationVars

-----------------------------------------------------------------------------
(* Whatever the order of the files, the harness finds as many pairs of a   *)
(* key as there are items and predictions of it, and none by the wrong     *)
(* label; a prediction answers for one item; and the counts of each row    *)
(* are those of the units, which a prediction tagged NEW joins only when   *)
(* matched (match_provisions, score_against_gold, _indicator_row).         *)
HarnessIsExact ==
  LET m     == HarnessMatching
      units == Units(m, Spurious(m))
  IN  /\ \A i, j \in DOMAIN m : m[i] = m[j] /\ m[i] # 0 => i = j
      /\ \A key \in {GoldKey(g) : g \in Range(goldItems)} :
           LET items == {i \in DOMAIN goldItems : GoldKey(goldItems[i]) = key}
               found == {k \in DOMAIN predicted : RecordKey(predicted[k]) = key}
           IN  Cardinality(items \ Missed(m)) = Min({Cardinality(items), Cardinality(found)})
      /\ \A l \in Labels(units) :
           /\ IndicatorRow(m, l) = Prf(units, l)
           /\ Prf(units, l).tp + Prf(units, l).fn = Cardinality({i \in DOMAIN goldItems : goldItems[i].ind = l})
      /\ Agreeing(m) \subseteq DOMAIN goldItems \ Missed(m)
      /\ \A i \in Missed(m) : goldItems[i].band # "0" => i \in FalseZeros(m)
      /\ \A k \in DOMAIN predicted :
           predicted[k].new /\ RecordKey(predicted[k]) \notin {GoldKey(g) : g \in Range(goldItems)} =>
             \A u \in units : u.of # <<"claim", k>>

(* The evaluator leaves an item without a claim only when every claim of   *)
(* its jurisdiction answers for another, and never gives it a claim of     *)
(* another document while one of its own is left over (_match).            *)
EvaluatorIsMaximal ==
  LET m == ServiceMatching
  IN  \A i \in DOMAIN goldItems, k \in Unused(m) :
        /\ m[i] = 0 => JurisdictionOf[predicted[k].cites[1]] # JurisdictionOf[goldItems[i].doc]
        /\ goldItems[i].doc \in Range(predicted[k].cites) =>
             m[i] # 0 /\ goldItems[i].doc \in Range(predicted[m[i]].cites)

(* The two rates agree: a verified claim whose latest review is no accept  *)
(* counts against both, so what the first one loses is part of the second; *)
(* and no more claims are overridden than are reviewed                     *)
(* (_citation_support_precision, _reviewer_override_rate).                 *)
RatesCohere ==
  LET lost == CitationSupport[2] - CitationSupport[1]
  IN  /\ lost <= OverrideRate[1]
      /\ OverrideRate[1] <= Cardinality({k \in Verified : reviews[k] # <<>>})
      /\ CitationSupport[1] = CitationSupport[2] =>
           \A k \in Verified : reviews[k] # <<>> => Last(reviews[k]) = "accept"

(* What the evaluator of a run reports: maximal pairs, coherent rates.     *)
EvaluatorIsSound == EvaluatorIsMaximal /\ RatesCohere
=============================================================================
