-------------------------- MODULE VerificationProofs --------------------------
(***************************************************************************)
(* Theorems about Verification, for any elements, texts, spans, lenses and *)
(* advisers, whatever is extracted again while the claim is at work.       *)
(***************************************************************************)
EXTENDS Verification, FilterProofs, SequenceTheorems, FiniteSetTheorems

(* The stages between the first gate and the last.                         *)
Gating == {"span_existence", "verbatim_match", "reread", "entailment", "self_consistency"}

(* The stages after them, where the report has a status.                   *)
Reported == {"grounding", "panel", "refetch", "kg", "export", "done"}

(* The stages that go through the spans.                                   *)
Looping == {"span_existence", "verbatim_match", "reread"}

Indices == DOMAIN spans

(* A cited element that was overwritten, or was empty.                     *)
Cause == \E i \in Indices : spans[i].element \in touched \/ spans[i].end = 0

-----------------------------------------------------------------------------
(* What was not overwritten since the prompt was built is still there, and *)
(* a span of it covers the whole text of the prompt.                       *)
SpanInv ==
  /\ pc # "idle" => \A e \in Elements : e \notin touched => element[e] = prompt[e]
  /\ pc \notin {"idle", "classify"} => \A i \in Indices :
       spans[i].element \notin touched =>
         prompt[spans[i].element] # Absent /\ spans[i].end = Len(prompt[spans[i].element])

(* Where the loops are, and which gates have run.                          *)
StageInv ==
  /\ pc \in {"save_claim"} \cup Gating \cup Reported => spans # <<>>
  /\ pc \in {"idle", "classify", "save_claim", "span_existence"} => DOMAIN gates = {}
  /\ pc \in {"verbatim_match", "reread"} => DOMAIN gates = {"span_existence"}
  /\ pc = "entailment" => DOMAIN gates = DeterministicGates
  /\ pc = "self_consistency" => DOMAIN gates = DeterministicGates \cup {"entailment"}
  /\ pc \in Reported => DOMAIN gates = Gates
  /\ pc \in Looping => k <= Len(spans)
  /\ pc \notin Looping \cup {"kg", "export", "done"} => k = 1
  /\ pc \notin {"export", "done"} => citation = <<>>
  /\ status = "none" <=> pc \notin Reported

(* A failure of a deterministic gate, found or about to be recorded, has a *)
(* cause.                                                                  *)
GateInv ==
  /\ ~sound => pc \in Looping /\ Cause
  /\ \A g \in DeterministicGates \cap DOMAIN gates : ~gates[g] => Cause
  /\ pc = "reread" /\ spans[k].element \notin touched => first = prompt[spans[k].element]
  /\ status = "rejected" => Cause

(* Nobody is silent before he is asked, a silent lens has refuted, and     *)
(* neither a silent backend nor a majority of the lenses lets a verified   *)
(* status pass.                                                            *)
SilenceInv ==
  /\ silent \cap Lenses \subseteq refuted
  /\ \/ {"nli", "second_llm"} \cap silent = {}
     \/ "entailment" \in DOMAIN gates /\ ~gates["entailment"]
  /\ status = "verified" => \A g \in Gates : gates[g]
  /\ pc \in {"refetch", "kg", "export", "done"} /\ status = "verified" /\ Lenses # {} =>
       ~MajorityRefutes

(* The citation so far.                                                    *)
CitedInv ==
  /\ pc = "export" => Len(citation) = k - 1 /\ k <= Len(spans) + 1
  /\ pc = "done" => Len(citation) = Len(spans)
  /\ \A i \in DOMAIN citation :
       spans[i].element \notin touched => citation[i] = prompt[spans[i].element]

VerificationInv == TypeOK /\ SpanInv /\ StageInv /\ GateInv /\ SilenceInv /\ CitedInv

-----------------------------------------------------------------------------
(***************************************************************************)
(* Facts about the operators.                                              *)
(***************************************************************************)

(* The known elements are among the cited ones, and stored.                *)
LEMMA KnownStored ==
  ASSUME TypeOK, NEW n \in Nat, NEW cited \in [1..n -> Elements]
  PROVE  LET known == Kept(cited, {e \in Elements : element[e] # Absent})
         IN  known \in Seq(Elements) /\ \A i \in DOMAIN known : element[known[i]] # Absent
<1>1. cited \in Seq(Elements)
  OBVIOUS
<1>2. QED
  BY <1>1, KeptProperties

(* A gate joins the results.                                               *)
LEMMA WithGateTyped ==
  ASSUME TypeOK, NEW gate \in Gates, NEW passed \in BOOLEAN
  PROVE  /\ WithGate(gate, passed) \in PartialGateVector
         /\ DOMAIN WithGate(gate, passed) = DOMAIN gates \cup {gate}
         /\ WithGate(gate, passed)[gate] = passed
         /\ \A g \in DOMAIN gates \ {gate} : WithGate(gate, passed)[g] = gates[g]
<1>1. DOMAIN gates \subseteq Gates /\ \A g \in DOMAIN gates : gates[g] \in BOOLEAN
  BY DEF TypeOK, PartialGateVector
<1>2. WithGate(gate, passed) \in [DOMAIN gates \cup {gate} -> BOOLEAN]
  BY <1>1 DEF WithGate
<1>3. QED
  BY <1>1, <1>2 DEF WithGate, PartialGateVector

(* The slice of a text is a text, that of all of it the text itself.       *)
LEMMA SliceTyped ==
  ASSUME NEW text \in Texts, NEW span \in Span
  PROVE  /\ Slice(text, span) \in Seq(Words)
         /\ span.end = Len(text) => Slice(text, span) = text
<1>1. text \in Seq(Words) /\ span.end \in Nat
  BY TextAssumption DEF Span
<1> DEFINE n == IF span.end <= Len(text) THEN span.end ELSE Len(text)
<1>2. n \in 0..Len(text)
  BY <1>1
<1>3. \A i \in 1..n : text[i] \in Words
  BY <1>1, <1>2
<1>4. SubSeq(text, 1, n) \in Seq(Words)
  <2> HIDE DEF n
  <2>1. QED
    BY <1>2, <1>3, SubSeqProperties
<1>5. SubSeq(text, 1, Len(text)) = text
  BY <1>1, SubSeqFull
<1>6. QED
  BY <1>1, <1>4, <1>5 DEF Slice

(* One round of a gate's loop ...                                          *)
LEMMA AnotherRound ==
  ASSUME NEW gate, NEW again, NEW next, NEW ok, Iterate(gate, again, next, ok), k < Len(spans)
  PROVE  k' = k + 1 /\ sound' = (sound /\ ok) /\ pc' = again /\ gates' = gates
  BY DEF Iterate

(* ... and the last.                                                       *)
LEMMA LastRound ==
  ASSUME TypeOK, NEW gate \in Gates, NEW again, NEW next, NEW ok \in BOOLEAN,
         Iterate(gate, again, next, ok), ~(k < Len(spans))
  PROVE  /\ k' = 1 /\ sound' = TRUE /\ pc' = next
         /\ gates' \in PartialGateVector
         /\ DOMAIN gates' = DOMAIN gates \cup {gate}
         /\ gates'[gate] <=> sound /\ ok
         /\ \A g \in DOMAIN gates \ {gate} : gates'[g] = gates[g]
<1> DEFINE passed == sound /\ ok
<1>1. passed \in BOOLEAN
  BY DEF TypeOK
<1>2. k' = 1 /\ sound' = TRUE /\ pc' = next /\ gates' = WithGate(gate, passed)
  BY DEF Iterate
<1>3. passed = (sound /\ ok)
  OBVIOUS
<1> HIDE DEF passed
<1>4. QED
  BY <1>1, <1>2, <1>3, WithGateTyped

LEMMA IterateTyped ==
  ASSUME TypeOK, NEW gate \in Gates, NEW again \in Stage, NEW next \in Stage, NEW ok \in BOOLEAN,
         Iterate(gate, again, next, ok)
  PROVE  /\ k' \in Nat \ {0} /\ sound' \in BOOLEAN /\ pc' \in Stage
         /\ gates' \in PartialGateVector
<1>1. k \in Nat /\ sound \in BOOLEAN /\ gates \in PartialGateVector
  BY DEF TypeOK
<1>2. CASE k < Len(spans)
  BY <1>1, <1>2, AnotherRound
<1>3. CASE ~(k < Len(spans))
  <2>1. k' = 1 /\ sound' = TRUE /\ pc' = next /\ gates' \in PartialGateVector
    BY <1>3, LastRound
  <2>2. QED
    BY <2>1
<1>4. QED
  BY <1>2, <1>3

-----------------------------------------------------------------------------
(***************************************************************************)
(* Type correctness.                                                       *)
(***************************************************************************)

LEMMA InitTyped == Init => TypeOK
  BY SampleAssumption DEF Init, TypeOK, Stage, PartialGateVector

LEMMA MaterialiseTyped ==
  ASSUME TypeOK, NEW n \in Nat, NEW cited \in [1..n -> Elements],
         NEW own \in 1..Samples, NEW total \in 1..Samples, NEW words \in MentionChoices,
         Materialise(cited, own, total, words)
  PROVE  TypeOK'
<1> DEFINE known == Kept(cited, {e \in Elements : element[e] # Absent})
<1>1. known \in Seq(Elements) /\ \A i \in DOMAIN known : element[known[i]] # Absent
  BY KnownStored
<1>2. \A e \in Elements : element[e] # Absent => Len(element[e]) \in Nat
  BY TextAssumption DEF TypeOK
<1> HIDE DEF known
<1>3. [i \in DOMAIN known |-> [element |-> known[i], end |-> Len(element[known[i]])]] \in Seq(Span)
  <2>1. DOMAIN known = 1..Len(known) /\ Len(known) \in Nat
    BY <1>1
  <2>2. \A i \in DOMAIN known : [element |-> known[i], end |-> Len(element[known[i]])] \in Span
    BY <1>1, <1>2, <2>1 DEF Span
  <2>3. QED
    BY <2>1, <2>2
<1>4. spans' \in Seq(Span)
  BY <1>3 DEF Materialise, known
<1>5. votes' \in [own : 0..Samples, total : 0..Samples]
  BY SampleAssumption DEF Materialise
<1>6. QED
  BY <1>4, <1>5 DEF Materialise, TypeOK, Stage, loop, panel, report, history

LEMMA GateTyped ==
  ASSUME TypeOK, StageInv, Gate
  PROVE  TypeOK'
<1> USE DEF TypeOK, claim, loop, panel, report, history
<1>1. CASE SpanExistence
  <2> DEFINE ok == LET text == element[spans[k].element]
                   IN  Resolves(text, spans[k]) /\ Slice(text, spans[k]) # <<>>
  <2>1. Iterate("span_existence", "span_existence", "verbatim_match", ok) /\ ok \in BOOLEAN
    BY <1>1 DEF SpanExistence
  <2> HIDE DEF ok
  <2>2. /\ k' \in Nat \ {0} /\ sound' \in BOOLEAN /\ pc' \in Stage /\ gates' \in PartialGateVector
    BY <2>1, IterateTyped DEF Stage, Gates, DeterministicGates
  <2>3. QED
    BY <1>1, <2>2 DEF SpanExistence
<1>2. CASE VerbatimRead
  <2>1. spans[k] \in Span
    BY <1>2 DEF VerbatimRead, StageInv, Looping
  <2>2. element[spans[k].element] \in Texts \cup {Absent}
    BY <2>1 DEF Span
  <2>3. QED
    BY <1>2, <2>2 DEF VerbatimRead, Stage
<1>3. CASE VerbatimCompare
  <2> DEFINE ok == LET text == element[spans[k].element]
                   IN  /\ Resolves(first, spans[k]) /\ Resolves(text, spans[k])
                       /\ Slice(first, spans[k]) = Slice(text, spans[k])
  <2>1. Iterate("verbatim_match", "verbatim_match", "entailment", ok) /\ ok \in BOOLEAN
    BY <1>3 DEF VerbatimCompare
  <2> HIDE DEF ok
  <2>2. /\ k' \in Nat \ {0} /\ sound' \in BOOLEAN /\ pc' \in Stage /\ gates' \in PartialGateVector
    BY <2>1, IterateTyped DEF Stage, Gates, DeterministicGates
  <2>3. QED
    BY <1>3, <2>2 DEF VerbatimCompare
<1>4. ASSUME NEW nli \in Answer, NEW llm \in Answer, Entailment(nli, llm) PROVE TypeOK'
  <2>1. gates' \in PartialGateVector
    BY <1>4, WithGateTyped DEF Entailment, Gates, ModelGates
  <2>2. silent' \subseteq {"nli", "second_llm"} \cup Lenses
    BY <1>4 DEF Entailment
  <2>3. QED
    BY <1>4, <2>1, <2>2 DEF Entailment, Stage
<1>5. CASE SelfConsistency
  <2>1. gates' \in PartialGateVector
    BY <1>5, WithGateTyped DEF SelfConsistency, Gates, ModelGates
  <2>2. status' \in Verdict
    BY <1>5 DEF SelfConsistency, VerifyStatus, Verdict
  <2>3. QED
    BY <1>5, <2>1, <2>2 DEF SelfConsistency, Stage
<1>6. QED
  BY <1>1, <1>2, <1>3, <1>4, <1>5 DEF Gate

LEMMA AdviseTyped ==
  ASSUME TypeOK, StageInv, Advise
  PROVE  TypeOK'
<1> USE DEF TypeOK, claim, loop, panel, report, history
<1>1. CASE GroundEntities
  BY <1>1 DEF GroundEntities, Stage
<1>2. ASSUME NEW lens \in Lenses, NEW verdict \in {"refute", "survive", "raised"},
             Refute(lens, verdict)
      PROVE  TypeOK'
  BY <1>2 DEF Refute, Stage
<1>3. CASE EndPanel
  BY <1>3 DEF EndPanel, Stage, Demote, Verdict
<1>4. CASE RefetchSource
  BY <1>4 DEF RefetchSource, Stage
<1>5. CASE ReadGraph
  <2>1. spans[k] \in Span
    BY <1>5 DEF ReadGraph
  <2>2. element[spans[k].element] \in Texts \cup {Absent}
    BY <2>1 DEF Span
  <2>3. QED
    BY <1>5, <2>2 DEF ReadGraph, Stage
<1>6. CASE GroundInGraph
  BY <1>6 DEF GroundInGraph, Stage, Demote, Verdict
<1>7. QED
  BY <1>1, <1>2, <1>3, <1>4, <1>5, <1>6 DEF Advise

LEMMA CiteTyped ==
  ASSUME TypeOK, Cite
  PROVE  TypeOK'
<1> DEFINE text == element[spans[k].element]
           cut  == IF text = Absent THEN Absent ELSE Snippet(text, spans[k])
<1>1. spans[k] \in Span
  BY DEF Cite, TypeOK
<1>2. text \in Texts \cup {Absent}
  BY <1>1 DEF Span, TypeOK
<1>3. text \in Texts => text \in Seq(Words) /\ Slice(text, spans[k]) \in Seq(Words)
  BY <1>1, SliceTyped, TextAssumption
<1>4. cut \in Seq(Words) \cup {Absent}
  BY <1>2, <1>3 DEF Snippet
<1>5. citation' = Append(citation, cut)
  BY DEF Cite
<1> HIDE DEF cut
<1>6. citation' \in Seq(Seq(Words) \cup {Absent})
  BY <1>4, <1>5 DEF TypeOK
<1>7. QED
  BY <1>6 DEF Cite, TypeOK, Stage, claim, loop, panel, report, history

LEMMA ReextractTyped ==
  ASSUME TypeOK, NEW d \in Documents, NEW S \in SUBSET Elements, NEW new \in [S -> Texts],
         Reextract(d, new)
  PROVE  TypeOK'
<1>1. element' \in [Elements -> Texts \cup {Absent}]
  BY DEF Reextract, TypeOK
<1>2. extractions' \in 0..MaxExtractions /\ touched' \subseteq Elements
  BY SampleAssumption DEF Reextract, TypeOK
<1>3. QED
  BY <1>1, <1>2 DEF Reextract, TypeOK, claim, loop, panel, report

LEMMA NextTyped ==
  ASSUME TypeOK, StageInv, [Next]_vars
  PROVE  TypeOK'
<1> USE DEF claim, loop, panel, report, history
<1>1. CASE Prompt
  BY <1>1 DEF Prompt, TypeOK, Stage
<1>2. ASSUME NEW n \in 1..2, NEW cited \in [1..n -> Elements],
             NEW own \in 1..Samples, NEW total \in 1..Samples, NEW words \in MentionChoices,
             Materialise(cited, own, total, words)
      PROVE  TypeOK'
  BY <1>2, MaterialiseTyped
<1>3. CASE SaveClaim
  BY <1>3 DEF SaveClaim, TypeOK, Stage
<1>4. CASE Finish
  BY <1>4 DEF Finish, TypeOK, Stage
<1>5. CASE UNCHANGED vars
  BY <1>5 DEF vars, TypeOK
<1>6. QED
  BY <1>1, <1>2, <1>3, <1>4, <1>5, GateTyped, AdviseTyped, CiteTyped, ReextractTyped
     DEF Next, Classify

-----------------------------------------------------------------------------
(***************************************************************************)
(* The invariant, one part after the other.                                *)
(***************************************************************************)

(* What follows the classifier's answer works on the claim as it is.       *)
Later == SaveClaim \/ Gate \/ Advise \/ Cite \/ Finish

LEMMA LaterKeeps ==
  ASSUME Later
  PROVE  /\ UNCHANGED <<element, claim, touched>>
         /\ pc \notin {"idle", "classify"} /\ pc' \notin {"idle", "classify"}
<1> USE DEF claim, loop, panel, report, history
<1>1. CASE SaveClaim
  BY <1>1 DEF SaveClaim
<1>2. CASE Gate
  BY <1>2 DEF Gate, SpanExistence, VerbatimRead, VerbatimCompare, Iterate, Entailment,
              SelfConsistency
<1>3. CASE Advise
  BY <1>3 DEF Advise, GroundEntities, Refute, EndPanel, RefetchSource, ReadGraph, GroundInGraph
<1>4. CASE Cite \/ Finish
  BY <1>4 DEF Cite, Finish
<1>5. QED
  BY <1>1, <1>2, <1>3, <1>4 DEF Later

(* The steps there are.                                                    *)
LEMMA Steps ==
  ASSUME [Next]_vars
  PROVE  \/ Prompt
         \/ \E n \in 1..2 : \E cited \in [1..n -> Elements] :
              \E own, total \in 1..Samples, words \in MentionChoices :
                Materialise(cited, own, total, words)
         \/ Later
         \/ \E d \in Documents, S \in SUBSET Elements :
              \E new \in [S -> Texts] : Reextract(d, new)
         \/ UNCHANGED vars
  BY DEF Next, Classify, Later

(* An extraction in between only overwrites: what it leaves alone is       *)
(* counted as untouched, and touched elements stay touched.                *)
LEMMA ReextractTouches ==
  ASSUME TypeOK, NEW d \in Documents, NEW S \in SUBSET Elements, NEW new \in [S -> Texts],
         Reextract(d, new)
  PROVE  /\ UNCHANGED <<pc, claim, loop, panel, report, graph, citation, silent>>
         /\ touched \subseteq touched'
         /\ \A e \in Elements : e \notin touched' => element'[e] = element[e]
  BY DEF Reextract, TypeOK

LEMMA SpanInductive ==
  ASSUME TypeOK, SpanInv, [Next]_vars
  PROVE  SpanInv'
<1> USE DEF claim
<1>1. CASE Prompt
  BY <1>1 DEF Prompt, SpanInv
<1>2. ASSUME NEW n \in 1..2, NEW cited \in [1..n -> Elements],
             NEW own \in 1..Samples, NEW total \in 1..Samples, NEW words \in MentionChoices,
             Materialise(cited, own, total, words)
      PROVE  SpanInv'
  <2> DEFINE known == Kept(cited, {e \in Elements : element[e] # Absent})
  <2>1. known \in Seq(Elements) /\ \A i \in DOMAIN known : element[known[i]] # Absent
    BY KnownStored
  <2> HIDE DEF known
  <2>2. /\ pc = "classify" /\ UNCHANGED <<element, prompt, touched>>
        /\ spans' = [i \in DOMAIN known |-> [element |-> known[i], end |-> Len(element[known[i]])]]
    BY <1>2 DEF Materialise, known, history
  <2>3. \A e \in Elements : e \notin touched => element[e] = prompt[e]
    BY <2>2 DEF SpanInv
  <2>4. ASSUME NEW i \in Indices', spans'[i].element \notin touched
        PROVE  /\ prompt[spans'[i].element] # Absent
               /\ spans'[i].end = Len(prompt[spans'[i].element])
    <3>1. i \in DOMAIN known /\ spans'[i].element = known[i] /\ spans'[i].end = Len(element[known[i]])
      BY <2>2, <2>4 DEF Indices
    <3>2. known[i] \in Elements
      BY <2>1, <3>1
    <3>3. QED
      BY <2>1, <2>3, <2>4, <3>1, <3>2
  <2>5. QED
    BY <2>2, <2>3, <2>4 DEF SpanInv
<1>3. CASE Later
  BY <1>3, LaterKeeps DEF SpanInv, Indices
<1>4. ASSUME NEW d \in Documents, NEW S \in SUBSET Elements, NEW new \in [S -> Texts],
             Reextract(d, new)
      PROVE  SpanInv'
  BY <1>4, ReextractTouches DEF SpanInv, Indices
<1>5. CASE UNCHANGED vars
  BY <1>5 DEF vars, SpanInv, Indices, history
<1>6. QED
  BY <1>1, <1>2, <1>3, <1>4, <1>5, Steps

LEMMA StageInductive ==
  ASSUME TypeOK, StageInv, [Next]_vars
  PROVE  StageInv'
<1> USE DEF claim, loop, panel, report, history, Gating, Reported, Looping
<1>0. k \in Nat /\ Len(spans) \in Nat /\ (spans # <<>> => Len(spans) > 0)
  BY DEF TypeOK
<1>1. CASE Prompt
  BY <1>1 DEF Prompt, StageInv
<1>2. ASSUME NEW n \in 1..2, NEW cited \in [1..n -> Elements],
             NEW own \in 1..Samples, NEW total \in 1..Samples, NEW words \in MentionChoices,
             Materialise(cited, own, total, words)
      PROVE  StageInv'
  <2> DEFINE known == Kept(cited, {e \in Elements : element[e] # Absent})
  <2>1. known \in Seq(Elements)
    BY KnownStored
  <2> HIDE DEF known
  <2>2. /\ pc = "classify" /\ UNCHANGED <<k, gates, status, citation>>
        /\ spans' = [i \in DOMAIN known |-> [element |-> known[i], end |-> Len(element[known[i]])]]
        /\ pc' = IF known = <<>> THEN "failed" ELSE "save_claim"
    BY <1>2 DEF Materialise, known
  <2>3. known # <<>> => DOMAIN spans' # {}
    BY <2>1, <2>2
  <2>4. pc' = "save_claim" => spans' # <<>>
    BY <2>2, <2>3
  <2>5. QED
    BY <2>2, <2>4 DEF StageInv
<1>3. CASE SaveClaim
  BY <1>0, <1>3 DEF SaveClaim, StageInv
<1>4. CASE SpanExistence
  <2> DEFINE ok == LET text == element[spans[k].element]
                   IN  Resolves(text, spans[k]) /\ Slice(text, spans[k]) # <<>>
  <2>1. Iterate("span_existence", "span_existence", "verbatim_match", ok) /\ ok \in BOOLEAN
    BY <1>4 DEF SpanExistence
  <2> HIDE DEF ok
  <2>2. pc = "span_existence" /\ UNCHANGED <<spans, status, citation>>
    BY <1>4 DEF SpanExistence
  <2>3. CASE k < Len(spans)
    BY <1>0, <2>1, <2>2, <2>3, AnotherRound DEF StageInv
  <2>4. CASE ~(k < Len(spans))
    <3>1. k' = 1 /\ pc' = "verbatim_match" /\ DOMAIN gates' = DOMAIN gates \cup {"span_existence"}
      BY <2>1, <2>4, LastRound DEF Gates, DeterministicGates
    <3>2. QED
      BY <1>0, <2>2, <3>1 DEF StageInv
  <2>5. QED
    BY <2>3, <2>4
<1>5. CASE VerbatimRead
  BY <1>5 DEF VerbatimRead, StageInv
<1>6. CASE VerbatimCompare
  <2> DEFINE ok == LET text == element[spans[k].element]
                   IN  /\ Resolves(first, spans[k]) /\ Resolves(text, spans[k])
                       /\ Slice(first, spans[k]) = Slice(text, spans[k])
  <2>1. Iterate("verbatim_match", "verbatim_match", "entailment", ok) /\ ok \in BOOLEAN
    BY <1>6 DEF VerbatimCompare
  <2> HIDE DEF ok
  <2>2. pc = "reread" /\ UNCHANGED <<spans, status, citation>>
    BY <1>6 DEF VerbatimCompare
  <2>3. CASE k < Len(spans)
    BY <1>0, <2>1, <2>2, <2>3, AnotherRound DEF StageInv
  <2>4. CASE ~(k < Len(spans))
    <3>1. k' = 1 /\ pc' = "entailment" /\ DOMAIN gates' = DOMAIN gates \cup {"verbatim_match"}
      BY <2>1, <2>4, LastRound DEF Gates, DeterministicGates
    <3>2. QED
      BY <1>0, <2>2, <3>1 DEF StageInv, DeterministicGates
  <2>5. QED
    BY <2>3, <2>4
<1>7. ASSUME NEW nli \in Answer, NEW llm \in Answer, Entailment(nli, llm) PROVE StageInv'
  <2>1. DOMAIN gates' = DOMAIN gates \cup {"entailment"}
    BY <1>7 DEF Entailment, WithGate
  <2>2. QED
    BY <1>7, <2>1 DEF Entailment, StageInv
<1>8. CASE SelfConsistency
  <2>1. DOMAIN gates' = DOMAIN gates \cup {"self_consistency"}
    BY <1>8 DEF SelfConsistency, WithGate
  <2>2. status' # "none"
    BY <1>8 DEF SelfConsistency, VerifyStatus
  <2>3. QED
    BY <1>8, <2>1, <2>2 DEF SelfConsistency, StageInv, Gates, ModelGates
<1>9. CASE Advise
  <2>1. CASE GroundEntities \/ RefetchSource \/ ReadGraph
    BY <2>1 DEF GroundEntities, RefetchSource, ReadGraph, StageInv
  <2>2. ASSUME NEW lens \in Lenses, NEW verdict \in {"refute", "survive", "raised"},
               Refute(lens, verdict)
        PROVE  StageInv'
    BY <2>2 DEF Refute, StageInv
  <2>3. CASE EndPanel \/ GroundInGraph
    BY <2>3 DEF EndPanel, GroundInGraph, Demote, StageInv
  <2>4. QED
    BY <1>9, <2>1, <2>2, <2>3 DEF Advise
<1>10. CASE Cite \/ Finish
  BY <1>10 DEF Cite, Finish, StageInv
<1>11. ASSUME NEW d \in Documents, NEW S \in SUBSET Elements, NEW new \in [S -> Texts],
             Reextract(d, new)
      PROVE  StageInv'
  BY <1>11, ReextractTouches DEF StageInv
<1>12. CASE UNCHANGED vars
  BY <1>12 DEF vars, StageInv
<1>13. QED
  BY <1>1, <1>2, <1>3, <1>4, <1>5, <1>6, <1>7, <1>8, <1>9, <1>10, <1>11, <1>12, Steps
     DEF Later, Gate

(* Without a cause the span the loop is at holds all of its text, as the   *)
(* prompt had it.                                                          *)
LEMMA WholeText ==
  ASSUME TypeOK, SpanInv, StageInv, ~Cause, pc \in Looping
  PROVE  /\ k \in Indices /\ spans[k].element \in Elements
         /\ spans[k].element \notin touched
         /\ element[spans[k].element] = prompt[spans[k].element]
         /\ Resolves(element[spans[k].element], spans[k])
         /\ Slice(element[spans[k].element], spans[k]) # <<>>
<1>1. k \in Indices /\ spans[k] \in Span
  BY DEF TypeOK, StageInv, Indices
<1>2. spans[k].element \notin touched /\ spans[k].end # 0 /\ spans[k].element \in Elements
  BY <1>1 DEF Cause, Span
<1> DEFINE text == element[spans[k].element]
<1>3. text = prompt[spans[k].element] /\ text # Absent /\ spans[k].end = Len(text)
  BY <1>1, <1>2 DEF SpanInv, Looping
<1>4. text \in Texts
  BY <1>2, <1>3 DEF TypeOK
<1>5. text \in Seq(Words) /\ Slice(text, spans[k]) = text
  BY <1>1, <1>3, <1>4, SliceTyped, TextAssumption
<1>6. text # <<>>
  BY <1>2, <1>3, <1>5
<1>7. Resolves(text, spans[k])
  BY <1>3, <1>5 DEF Resolves
<1>8. QED
  BY <1>1, <1>2, <1>3, <1>5, <1>6, <1>7

(* A problem that a round of a deterministic gate's loop finds has a       *)
(* cause, whether the loop goes on or records the gate's result.           *)
LEMMA RoundHasCause ==
  ASSUME TypeOK, GateInv, NEW gate \in DeterministicGates, gate \notin DOMAIN gates,
         NEW ok \in BOOLEAN, ok = FALSE => Cause,
         UNCHANGED <<spans, touched, status>>, pc' # "reread",
         \/ sound' = (sound /\ ok) /\ pc' \in Looping /\ gates' = gates
         \/ /\ sound' = TRUE
            /\ DOMAIN gates' = DOMAIN gates \cup {gate}
            /\ gates'[gate] <=> sound /\ ok
            /\ \A g \in DOMAIN gates \ {gate} : gates'[g] = gates[g]
  PROVE  GateInv'
<1>0. /\ (~sound => Cause) /\ sound \in BOOLEAN
      /\ \A g \in DeterministicGates \cap DOMAIN gates : ~gates[g] => Cause
      /\ status = "rejected" => Cause
  BY DEF GateInv, TypeOK
<1>1. Cause' = Cause
  BY DEF Cause, Indices
<1>2. CASE sound' = (sound /\ ok) /\ pc' \in Looping /\ gates' = gates
  BY <1>0, <1>1, <1>2 DEF GateInv
<1>3. CASE /\ sound' = TRUE
           /\ DOMAIN gates' = DOMAIN gates \cup {gate}
           /\ gates'[gate] <=> sound /\ ok
           /\ \A g \in DOMAIN gates \ {gate} : gates'[g] = gates[g]
  <2>1. \A g \in DeterministicGates \cap DOMAIN gates' : ~gates'[g] => Cause
    BY <1>0, <1>3
  <2>2. QED
    BY <1>0, <1>1, <1>3, <2>1 DEF GateInv
<1>4. QED
  BY <1>2, <1>3

LEMMA GateInductive ==
  ASSUME TypeOK, SpanInv, StageInv, GateInv, [Next]_vars
  PROVE  GateInv'
<1> USE DEF claim, loop, panel, report, history
<1>1. CASE Prompt
  BY <1>1 DEF Prompt, GateInv, StageInv, Looping, Reported
<1>2. ASSUME NEW n \in 1..2, NEW cited \in [1..n -> Elements],
             NEW own \in 1..Samples, NEW total \in 1..Samples, NEW words \in MentionChoices,
             Materialise(cited, own, total, words)
      PROVE  GateInv'
  <2>1. pc = "classify" /\ UNCHANGED <<sound, gates, status>> /\ pc' \in {"failed", "save_claim"}
    BY <1>2 DEF Materialise
  <2>2. QED
    BY <2>1 DEF GateInv, StageInv, Looping, Reported
<1>3. CASE SaveClaim \/ Advise \/ Cite \/ Finish
  <2>1. UNCHANGED <<spans, touched, gates, sound>> /\ pc \notin Looping /\ pc' # "reread"
    BY <1>3 DEF SaveClaim, Advise, GroundEntities, Refute, EndPanel, RefetchSource, ReadGraph,
                GroundInGraph, Cite, Finish, Looping
  <2>2. status' = "rejected" => status = "rejected"
    BY <1>3 DEF SaveClaim, Advise, GroundEntities, Refute, EndPanel, RefetchSource, ReadGraph,
                GroundInGraph, Cite, Finish, Demote
  <2>3. QED
    BY <2>1, <2>2 DEF GateInv, Cause, Indices
<1>4. CASE SpanExistence
  <2> DEFINE ok == LET text == element[spans[k].element]
                   IN  Resolves(text, spans[k]) /\ Slice(text, spans[k]) # <<>>
  <2>1. /\ Iterate("span_existence", "span_existence", "verbatim_match", ok) /\ ok \in BOOLEAN
        /\ UNCHANGED <<spans, touched, status>> /\ pc = "span_existence"
    BY <1>4 DEF SpanExistence
  <2>2. ~ok => Cause
    BY <2>1, WholeText DEF Looping
  <2> HIDE DEF ok
  <2>3. "span_existence" \notin DOMAIN gates
    BY <2>1 DEF StageInv
  <2>4. CASE k < Len(spans)
    <3>1. sound' = (sound /\ ok) /\ pc' = "span_existence" /\ gates' = gates
      BY <2>1, <2>4, AnotherRound
    <3>2. QED
      BY <2>1, <2>2, <2>3, <3>1, RoundHasCause DEF Looping, DeterministicGates
  <2>5. CASE ~(k < Len(spans))
    <3>1. /\ sound' = TRUE /\ pc' = "verbatim_match"
          /\ DOMAIN gates' = DOMAIN gates \cup {"span_existence"}
          /\ gates'["span_existence"] <=> sound /\ ok
          /\ \A g \in DOMAIN gates \ {"span_existence"} : gates'[g] = gates[g]
      BY <2>1, <2>5, LastRound DEF Gates, DeterministicGates
    <3>2. QED
      BY <2>1, <2>2, <2>3, <3>1, RoundHasCause DEF Looping, DeterministicGates
  <2>6. QED
    BY <2>4, <2>5
<1>5. CASE VerbatimRead
  <2>1. /\ UNCHANGED <<spans, touched, sound, gates, status, k, prompt>>
        /\ pc = "verbatim_match" /\ pc' = "reread" /\ first' = element[spans[k].element]
    BY <1>5 DEF VerbatimRead
  <2>2. spans[k].element \in Elements
    <3>1. spans[k] \in Span
      BY <2>1 DEF TypeOK, StageInv, Looping
    <3>2. QED
      BY <3>1 DEF Span
  <2>3. spans[k].element \notin touched => first' = prompt[spans[k].element]
    BY <2>1, <2>2 DEF SpanInv
  <2>4. QED
    BY <2>1, <2>3 DEF GateInv, Cause, Indices, Looping
<1>6. CASE VerbatimCompare
  <2> DEFINE ok == LET text == element[spans[k].element]
                   IN  /\ Resolves(first, spans[k]) /\ Resolves(text, spans[k])
                       /\ Slice(first, spans[k]) = Slice(text, spans[k])
  <2>1. /\ Iterate("verbatim_match", "verbatim_match", "entailment", ok) /\ ok \in BOOLEAN
        /\ UNCHANGED <<spans, touched, status>> /\ pc = "reread"
    BY <1>6 DEF VerbatimCompare
  <2>2. ~Cause => first = element[spans[k].element]
    BY <2>1, WholeText DEF Looping, GateInv
  <2>3. ~ok => Cause
    BY <2>1, <2>2, WholeText DEF Looping
  <2> HIDE DEF ok
  <2>4. "verbatim_match" \notin DOMAIN gates
    BY <2>1 DEF StageInv
  <2>5. CASE k < Len(spans)
    <3>1. sound' = (sound /\ ok) /\ pc' = "verbatim_match" /\ gates' = gates
      BY <2>1, <2>5, AnotherRound
    <3>2. QED
      BY <2>1, <2>3, <2>4, <3>1, RoundHasCause DEF Looping, DeterministicGates
  <2>6. CASE ~(k < Len(spans))
    <3>1. /\ sound' = TRUE /\ pc' = "entailment"
          /\ DOMAIN gates' = DOMAIN gates \cup {"verbatim_match"}
          /\ gates'["verbatim_match"] <=> sound /\ ok
          /\ \A g \in DOMAIN gates \ {"verbatim_match"} : gates'[g] = gates[g]
      BY <2>1, <2>6, LastRound DEF Gates, DeterministicGates
    <3>2. QED
      BY <2>1, <2>3, <2>4, <3>1, RoundHasCause DEF Looping, DeterministicGates
  <2>7. QED
    BY <2>5, <2>6
<1>7. ASSUME NEW nli \in Answer, NEW llm \in Answer, Entailment(nli, llm) PROVE GateInv'
  <2>1. \A g \in DOMAIN gates \ {"entailment"} : gates'[g] = gates[g]
    BY <1>7 DEF Entailment, WithGate
  <2>2. DOMAIN gates' = DOMAIN gates \cup {"entailment"}
    BY <1>7 DEF Entailment, WithGate
  <2>3. \A g \in DeterministicGates \cap DOMAIN gates' : g \in DOMAIN gates /\ gates'[g] = gates[g]
    BY <2>1, <2>2 DEF DeterministicGates
  <2>4. UNCHANGED <<spans, touched, sound, status>> /\ pc = "entailment" /\ pc' = "self_consistency"
    BY <1>7 DEF Entailment
  <2>5. QED
    BY <2>3, <2>4 DEF GateInv, Cause, Indices, Looping
<1>8. CASE SelfConsistency
  <2>1. \A g \in DOMAIN gates \ {"self_consistency"} : gates'[g] = gates[g]
    BY <1>8 DEF SelfConsistency, WithGate
  <2>2. DOMAIN gates' = DOMAIN gates \cup {"self_consistency"}
    BY <1>8 DEF SelfConsistency, WithGate
  <2>3. \A g \in DeterministicGates : g \in DOMAIN gates /\ gates'[g] = gates[g]
    BY <1>8, <2>1 DEF DeterministicGates, SelfConsistency, StageInv
  <2>4. /\ UNCHANGED <<spans, touched, sound>> /\ pc = "self_consistency" /\ pc' = "grounding"
        /\ status' = VerifyStatus(gates')
    BY <1>8 DEF SelfConsistency
  <2>5. status' = "rejected" => \E g \in DeterministicGates : ~gates[g]
    BY <2>3, <2>4 DEF VerifyStatus, DeterministicGates
  <2>6. QED
    BY <2>2, <2>3, <2>4, <2>5 DEF GateInv, Cause, Indices, Looping
<1>9. ASSUME NEW d \in Documents, NEW S \in SUBSET Elements, NEW new \in [S -> Texts],
             Reextract(d, new)
      PROVE  GateInv'
  <2>1. /\ UNCHANGED <<pc, prompt, spans, k, sound, first, gates, status>>
        /\ touched \subseteq touched'
    BY <1>9, ReextractTouches
  <2>2. Cause => Cause'
    BY <2>1 DEF Cause, Indices
  <2>3. QED
    BY <2>1, <2>2 DEF GateInv
<1>10. CASE UNCHANGED vars
  BY <1>10 DEF vars, GateInv, Cause, Indices
<1>11. QED
  BY <1>1, <1>2, <1>3, <1>4, <1>5, <1>6, <1>7, <1>8, <1>9, <1>10, Steps DEF Later, Gate

LEMMA SilenceInductive ==
  ASSUME TypeOK, StageInv, SilenceInv, [Next]_vars
  PROVE  SilenceInv'
<1> USE DEF claim, loop, panel, report, history
<1> DEFINE Answered == {"nli", "second_llm"} \cap silent = {}
           Failed   == "entailment" \in DOMAIN gates /\ ~gates["entailment"]
<1>0. silent \cap Lenses \subseteq refuted /\ (Answered \/ Failed)
  BY DEF SilenceInv
<1>1. ASSUME pc \notin Reported, pc' \notin Reported, UNCHANGED <<refuted, silent, status>>,
             Failed => Failed'
      PROVE  SilenceInv'
  <2>1. status' = "none"
    BY <1>1 DEF StageInv
  <2>2. Answered' \/ Failed'
    BY <1>0, <1>1
  <2>3. QED
    BY <1>0, <1>1, <2>1, <2>2 DEF SilenceInv
<1>2. CASE \/ Prompt \/ SaveClaim \/ VerbatimRead
           \/ \E n \in 1..2 : \E cited \in [1..n -> Elements] :
                \E own, total \in 1..Samples, words \in MentionChoices :
                  Materialise(cited, own, total, words)
  <2>1. /\ pc \notin Reported /\ pc' \notin Reported
        /\ UNCHANGED <<refuted, silent, status, gates>>
    BY <1>2 DEF Prompt, SaveClaim, VerbatimRead, Materialise, Reported
  <2>2. QED
    BY <1>1, <2>1
<1>3. CASE SpanExistence \/ VerbatimCompare
  <2>1. /\ pc \in Looping /\ pc \notin Reported /\ pc' \notin Reported
        /\ UNCHANGED <<refuted, silent, status>>
    BY <1>3 DEF SpanExistence, VerbatimCompare, Iterate, Reported, Looping
  <2>2. ~Failed
    BY <2>1 DEF StageInv, DeterministicGates, Looping
  <2>3. QED
    BY <1>1, <2>1, <2>2
<1>4. ASSUME NEW nli \in Answer, NEW llm \in Answer, Entailment(nli, llm) PROVE SilenceInv'
  <2> DEFINE passed == element[Premise] # Absent /\ nli = "yes" /\ llm = "yes"
  <2>1. /\ gates' = WithGate("entailment", passed) /\ passed \in BOOLEAN
        /\ pc = "entailment" /\ pc' = "self_consistency" /\ UNCHANGED <<refuted, status>>
    BY <1>4 DEF Entailment
  <2>2. "entailment" \in DOMAIN gates' /\ gates'["entailment"] = passed
    <3> HIDE DEF passed
    <3>1. QED
      BY <2>1, WithGateTyped DEF Gates, ModelGates
  <2>3. Answered
    BY <1>0, <2>1 DEF StageInv, DeterministicGates
  <2>4. silent' = silent \/ ~passed
    BY <1>4 DEF Entailment
  <2>5. silent' \cap Lenses = silent \cap Lenses
    BY <1>4, LensAssumption DEF Entailment
  <2>6. Answered' \/ Failed'
    BY <2>2, <2>3, <2>4
  <2>7. status' = "none"
    BY <2>1 DEF StageInv, Reported
  <2>8. QED
    BY <1>0, <2>1, <2>5, <2>6, <2>7 DEF SilenceInv
<1>5. CASE SelfConsistency
  <2>1. /\ \A g \in DOMAIN gates \ {"self_consistency"} : gates'[g] = gates[g]
        /\ DOMAIN gates' = DOMAIN gates \cup {"self_consistency"}
    BY <1>5 DEF SelfConsistency, WithGate
  <2>2. /\ pc = "self_consistency" /\ pc' = "grounding" /\ status' = VerifyStatus(gates')
        /\ UNCHANGED <<refuted, silent>>
    BY <1>5 DEF SelfConsistency
  <2>3. Answered' \/ Failed'
    BY <1>0, <2>1, <2>2
  <2>4. status' = "verified" => \A g \in Gates : gates'[g]
    BY <2>2 DEF VerifyStatus, Gates, DeterministicGates, ModelGates
  <2>5. QED
    BY <1>0, <2>2, <2>3, <2>4 DEF SilenceInv
<1>6. ASSUME UNCHANGED gates, status' = "verified" => status = "verified",
             Answered => Answered', silent' \cap Lenses \subseteq refuted',
             pc' \in {"refetch", "kg", "export", "done"} /\ status' = "verified" /\ Lenses # {}
               => ~MajorityRefutes'
      PROVE  SilenceInv'
  <2>1. status' = "verified" => \A g \in Gates : gates'[g]
    BY <1>6 DEF SilenceInv
  <2>2. QED
    BY <1>0, <1>6, <2>1 DEF SilenceInv
<1>7. CASE GroundEntities
  BY <1>0, <1>6, <1>7 DEF GroundEntities
<1>8. ASSUME NEW lens \in Lenses, NEW verdict \in {"refute", "survive", "raised"},
             Refute(lens, verdict)
      PROVE  SilenceInv'
  <2>1. UNCHANGED <<pc, gates, status>> /\ pc = "panel"
    BY <1>8 DEF Refute
  <2>2. silent' \cap Lenses \subseteq refuted'
    BY <1>0, <1>8 DEF Refute
  <2>3. Answered => Answered'
    BY <1>8, LensAssumption DEF Refute
  <2>4. QED
    BY <1>6, <2>1, <2>2, <2>3
<1>9. CASE EndPanel
  <2>1. UNCHANGED <<gates, refuted, silent>> /\ status' = Demote(status, MajorityRefutes)
    BY <1>9 DEF EndPanel
  <2>2. status' = "verified" => status = "verified" /\ ~MajorityRefutes
    BY <2>1 DEF Demote
  <2>3. MajorityRefutes' = MajorityRefutes
    BY <2>1 DEF MajorityRefutes
  <2>4. QED
    BY <1>0, <1>6, <2>1, <2>2, <2>3
<1>10. CASE RefetchSource \/ ReadGraph \/ GroundInGraph \/ Cite \/ Finish
  <2>1. UNCHANGED <<gates, refuted, silent>> /\ pc \in {"refetch", "kg", "export"}
    BY <1>10 DEF RefetchSource, ReadGraph, GroundInGraph, Cite, Finish
  <2>2. status' = "verified" => status = "verified"
    BY <1>10 DEF RefetchSource, ReadGraph, GroundInGraph, Cite, Finish, Demote
  <2>3. MajorityRefutes' = MajorityRefutes
    BY <2>1 DEF MajorityRefutes
  <2>4. status = "verified" /\ Lenses # {} => ~MajorityRefutes
    BY <2>1 DEF SilenceInv
  <2>5. QED
    BY <1>0, <1>6, <2>1, <2>2, <2>3, <2>4
<1>11. CASE \/ UNCHANGED vars
            \/ \E d \in Documents, S \in SUBSET Elements :
                 \E new \in [S -> Texts] : Reextract(d, new)
  <2>1. UNCHANGED <<pc, gates, refuted, silent, status>>
    BY <1>11 DEF vars, Reextract
  <2>2. QED
    BY <2>1 DEF SilenceInv, MajorityRefutes
<1>12. QED
  BY <1>2, <1>3, <1>4, <1>5, <1>7, <1>8, <1>9, <1>10, <1>11, Steps DEF Later, Gate, Advise

(* The citation of the span the export is at.                              *)
LEMMA CiteWhole ==
  ASSUME TypeOK, SpanInv, Cite, spans[k].element \notin touched
  PROVE  citation' = Append(citation, prompt[spans[k].element])
<1> DEFINE text == element[spans[k].element]
<1>1. k \in Indices /\ spans[k] \in Span /\ pc = "export"
  BY DEF Cite, TypeOK, Indices
<1>2. spans[k].element \in Elements
  BY <1>1 DEF Span
<1>3. text = prompt[spans[k].element] /\ text # Absent /\ spans[k].end = Len(text)
  BY <1>1, <1>2 DEF SpanInv
<1>4. text \in Texts
  BY <1>2, <1>3 DEF TypeOK
<1>5. Snippet(text, spans[k]) = text
  BY <1>1, <1>3, <1>4, SliceTyped DEF Snippet
<1>6. QED
  BY <1>3, <1>5 DEF Cite

LEMMA CitedInductive ==
  ASSUME TypeOK, SpanInv, StageInv, CitedInv, [Next]_vars
  PROVE  CitedInv'
<1> USE DEF claim, loop, panel, report, history
<1>0. k \in Nat \ {0} /\ Len(spans) \in Nat /\ Len(citation) \in Nat
  BY DEF TypeOK
<1>1. ASSUME pc' \notin {"export", "done"}, pc \notin {"export", "done"}, UNCHANGED citation
      PROVE  CitedInv'
  BY <1>1 DEF CitedInv, StageInv
<1>2. CASE \/ Prompt \/ SaveClaim \/ Gate \/ GroundEntities
           \/ \E n \in 1..2 : \E cited \in [1..n -> Elements] :
                \E own, total \in 1..Samples, words \in MentionChoices :
                  Materialise(cited, own, total, words)
  BY <1>1, <1>2 DEF Prompt, SaveClaim, Gate, SpanExistence, VerbatimRead, VerbatimCompare, Iterate,
                    Entailment, SelfConsistency, GroundEntities, Materialise
<1>3. CASE \E lens \in Lenses, verdict \in {"refute", "survive", "raised"} : Refute(lens, verdict)
  BY <1>1, <1>3 DEF Refute
<1>4. CASE EndPanel \/ ReadGraph
  BY <1>1, <1>4 DEF EndPanel, ReadGraph
<1>5. CASE RefetchSource \/ GroundInGraph
  <2>1. pc \in {"refetch", "kg"} /\ citation = <<>> /\ UNCHANGED citation
    BY <1>5 DEF RefetchSource, GroundInGraph, StageInv
  <2>2. pc' = "kg" \/ (pc' = "export" /\ k' = 1)
    BY <1>5 DEF RefetchSource, GroundInGraph, StageInv, Looping
  <2>3. Len(spans') \in Nat
    BY <1>0, <1>5 DEF RefetchSource, GroundInGraph
  <2>4. QED
    BY <2>1, <2>2, <2>3 DEF CitedInv
<1>6. CASE Cite
  <2>1. /\ pc = "export" /\ pc' = "export" /\ k <= Len(spans) /\ k' = k + 1
        /\ UNCHANGED <<spans, touched, prompt>>
    BY <1>6 DEF Cite
  <2>2. Len(citation) = k - 1
    BY <2>1 DEF CitedInv
  <2>3. PICK snippet : citation' = Append(citation, snippet)
    BY <1>6 DEF Cite
  <2>4. /\ Len(citation') = k /\ DOMAIN citation' = 1..k
        /\ \A i \in 1..(k - 1) : i \in DOMAIN citation /\ citation'[i] = citation[i]
    BY <1>0, <2>2, <2>3 DEF TypeOK
  <2>5. spans[k].element \notin touched => citation'[k] = prompt[spans[k].element]
    BY <1>0, <1>6, <2>2, CiteWhole DEF TypeOK
  <2>6. ASSUME NEW i \in DOMAIN citation', spans'[i].element \notin touched'
        PROVE  citation'[i] = prompt'[spans'[i].element]
    <3>1. CASE i = k
      BY <2>1, <2>5, <2>6, <3>1
    <3>2. CASE i # k
      <4>1. i \in 1..(k - 1)
        BY <1>0, <2>4, <2>6, <3>2
      <4>2. QED
        BY <2>1, <2>4, <2>6, <4>1 DEF CitedInv
    <3>3. QED
      BY <3>1, <3>2
  <2>7. QED
    BY <1>0, <2>1, <2>4, <2>6 DEF CitedInv
<1>7. CASE Finish
  BY <1>0, <1>7 DEF Finish, CitedInv
<1>8. ASSUME NEW d \in Documents, NEW S \in SUBSET Elements, NEW new \in [S -> Texts],
             Reextract(d, new)
      PROVE  CitedInv'
  BY <1>8, ReextractTouches DEF CitedInv
<1>9. CASE UNCHANGED vars
  BY <1>9 DEF vars, CitedInv
<1>10. QED
  BY <1>2, <1>3, <1>4, <1>5, <1>6, <1>7, <1>8, <1>9, Steps DEF Later, Advise

-----------------------------------------------------------------------------
(***************************************************************************)
(* The theorems.                                                           *)
(***************************************************************************)

LEMMA InitInvariant == Init => VerificationInv
<1> SUFFICES ASSUME Init PROVE VerificationInv
  OBVIOUS
<1>1. SpanInv /\ GateInv /\ SilenceInv /\ CitedInv
  BY DEF Init, SpanInv, GateInv, SilenceInv, CitedInv
<1>2. StageInv
  BY DEF Init, StageInv, Gating, Reported, Looping
<1>3. QED
  BY <1>1, <1>2, InitTyped DEF VerificationInv

LEMMA NextInvariant == VerificationInv /\ [Next]_vars => VerificationInv'
  BY NextTyped, SpanInductive, StageInductive, GateInductive, SilenceInductive, CitedInductive
     DEF VerificationInv

(* What happens to a claim, its spans, verdict and citation while texts    *)
(* are overwritten (VerificationService, materialise_citations).           *)
THEOREM VerificationInvariant == Spec => []VerificationInv
  BY InitInvariant, NextInvariant, PTL DEF Spec

(* Every variable of Verification keeps its type (VerificationService).    *)
THEOREM TypeCorrect == Spec => []TypeOK
  BY VerificationInvariant, PTL DEF VerificationInv

(* The deterministic gates reject only a claim that cites an element       *)
(* overwritten since the prompt, or an empty one.                          *)
THEOREM RejectionHasCause == Spec => []RejectedNeedsCause
<1>1. VerificationInv => RejectedNeedsCause
  BY DEF VerificationInv, GateInv, RejectedNeedsCause, Cause, Indices
<1>2. QED
  BY <1>1, VerificationInvariant, PTL

(* A backend or lens that raises never helps a claim to be verified.       *)
THEOREM SilenceIsNoConsent == Spec => []SilenceNeverVerifies
<1>1. ASSUME VerificationInv, status = "verified", pc \in {"export", "done"}
      PROVE  /\ {"nli", "second_llm"} \cap silent = {}
             /\ Lenses # {} =>
                  Cardinality(refuted \cup (silent \cap Lenses)) < (Cardinality(Lenses) \div 2) + 1
  <2>1. \A g \in Gates : gates[g]
    BY <1>1 DEF VerificationInv, SilenceInv
  <2>2. {"nli", "second_llm"} \cap silent = {}
    BY <1>1, <2>1 DEF VerificationInv, SilenceInv, Gates, ModelGates
  <2>3. refuted \cup (silent \cap Lenses) = refuted
    BY <1>1 DEF VerificationInv, SilenceInv
  <2>4. Cardinality(Lenses) \in Nat /\ Cardinality(refuted) \in Nat
    <3>1. IsFiniteSet(Lenses) /\ refuted \subseteq Lenses
      BY <1>1, LensAssumption DEF VerificationInv, TypeOK
    <3>2. IsFiniteSet(refuted)
      BY <3>1, FS_Subset
    <3>3. QED
      BY <3>1, <3>2, FS_CardinalityType
  <2>5. Lenses # {} => ~(Cardinality(refuted) >= (Cardinality(Lenses) \div 2) + 1)
    BY <1>1 DEF VerificationInv, SilenceInv, MajorityRefutes
  <2>6. QED
    BY <2>2, <2>3, <2>4, <2>5
<1>2. VerificationInv => SilenceNeverVerifies
  BY <1>1 DEF SilenceNeverVerifies
<1>3. QED
  BY <1>2, VerificationInvariant, PTL

(* A verified claim exports what the classifier was shown, for each cited  *)
(* element nobody has overwritten since.                                   *)
THEOREM ExportIsFaithful == Spec => []UntouchedIsExported
<1>1. ASSUME VerificationInv, pc = "done", NEW i \in DOMAIN spans,
             spans[i].element \notin touched
      PROVE  citation[i] = prompt[spans[i].element]
  <2>1. Len(citation) = Len(spans)
    BY <1>1 DEF VerificationInv, CitedInv
  <2>2. i \in DOMAIN citation
    BY <1>1, <2>1 DEF VerificationInv, TypeOK
  <2>3. QED
    BY <1>1, <2>2 DEF VerificationInv, CitedInv
<1>2. VerificationInv => UntouchedIsExported
  BY <1>1 DEF UntouchedIsExported
<1>3. QED
  BY <1>2, VerificationInvariant, PTL

(* After the four gates the status can only go from verified to flagged.   *)
THEOREM StatusOnlyDemoted == Spec => DemoteOnly
<1>1. ASSUME VerificationInv, [Next]_vars, status # "none", status' # status
      PROVE  status = "verified" /\ status' = "flagged"
  <2> USE DEF claim, loop, panel, report, history
  <2>1. pc \in Reported
    BY <1>1 DEF VerificationInv, StageInv
  <2>2. CASE EndPanel \/ GroundInGraph
    BY <1>1, <2>2 DEF EndPanel, GroundInGraph, Demote
  <2>3. CASE GroundEntities \/ RefetchSource \/ ReadGraph \/ Cite \/ Finish \/ SaveClaim \/ Prompt
    BY <1>1, <2>3 DEF GroundEntities, RefetchSource, ReadGraph, Cite, Finish, SaveClaim, Prompt
  <2>4. CASE Gate
    BY <2>1, <2>4 DEF Gate, SpanExistence, VerbatimRead, VerbatimCompare, Entailment,
                      SelfConsistency, Reported
  <2>5. CASE \/ \E lens \in Lenses, verdict \in {"refute", "survive", "raised"} : Refute(lens, verdict)
             \/ \E d \in Documents, S \in SUBSET Elements :
                  \E new \in [S -> Texts] : Reextract(d, new)
             \/ UNCHANGED vars
    BY <1>1, <2>5 DEF Refute, Reextract, vars
  <2>6. CASE \E n \in 1..2 : \E cited \in [1..n -> Elements] :
               \E own, total \in 1..Samples, words \in MentionChoices :
                 Materialise(cited, own, total, words)
    BY <2>1, <2>6 DEF Materialise, Reported
  <2>7. QED
    BY <1>1, <2>2, <2>3, <2>4, <2>5, <2>6, Steps DEF Later, Advise
<1>2. VerificationInv /\ [Next]_vars =>
        [status # "none" /\ status' # status => status = "verified" /\ status' = "flagged"]_vars
  BY <1>1
<1>3. QED
  BY <1>2, VerificationInvariant, PTL DEF Spec, DemoteOnly
=============================================================================
