----------------------------- MODULE ReportProofs -----------------------------
(***************************************************************************)
(* What a run reports is right, for every value of the constants: its      *)
(* claims (Classification), its coverage statements (Coverage), its        *)
(* submission (Submission), the bands it recommends (Scoring) and where    *)
(* they are shown (Recommendations), and its measurement against the gold  *)
(* set (Evaluation).                                                       *)
(***************************************************************************)
EXTENDS Classification, Coverage, Submission, Scoring, Recommendations, Evaluation, FilterProofs,
        SequenceTheorems, FiniteSetTheorems

(* A subset and the rest of a finite set are counted apart.                *)
LEMMA CountApart ==
  ASSUME NEW S, IsFiniteSet(S), NEW T, T \subseteq S
  PROVE  /\ IsFiniteSet(T) /\ IsFiniteSet(S \ T)
         /\ Cardinality(S) \in Nat /\ Cardinality(T) \in Nat /\ Cardinality(S \ T) \in Nat
         /\ Cardinality(T) + Cardinality(S \ T) = Cardinality(S)
<1>1. IsFiniteSet(T) /\ IsFiniteSet(S \ T)
  BY FS_Subset
<1>2. T \cap (S \ T) = {} /\ T \cup (S \ T) = S
  OBVIOUS
<1>3. Cardinality(T \cup (S \ T)) = Cardinality(T) + Cardinality(S \ T) - Cardinality(T \cap (S \ T))
  BY <1>1, FS_Union
<1>4. Cardinality(T \cap (S \ T)) = 0
  BY <1>2, FS_EmptySet
<1>5. Cardinality(S) \in Nat /\ Cardinality(T) \in Nat /\ Cardinality(S \ T) \in Nat
  BY <1>1, FS_CardinalityType
<1>6. QED
  BY <1>1, <1>2, <1>3, <1>4, <1>5

(* The places of a list are finitely many, as many as it is long.          *)
LEMMA PlacesCount ==
  ASSUME NEW T, NEW s \in Seq(T)
  PROVE  IsFiniteSet(DOMAIN s) /\ Cardinality(DOMAIN s) = Len(s) /\ Len(s) \in Nat
<1>1. DOMAIN s = 1..Len(s) /\ Len(s) \in Nat
  OBVIOUS
<1>2. QED
  BY <1>1, FS_Interval

-----------------------------------------------------------------------------
(* Coverage                                                                *)

(* The variables of a coverage statement have their types.                 *)
THEOREM CoverageTyped == CoverageSpec => []CoverageTypeOK
<1>1. CoverageInit => CoverageTypeOK
  BY DEF CoverageInit, CoverageTypeOK
<1>2. CoverageTypeOK /\ [CoverageNext]_coverageVars => CoverageTypeOK'
  BY DEF CoverageTypeOK, CoverageNext, coverageVars, config, Degrade, Read, Retrieve, ReachSource,
         Verify, Withdraw
<1>3. QED
  BY <1>1, <1>2, PTL DEF CoverageSpec

(* The items of the gold set with a hit, and the others.                   *)
Recalled  == {i \in DOMAIN goldSet : GoldHit(goldSet[i])}
Forgotten ==
  {i \in DOMAIN goldSet : \A e \in hits : e \notin NamedIn[goldSet[i].doc] \cup QuotedIn[goldSet[i].text]}
Covered   == Expected \cap {TypeOf[d] : d \in read}

(* The row that coverage_node makes of what it asks about: what qualifies, *)
(* the recall, the switch and whether too little of the corpus is there.   *)
RowFrom(q, recall, on, low) ==
  IF q # {} THEN [state |-> "evidence_found", recall |-> recall, claims |-> q]
  ELSE IF recall = Unknown \/ (on /\ low)
         THEN [state |-> "insufficient_coverage", recall |-> Unknown, claims |-> {}]
         ELSE [state |-> "no_evidence_in_searched_corpus", recall |-> recall, claims |-> {}]

Low == 2 * Completeness.ratio[1] < Completeness.ratio[2]

LEMMA RowIs ==
  CoverageRow = IF enabled /\ manifest = BadManifest THEN FailedRow
                ELSE RowFrom(Qualifying, GoldRecall, enabled, Low)
<1> DEFINE base == Evaluate(GoldRecall)
           none == [state |-> "insufficient_coverage", recall |-> Unknown, claims |-> {}]
           absent == [state |-> "no_evidence_in_searched_corpus", recall |-> GoldRecall, claims |-> {}]
           found == [state |-> "evidence_found", recall |-> GoldRecall, claims |-> Qualifying]
<1>1. CoverageRow = IF enabled /\ manifest = BadManifest THEN FailedRow ELSE IF enabled THEN Enrich(base) ELSE base
  BY DEF CoverageRow
<1>2. base = IF Qualifying # {} THEN found ELSE IF GoldRecall = Unknown THEN none ELSE absent
  BY DEF Evaluate
<1>3. Enrich(found) = found /\ Enrich(none) = none
  BY DEF Enrich
<1>4. Enrich(absent) = IF Low THEN none ELSE absent
  <2> DEFINE half == [absent EXCEPT !.state = "insufficient_coverage"]
  <2>1. half = [state |-> "insufficient_coverage", recall |-> GoldRecall, claims |-> {}]
    OBVIOUS
  <2> HIDE DEF half
  <2>2. [half EXCEPT !.recall = Unknown] = none
    BY <2>1
  <2>3. Enrich(absent) = IF absent.state = "no_evidence_in_searched_corpus" /\ Low
                         THEN [half EXCEPT !.recall = Unknown] ELSE absent
    BY Zenon DEF Enrich, Low, half
  <2>4. absent.state = "no_evidence_in_searched_corpus"
    OBVIOUS
  <2>5. QED
    BY <2>2, <2>3, <2>4
<1> HIDE DEF base
<1>5. QED
  BY <1>1, <1>2, <1>3, <1>4 DEF RowFrom

LEMMA RecallCounts ==
  ASSUME CoverageTypeOK
  PROVE  /\ Forgotten = DOMAIN goldSet \ Recalled
         /\ Cardinality(Recalled) \in Nat /\ Cardinality(Forgotten) \in Nat /\ Len(goldSet) \in Nat
         /\ Cardinality(Recalled) + Cardinality(Forgotten) = Len(goldSet)
         /\ IsFiniteSet(Recalled)
<1>1. goldSet \in Seq([doc : CorpusDocs, text : DOMAIN QuotedIn])
  BY CoverageAssumption DEF CoverageTypeOK
<1>2. IsFiniteSet(DOMAIN goldSet) /\ Cardinality(DOMAIN goldSet) = Len(goldSet)
  BY <1>1, PlacesCount
<1>3. Recalled \subseteq DOMAIN goldSet /\ Forgotten = DOMAIN goldSet \ Recalled
  BY DEF Recalled, Forgotten, GoldHit
<1>4. Len(goldSet) \in Nat
  BY <1>1
<1>5. QED
  BY <1>2, <1>3, <1>4, CountApart

LEMMA ExpectedCounts ==
  ASSUME CoverageTypeOK
  PROVE  /\ IsFiniteSet(Expected) /\ IsFiniteSet(Covered)
         /\ Completeness.missing = Expected \ Covered
         /\ Cardinality(Expected) \in Nat /\ Cardinality(Covered) \in Nat
         /\ Cardinality(Completeness.missing) \in Nat
         /\ Cardinality(Covered) + Cardinality(Completeness.missing) = Cardinality(Expected)
         /\ Low <=> Expected # {} /\ 2 * Cardinality(Covered) < Cardinality(Expected)
<1>1. IsFiniteSet(Expected)
  BY CountAssumption DEF CoverageTypeOK, Expected
<1>2. Covered \subseteq Expected /\ Completeness.missing = Expected \ Covered
  BY DEF Covered, Completeness
<1>3. Completeness.ratio = IF Expected = {} THEN <<1, 1>> ELSE <<Cardinality(Covered), Cardinality(Expected)>>
  BY DEF Covered, Completeness
<1>4. Low <=> Expected # {} /\ 2 * Cardinality(Covered) < Cardinality(Expected)
  BY <1>3 DEF Low
<1>5. QED
  BY <1>1, <1>2, <1>4, CountApart

(* An absence is stated only where it was measured (AbsenceIsEarned).      *)
THEOREM AbsenceEarned == CoverageSpec => []AbsenceIsEarned
<1>1. CoverageTypeOK => AbsenceIsEarned
  <2> SUFFICES ASSUME CoverageTypeOK PROVE AbsenceIsEarned
    OBVIOUS
  <2> USE DEF Recalled
  <2>1. /\ Cardinality(Recalled) \in Nat /\ Cardinality(Forgotten) \in Nat /\ Len(goldSet) \in Nat
        /\ Cardinality(Recalled) + Cardinality(Forgotten) = Len(goldSet)
    BY RecallCounts
  <2>2. GoldRecall = IF degraded \/ goldSet = <<>> \/ hits = {} THEN Unknown
                     ELSE <<Cardinality(Recalled), Len(goldSet)>>
    BY DEF GoldRecall
  <2> HIDE DEF Recalled
  <2>3. CoverageRow = IF enabled /\ manifest = BadManifest THEN FailedRow
                      ELSE RowFrom(Qualifying, GoldRecall, enabled, Low)
    BY RowIs
  <2>4. ASSUME CoverageRow.state = "no_evidence_in_searched_corpus"
        PROVE  /\ ~degraded /\ goldSet # <<>> /\ hits # {} /\ verified \cap Relevant = {}
               /\ CoverageRow.recall[1] + Cardinality(Forgotten) = CoverageRow.recall[2]
               /\ enabled => manifest # BadManifest /\ 2 * Cardinality(Completeness.missing) <= Cardinality(Expected)
    <3>0. ~(enabled /\ manifest = BadManifest)
      BY <2>3, <2>4 DEF FailedRow
    <3>1. Qualifying = {} /\ GoldRecall # Unknown /\ ~(enabled /\ Low) /\ CoverageRow.recall = GoldRecall
      BY <2>3, <2>4, <3>0 DEF RowFrom
    <3>2. ~degraded /\ goldSet # <<>> /\ hits # {} /\ GoldRecall = <<Cardinality(Recalled), Len(goldSet)>>
      BY <2>2, <3>1
    <3>3. enabled => 2 * Cardinality(Completeness.missing) <= Cardinality(Expected)
      <4>1. CASE Expected = {}
        <5>1. Completeness.missing = {}
          BY <4>1 DEF Completeness
        <5>2. QED
          BY <5>1, <4>1, FS_EmptySet
      <4>2. CASE Expected # {}
        BY <4>2, <3>1, ExpectedCounts
      <4>3. QED
        BY <4>1, <4>2
    <3>4. QED
      BY <2>1, <3>0, <3>1, <3>2, <3>3 DEF Qualifying
  <2>5. ASSUME Defensible
        PROVE  /\ ~degraded /\ verified \cap Relevant = {}
               /\ 5 * Cardinality(Forgotten) <= Len(goldSet)
               /\ 10 * Cardinality(Authorities \ reached) <= Cardinality(Authorities)
    <3>1. /\ Evaluate(GoldRecall).state = "no_evidence_in_searched_corpus"
          /\ 5 * Evaluate(GoldRecall).recall[1] >= 4 * Evaluate(GoldRecall).recall[2]
          /\ 10 * Reachability[1] >= 9 * Reachability[2]
      BY <2>5 DEF Defensible, IsDefensibleZero
    <3>2. Qualifying = {} /\ GoldRecall # Unknown /\ Evaluate(GoldRecall).recall = GoldRecall
      BY <3>1 DEF Evaluate
    <3>3. ~degraded /\ GoldRecall = <<Cardinality(Recalled), Len(goldSet)>>
      BY <2>2, <3>2
    <3>4. 5 * Cardinality(Forgotten) <= Len(goldSet)
      BY <2>1, <3>1, <3>2, <3>3
    <3>5. 10 * Cardinality(Authorities \ reached) <= Cardinality(Authorities)
      <4>1. reached \subseteq Authorities /\ IsFiniteSet(Authorities)
        BY CountAssumption DEF CoverageTypeOK
      <4>2. /\ Cardinality(Authorities) \in Nat /\ Cardinality(reached) \in Nat
            /\ Cardinality(Authorities \ reached) \in Nat
            /\ Cardinality(reached) + Cardinality(Authorities \ reached) = Cardinality(Authorities)
        BY <4>1, CountApart
      <4>3. CASE Authorities = {}
        BY <4>2, <4>3, FS_EmptySet
      <4>4. CASE Authorities # {}
        <5>1. Reachability = <<Cardinality(reached), Cardinality(Authorities)>>
          BY <4>4 DEF Reachability
        <5>2. QED
          BY <3>1, <4>2, <5>1
      <4>5. QED
        BY <4>3, <4>4
    <3>6. QED
      BY <3>2, <3>3, <3>4, <3>5 DEF Qualifying
  <2>6. QED
    BY <2>4, <2>5, Zenon DEF AbsenceIsEarned, Forgotten
<1>2. QED
  BY <1>1, CoverageTyped, PTL

(* What two measured statements compare by.                                *)
LEMMA Multiply ==
  ASSUME NEW a \in Nat, NEW b \in Nat, NEW n \in Nat, a <= b
  PROVE  b * n >= a * n
<1>1. (b - a) \in Nat /\ (b - a) * n >= 0
  OBVIOUS
<1>2. (b - a) * n = b * n - a * n
  OBVIOUS
<1>3. QED
  BY <1>1, <1>2

(* A row of more, when the switch is the same and the recall no worse.     *)
LEMMA MoreIsNoWeaker ==
  ASSUME NEW q, NEW q2, NEW a, NEW a2, NEW on, NEW low, NEW low2,
         q \subseteq q2, a2 = Unknown => a = Unknown, low2 => low
  PROVE  Rank(RowFrom(q2, a2, on, low2)) >= Rank(RowFrom(q, a, on, low))
<1> DEFINE r == RowFrom(q, a, on, low)
           r2 == RowFrom(q2, a2, on, low2)
<1>0. Rank(r) \in {0, 1, 2} /\ Rank(r2) \in {0, 1, 2}
  BY DEF Rank, RowFrom
<1>1. CASE q2 # {}
  <2>1. Rank(r2) = 2
    BY <1>1 DEF Rank, RowFrom
  <2>2. QED
    BY <1>0, <2>1
<1>2. CASE q2 = {} /\ (a2 = Unknown \/ (on /\ low2))
  <2>1. Rank(r) = 0
    BY <1>2 DEF Rank, RowFrom
  <2>2. QED
    BY <1>0, <2>1
<1>3. CASE q2 = {} /\ ~(a2 = Unknown \/ (on /\ low2))
  <2>1. Rank(r2) = 1 /\ Rank(r) # 2
    BY <1>3 DEF Rank, RowFrom
  <2>2. QED
    BY <1>0, <2>1
<1>4. QED
  BY <1>1, <1>2, <1>3

(* No further document, hit or claim weakens what is said                  *)
(* (KnowledgeNeverHurts).                                                  *)
THEOREM KnowledgeHelps == CoverageSpec => KnowledgeNeverHurts
<1>1. CoverageTypeOK =>
        /\ Cardinality(Recalled) \in Nat /\ IsFiniteSet(Recalled) /\ Len(goldSet) \in Nat
        /\ IsFiniteSet(Covered) /\ Cardinality(Covered) \in Nat /\ Cardinality(Expected) \in Nat
        /\ Low <=> Expected # {} /\ 2 * Cardinality(Covered) < Cardinality(Expected)
  BY RecallCounts, ExpectedCounts
<1>2. CoverageRow = IF enabled /\ manifest = BadManifest THEN FailedRow
                    ELSE RowFrom(Qualifying, GoldRecall, enabled, Low)
  BY RowIs
<1>3. (CoverageTypeOK =>
        /\ Cardinality(Recalled) \in Nat /\ IsFiniteSet(Recalled) /\ Len(goldSet) \in Nat
        /\ IsFiniteSet(Covered) /\ Cardinality(Covered) \in Nat /\ Cardinality(Expected) \in Nat
        /\ Low <=> Expected # {} /\ 2 * Cardinality(Covered) < Cardinality(Expected))'
  BY <1>1, PTL
<1>4. (CoverageRow = IF enabled /\ manifest = BadManifest THEN FailedRow
                     ELSE RowFrom(Qualifying, GoldRecall, enabled, Low))'
  BY <1>2, PTL
<1>5. CoverageTypeOK /\ CoverageTypeOK' /\ [CoverageNext]_coverageVars => [KnowledgeStep]_coverageVars
  <2> SUFFICES ASSUME CoverageTypeOK, CoverageTypeOK', CoverageNext,
                      verified \subseteq verified', degraded' = degraded
               PROVE  /\ Rank(CoverageRow') >= Rank(CoverageRow)
                      /\ CoverageRow.recall # Unknown /\ CoverageRow'.recall # Unknown =>
                           CoverageRow'.recall[1] * CoverageRow.recall[2]
                             >= CoverageRow.recall[1] * CoverageRow'.recall[2]
    BY DEF KnowledgeStep
  <2>1. /\ goldSet' = goldSet /\ manifest' = manifest /\ enabled' = enabled
        /\ read \subseteq read' /\ hits \subseteq hits'
    BY DEF CoverageNext, config, Degrade, Read, Retrieve, ReachSource, Verify, Withdraw
  <2>2. /\ Qualifying \subseteq Qualifying' /\ Expected' = Expected
        /\ Covered \subseteq Covered' /\ Recalled \subseteq Recalled'
    BY <2>1 DEF Qualifying, Expected, Covered, Recalled, GoldHit
  <2>3. /\ Cardinality(Covered) <= Cardinality(Covered') /\ Cardinality(Recalled) <= Cardinality(Recalled')
        /\ Cardinality(Covered') \in Nat /\ Cardinality(Recalled') \in Nat
    BY <1>3, <2>2, FS_Subset
  <2>4. Low' => Low
    BY <1>1, <1>3, <2>2, <2>3
  <2>5. /\ GoldRecall = IF degraded \/ goldSet = <<>> \/ hits = {} THEN Unknown
                        ELSE <<Cardinality(Recalled), Len(goldSet)>>
        /\ GoldRecall' = IF degraded \/ goldSet = <<>> \/ hits' = {} THEN Unknown
                         ELSE <<Cardinality(Recalled'), Len(goldSet)>>
    BY <2>1 DEF GoldRecall, Recalled
  <2>6. GoldRecall' = Unknown => GoldRecall = Unknown
    <3>1. <<Cardinality(Recalled'), Len(goldSet)>> # Unknown
      BY <1>1, <2>3, CountAssumption
    <3>2. QED
      BY <2>1, <2>5, <3>1
  <2>7. Rank(CoverageRow') >= Rank(CoverageRow)
    <3>1. Rank(RowFrom(Qualifying', GoldRecall', enabled', Low')) >= Rank(RowFrom(Qualifying, GoldRecall, enabled, Low))
      BY <2>1, <2>2, <2>4, <2>6, MoreIsNoWeaker
    <3>2. CASE enabled /\ manifest = BadManifest
      BY <1>2, <1>4, <2>1, <3>2 DEF Rank, FailedRow
    <3>3. CASE ~(enabled /\ manifest = BadManifest)
      BY <1>2, <1>4, <2>1, <3>1, <3>3
    <3>4. QED
      BY <3>2, <3>3
  <2>8. ASSUME CoverageRow.recall # Unknown, CoverageRow'.recall # Unknown
        PROVE  CoverageRow'.recall[1] * CoverageRow.recall[2] >= CoverageRow.recall[1] * CoverageRow'.recall[2]
    <3>1. CoverageRow.recall = GoldRecall /\ CoverageRow'.recall = GoldRecall'
      BY <1>2, <1>4, <2>1, <2>8 DEF RowFrom, FailedRow
    <3>2. /\ GoldRecall = <<Cardinality(Recalled), Len(goldSet)>>
          /\ GoldRecall' = <<Cardinality(Recalled'), Len(goldSet)>>
      BY <2>5, <2>8, <3>1
    <3>3. Cardinality(Recalled') * Len(goldSet) >= Cardinality(Recalled) * Len(goldSet)
      BY <1>1, <2>3, Multiply
    <3>4. QED
      BY <3>1, <3>2, <3>3
  <2>9. QED
    BY <2>7, <2>8
<1>6. QED
  BY <1>5, CoverageTyped, PTL DEF KnowledgeNeverHurts, CoverageSpec

-----------------------------------------------------------------------------
(* Submission                                                              *)

RowsOf(r) == [k \in DOMAIN Exported(r) |-> RowOf(r, Exported(r)[k])]

(* What an attempt has done by each phase: files are touched only when all *)
(* the rows are known to be right, one after the other.                    *)
SubmissionInv ==
  /\ run \in Runs \cup {NoFile} /\ (phase # "idle" => run \in Runs)
  /\ phase \in {"idle", "rows", "csv", "in_csv", "json", "in_json", "written", "failed"}
  /\ interrupted \in BOOLEAN /\ attempts \in 0..MaxAttempts
  /\ csv = NoFile => json = NoFile
  /\ phase \in {"rows", "csv"} \/ (phase = "failed" /\ ~interrupted) => <<csv, json>> = before
  /\ phase \in {"csv", "in_csv", "json", "in_json", "written"} =>
       records = RowsOf(run) /\ \A c \in Range(Exported(run)) : IsRecord(run, c)
  /\ phase \in {"json", "in_json", "written"} => csv = records
  /\ phase = "written" => json = WithCounts(records)

(* The claims that are exported are those not rejected, in order.          *)
LEMMA ExportedClaims ==
  ASSUME NEW r \in Runs
  PROVE  /\ r.claims \in Seq(Range(r.claims)) /\ Exported(r) \in Seq(Range(r.claims))
         /\ \A k \in DOMAIN Exported(r) :
              Exported(r)[k] \in Range(r.claims) /\ r.status[Exported(r)[k].id] # "rejected"
         /\ \A c \in Range(r.claims) : r.status[c.id] # "rejected" =>
              \E k \in DOMAIN Exported(r) : Exported(r)[k] = c
<1> DEFINE cs == r.claims
           S == {c \in Range(cs) : r.status[c.id] # "rejected"}
<1>1. cs \in Seq(Range(cs))
  <2>1. HandedOver(r)
    BY SubmissionAssumption
  <2>2. {cs[n] : n \in DOMAIN cs} = Range(cs)
    BY DEF Range
  <2>3. QED
    BY <2>1, <2>2 DEF HandedOver, IsList
<1> HIDE DEF cs
<1>2. Exported(r) = Kept(cs, S)
  BY DEF Exported, cs
<1>3. /\ Kept(cs, S) \in Seq(Range(cs))
      /\ \A i \in DOMAIN Kept(cs, S) : Kept(cs, S)[i] \in S
      /\ \A j \in DOMAIN cs : cs[j] \in S => \E i \in DOMAIN Kept(cs, S) : Kept(cs, S)[i] = cs[j]
  <2> HIDE DEF S
  <2>1. QED
    BY <1>1, KeptProperties
<1>4. \A c \in Range(cs) : \E j \in DOMAIN cs : c = cs[j]
  BY DEF Range
<1>5. \A c : c \in S <=> c \in Range(cs) /\ r.status[c.id] # "rejected"
  OBVIOUS
<1> HIDE DEF S
<1>6. /\ Exported(r) \in Seq(Range(cs))
      /\ \A k \in DOMAIN Exported(r) :
           Exported(r)[k] \in Range(cs) /\ r.status[Exported(r)[k].id] # "rejected"
      /\ \A c \in Range(cs) : r.status[c.id] # "rejected" =>
           \E k \in DOMAIN Exported(r) : Exported(r)[k] = c
  BY <1>2, <1>3, <1>4, <1>5
<1>7. QED
  BY <1>1, <1>6 DEF cs

LEMMA RowsTyped ==
  ASSUME NEW r \in Runs
  PROVE  /\ RowsOf(r) \in Seq({RowOf(r, c) : c \in Range(r.claims)}) /\ RowsOf(r) # NoFile
         /\ Len(RowsOf(r)) = Len(Exported(r)) /\ DOMAIN RowsOf(r) = DOMAIN Exported(r)
<1>1. /\ Exported(r) \in Seq(Range(r.claims))
      /\ \A k \in DOMAIN Exported(r) : Exported(r)[k] \in Range(r.claims)
  BY ExportedClaims
<1>2. DOMAIN Exported(r) = 1..Len(Exported(r)) /\ Len(Exported(r)) \in Nat
  BY <1>1
<1>3. RowsOf(r) \in [1..Len(Exported(r)) -> {RowOf(r, c) : c \in Range(r.claims)}]
  BY <1>1, <1>2 DEF RowsOf
<1>4. RowsOf(r) \in Seq({RowOf(r, c) : c \in Range(r.claims)}) /\ Len(RowsOf(r)) = Len(Exported(r))
  BY <1>2, <1>3
<1>5. QED
  BY <1>2, <1>3, <1>4, FileAssumption

LEMMA SubmissionInvInit == SubmissionInit => SubmissionInv
<1>1. MaxAttempts \in Nat
  BY SubmissionAssumption
<1>2. SubmissionInit => attempts \in 0..MaxAttempts
  BY <1>1 DEF SubmissionInit
<1>3. SubmissionInit => interrupted \in BOOLEAN
  BY DEF SubmissionInit
<1>4. QED
  BY <1>2, <1>3, Zenon DEF SubmissionInit, SubmissionInv

LEMMA SubmissionInvNext == SubmissionInv /\ [SubmissionNext]_submissionVars => SubmissionInv'
<1> SUFFICES ASSUME SubmissionInv, [SubmissionNext]_submissionVars PROVE SubmissionInv'
  OBVIOUS
<1>0. MaxAttempts \in Nat
  BY SubmissionAssumption
<1>1. ASSUME NEW r \in Runs, BeginSubmission(r) PROVE SubmissionInv'
  <2>1. attempts' \in 0..MaxAttempts
    BY <1>0, <1>1 DEF SubmissionInv, BeginSubmission
  <2>2. /\ phase \in {"idle", "written", "failed"} /\ run' = r /\ phase' = "rows" /\ interrupted' = FALSE
        /\ csv' = csv /\ json' = json /\ before' = <<csv, json>>
    BY <1>1 DEF BeginSubmission
  <2>3. interrupted' \in BOOLEAN /\ <<csv', json'>> = before' /\ (csv' = NoFile => json' = NoFile)
    BY <2>2 DEF SubmissionInv
  <2>4. phase' \notin {"csv", "in_csv", "json", "in_json", "written"}
    BY <2>2
  <2>5. phase' \notin {"json", "in_json", "written"} /\ phase' # "written" /\ phase' # "idle"
    BY <2>2
  <2>6. phase' \in {"idle", "rows", "csv", "in_csv", "json", "in_json", "written", "failed"}
    BY <2>2
  <2>7. QED
    BY <2>1, <2>2, <2>3, <2>4, <2>5, <2>6, Zenon DEF SubmissionInv
<1>2. CASE BuildRecords
  <2>1. CASE \A c \in Range(Exported(run)) : IsRecord(run, c)
    <3>1. records' = RowsOf(run) /\ phase' = "csv" /\ UNCHANGED <<run, csv, json, before, interrupted, attempts>>
      BY <1>2, <2>1 DEF BuildRecords, RowsOf
    <3>2. phase = "rows"
      BY <1>2 DEF BuildRecords
    <3>3. QED
      BY <2>1, <3>1, <3>2 DEF SubmissionInv
  <2>2. CASE ~\A c \in Range(Exported(run)) : IsRecord(run, c)
    <3>1. phase = "rows" /\ phase' = "failed" /\ UNCHANGED <<records, run, csv, json, before, interrupted, attempts>>
      BY <1>2, <2>2 DEF BuildRecords
    <3>2. QED
      BY <3>1 DEF SubmissionInv
  <2>3. QED
    BY <2>1, <2>2
<1>3. CASE WriteCsv
  <2>1. UNCHANGED <<run, records, json, before, interrupted, attempts>>
    BY <1>3 DEF WriteCsv
  <2>2. CASE phase = "csv" /\ csv' = Torn /\ phase' = "in_csv"
    BY <2>1, <2>2, FileAssumption DEF SubmissionInv
  <2>3. CASE phase = "in_csv" /\ csv' = records /\ phase' = "json"
    <3>1. run \in Runs /\ records = RowsOf(run)
      BY <2>3 DEF SubmissionInv
    <3>2. csv' # NoFile
      BY <2>3, <3>1, RowsTyped
    <3>3. QED
      BY <2>1, <2>3, <3>2 DEF SubmissionInv
  <2>4. QED
    BY <1>3, <2>2, <2>3 DEF WriteCsv
<1>4. CASE WriteJson
  <2>1. UNCHANGED <<run, records, csv, before, interrupted, attempts>>
    BY <1>4 DEF WriteJson
  <2>2. phase \in {"json", "in_json"} /\ run \in Runs /\ csv = records /\ records = RowsOf(run)
    BY <1>4 DEF WriteJson, SubmissionInv
  <2>3. csv # NoFile
    BY <2>2, RowsTyped
  <2>4. \/ phase = "json" /\ json' = Torn /\ phase' = "in_json"
        \/ phase = "in_json" /\ json' = WithCounts(records) /\ phase' = "written"
    BY <1>4 DEF WriteJson
  <2>5. QED
    BY <2>1, <2>2, <2>3, <2>4 DEF SubmissionInv
<1>5. CASE StopSubmission
  <2>1. /\ phase \in {"rows", "csv", "in_csv", "json", "in_json"} /\ phase' = "failed"
        /\ UNCHANGED <<run, records, csv, json, before, attempts>>
        /\ interrupted' = (phase \in {"in_csv", "json", "in_json"})
    BY <1>5 DEF StopSubmission
  <2>2. interrupted' \in BOOLEAN /\ (~interrupted' => phase \in {"rows", "csv"})
    <3>1. (phase \in {"in_csv", "json", "in_json"}) \in BOOLEAN
      OBVIOUS
    <3>2. ~(phase \in {"in_csv", "json", "in_json"}) => phase \in {"rows", "csv"}
      BY <2>1
    <3>3. QED
      BY <2>1, <3>1, <3>2, Zenon
  <2>3. /\ phase' \notin {"csv", "in_csv", "json", "in_json", "written"} /\ phase' # "written"
        /\ phase' \notin {"json", "in_json", "written"} /\ phase # "idle"
        /\ phase' \in {"idle", "rows", "csv", "in_csv", "json", "in_json", "written", "failed"}
    BY <2>1
  <2>4. phase' \notin {"rows", "csv"}
    BY <2>1
  <2>5. ~interrupted' => <<csv', json'>> = before'
    BY <2>1, <2>2 DEF SubmissionInv
  <2>6. run' \in Runs /\ attempts' \in 0..MaxAttempts /\ (csv' = NoFile => json' = NoFile)
    BY <2>1, <2>3 DEF SubmissionInv
  <2>7. QED
    BY <2>2, <2>3, <2>4, <2>5, <2>6, Zenon DEF SubmissionInv
<1>6. CASE UNCHANGED submissionVars
  BY <1>6 DEF SubmissionInv, submissionVars
<1>7. QED
  BY <1>1, <1>2, <1>3, <1>4, <1>5, <1>6 DEF SubmissionNext

(* The words that a snippet may quote are those of its clause.             *)
LEMMA SnippetQuotes ==
  ASSUME NEW r \in Runs, NEW c \in Range(r.claims), Snippet(c) # {}
  PROVE  Snippet(c) \subseteq WordsOf(c.clause, 0, LengthOf[c.clause])
<1> DEFINE e == c.clause
           n == LengthOf[e]
<1>1. c.from \in Nat /\ c.to \in Nat
  BY SubmissionAssumption DEF HandedOver
<1>2. e \in DOMAIN LengthOf
  BY DEF Snippet
<1>3. n \in Nat /\ StartOf[e] \in Nat
  BY <1>2, SubmissionAssumption
<1> HIDE DEF e, n
<1>4. ASSUME NEW from \in Nat, NEW to \in Nat PROVE WordsOf(e, from, to) \subseteq WordsOf(e, 0, n)
  BY <1>3 DEF WordsOf, n
<1>5. InElement(e, c.from) \in Nat /\ InElement(e, c.to) \in Nat
  BY <1>1, <1>3 DEF InElement
<1>6. Snippet(c) \in {WordsOf(e, c.from, c.to), WordsOf(e, InElement(e, c.from), InElement(e, c.to)),
                      WordsOf(e, 0, n)}
  BY <1>2 DEF Snippet, e, n
<1>7. Snippet(c) \subseteq WordsOf(e, 0, n)
  BY <1>1, <1>4, <1>5, <1>6
<1>8. QED
  BY <1>7 DEF e, n

(* The files of a submission are whole, or those of before                 *)
(* (SubmissionIsWhole).                                                    *)
LEMMA WholeFromInv == SubmissionInv => SubmissionIsWhole
<1> SUFFICES ASSUME SubmissionInv PROVE SubmissionIsWhole
  OBVIOUS
<1>1. phase = "failed" /\ ~interrupted => <<csv, json>> = before
  BY DEF SubmissionInv
<1>2. ASSUME phase = "written"
      PROVE  /\ json.provisions = csv
             /\ json.new + json.known = json.total /\ json.total = Len(csv)
             /\ \A c \in Range(run.claims) :
                  c.id \in {w.claim : w \in Range(csv)} <=> run.status[c.id] # "rejected"
             /\ \A k, l \in DOMAIN csv : k < l =>
                  \E i, j \in DOMAIN run.claims :
                    i < j /\ run.claims[i].id = csv[k].claim /\ run.claims[j].id = csv[l].claim
             /\ \A w \in Range(csv) : w.snippet # {} /\ w.status # "rejected" /\
                  \E c \in Range(run.claims) :
                    c.id = w.claim /\ w.snippet \subseteq WordsOf(c.clause, 0, LengthOf[c.clause])
  <2> DEFINE ex == Exported(run)
             cs == run.claims
  <2>1. /\ run \in Runs /\ csv = RowsOf(run) /\ records = csv /\ json = WithCounts(csv)
        /\ \A c \in Range(ex) : IsRecord(run, c)
    BY <1>2 DEF SubmissionInv
  <2>2. /\ cs \in Seq(Range(cs)) /\ ex \in Seq(Range(cs))
        /\ \A k \in DOMAIN ex : ex[k] \in Range(cs) /\ run.status[ex[k].id] # "rejected"
        /\ \A c \in Range(cs) : run.status[c.id] # "rejected" => \E k \in DOMAIN ex : ex[k] = c
    BY <2>1, ExportedClaims
  <2>3. /\ csv \in Seq({RowOf(run, c) : c \in Range(cs)}) /\ Len(csv) = Len(ex) /\ DOMAIN csv = DOMAIN ex
    BY <2>1, RowsTyped
  <2>4. \A k \in DOMAIN ex : csv[k] = RowOf(run, ex[k])
    BY <2>1 DEF RowsOf
  <2>5. \A k \in DOMAIN ex : /\ csv[k].claim = ex[k].id /\ csv[k].snippet = Snippet(ex[k])
                             /\ csv[k].status = run.status[ex[k].id]
                             /\ csv[k].tag \in {"NEW", "KNOWN"}
    <3> TAKE k \in DOMAIN ex
    <3>1. csv[k] = [claim |-> ex[k].id, snippet |-> Snippet(ex[k]), tag |-> Tag(run, ex[k]),
                    status |-> run.status[ex[k].id]]
      BY <2>4 DEF RowOf
    <3>2. Tag(run, ex[k]) \in {"NEW", "KNOWN"}
      BY DEF Tag
    <3>3. QED
      BY <3>1, <3>2
  <2> HIDE DEF ex, cs
  <2>6. json.provisions = csv /\ json.total = Len(csv)
    BY <2>1 DEF WithCounts
  <2>7. json.new + json.known = json.total
    <3> DEFINE new == {k \in DOMAIN csv : csv[k].tag = "NEW"}
    <3>1. {k \in DOMAIN csv : csv[k].tag = "KNOWN"} = DOMAIN csv \ new
      BY <2>3, <2>5
    <3>2. IsFiniteSet(DOMAIN csv) /\ Cardinality(DOMAIN csv) = Len(csv)
      BY <2>3, PlacesCount
    <3>3. Cardinality(new) + Cardinality(DOMAIN csv \ new) = Len(csv)
      BY <3>2, CountApart
    <3>4. json.new = Cardinality(new) /\ json.known = Cardinality(DOMAIN csv \ new)
      BY <2>1, <3>1 DEF WithCounts
    <3>5. QED
      BY <2>6, <3>3, <3>4
  <2>8. ASSUME NEW c \in Range(cs)
        PROVE  c.id \in {w.claim : w \in Range(csv)} <=> run.status[c.id] # "rejected"
    <3>1. ASSUME NEW w \in Range(csv), c.id = w.claim PROVE run.status[c.id] # "rejected"
      <4>1. PICK k \in DOMAIN csv : w = csv[k]
        BY DEF Range
      <4>2. QED
        BY <2>2, <2>3, <2>5, <3>1, <4>1
    <3>2. ASSUME run.status[c.id] # "rejected" PROVE \E w \in Range(csv) : c.id = w.claim
      <4>1. PICK k \in DOMAIN ex : ex[k] = c
        BY <2>2, <3>2
      <4>2. csv[k] \in Range(csv) /\ csv[k].claim = c.id
        BY <2>3, <2>5, <4>1 DEF Range
      <4>3. QED
        BY <4>2
    <3>3. QED
      BY <3>1, <3>2
  <2>9. ASSUME NEW k \in DOMAIN csv, NEW l \in DOMAIN csv, k < l
        PROVE  \E i, j \in DOMAIN cs : i < j /\ cs[i].id = csv[k].claim /\ cs[j].id = csv[l].claim
    <3> DEFINE S == {c \in Range(cs) : run.status[c.id] # "rejected"}
    <3>1. ex = Kept(cs, S)
      BY DEF ex, cs, Exported
    <3> HIDE DEF S
    <3>2. PICK i \in DOMAIN cs, j \in DOMAIN cs : i < j /\ ex[k] = cs[i] /\ ex[l] = cs[j]
      BY <2>2, <2>3, <2>9, <3>1, KeptOrdered
    <3>3. QED
      BY <2>3, <2>5, <3>2
  <2>10. ASSUME NEW w \in Range(csv)
         PROVE  /\ w.snippet # {} /\ w.status # "rejected"
                /\ \E c \in Range(cs) :
                     c.id = w.claim /\ w.snippet \subseteq WordsOf(c.clause, 0, LengthOf[c.clause])
    <3>1. PICK k \in DOMAIN ex : w = csv[k]
      BY <2>3 DEF Range
    <3>2. ex[k] \in Range(cs) /\ ex[k] \in Range(ex)
      BY <2>2 DEF Range
    <3>3. w.snippet = Snippet(ex[k]) /\ Snippet(ex[k]) # {}
      BY <2>1, <2>5, <3>1, <3>2 DEF IsRecord
    <3>4. Snippet(ex[k]) \subseteq WordsOf(ex[k].clause, 0, LengthOf[ex[k].clause])
      BY <2>1, <3>2, <3>3, SnippetQuotes DEF cs
    <3>5. QED
      BY <2>2, <2>5, <3>1, <3>2, <3>3, <3>4
  <2>11. QED
    BY <2>6, <2>7, <2>8, <2>9, <2>10 DEF cs
<1>3. QED
  BY <1>1, <1>2 DEF SubmissionIsWhole

(* The types, and the property, of every behaviour.                        *)
THEOREM SubmissionTyped == SubmissionSpec => []SubmissionTypeOK
<1>1. SubmissionInv => SubmissionTypeOK
  BY DEF SubmissionInv, SubmissionTypeOK
<1>2. QED
  BY <1>1, SubmissionInvInit, SubmissionInvNext, PTL DEF SubmissionSpec

THEOREM SubmissionWhole == SubmissionSpec => []SubmissionIsWhole
  BY WholeFromInv, SubmissionInvInit, SubmissionInvNext, PTL DEF SubmissionSpec

-----------------------------------------------------------------------------
(* Scoring                                                                 *)

LEMMA BandSet == Range(Bands) = {"0", "0.5", "1"} /\ Bands[1] = "0" /\ Bands[2] = "0.5" /\ Bands[3] = "1"
<1>1. DOMAIN Bands = 1..3 /\ Bands[1] = "0" /\ Bands[2] = "0.5" /\ Bands[3] = "1"
  BY DEF Bands
<1>2. \A i \in 1..3 : i = 1 \/ i = 2 \/ i = 3
  OBVIOUS
<1> HIDE DEF Bands
<1>3. QED
  BY <1>1, <1>2 DEF Range


(* The variables of the scoring have their types.                          *)
THEOREM ScoringTyped == ScoringSpec => []ScoringTypeOK
<1>1. ScoringInit => ScoringTypeOK
  BY DEF ScoringInit, ScoringTypeOK
<1>2. ScoringTypeOK /\ [ScoringNext]_scoringVars => ScoringTypeOK'
  BY DEF ScoringTypeOK, ScoringNext, AddWord, AddShot, scoringVars
<1>3. QED
  BY <1>1, <1>2, PTL DEF ScoringSpec

(* A band with half a point's lead on the others.  Points are in quarters. *)
Clear(f, b) == \A a \in Range(Bands) \ {b} : f[b] - f[a] >= 2

(* The place that leads has no fewer points than another.                  *)
LEMMA LeaderLeads ==
  ASSUME NEW f \in [Range(Bands) -> Int], NEW S \in SUBSET (1..3), S # {}
  PROVE  Leader(f, S) \in S /\ \A j \in S : f[Bands[j]] <= f[Bands[Leader(f, S)]]
<1> DEFINE v == [i \in 1..3 |-> f[Bands[i]]]
           N == {n \in Nat : \E i \in S : \A j \in S \ {i} : v[i] > v[j] \/ (v[i] = v[j] /\ i < j)}
<1>1. v \in [1..3 -> Int] /\ \A i \in 1..3 : v[i] = f[Bands[i]]
  BY BandSet
<1> HIDE DEF v
<1> DEFINE Beats(i, j) == v[i] > v[j] \/ (v[i] = v[j] /\ i < j)
<1>2. \E i \in S : \A j \in S \ {i} : Beats(i, j)
  <2>1. v[1] \in Int /\ v[2] \in Int /\ v[3] \in Int
    BY <1>1
  <2>2. \/ 1 \in S /\ (2 \in S => Beats(1, 2)) /\ (3 \in S => Beats(1, 3))
        \/ 2 \in S /\ (1 \in S => Beats(2, 1)) /\ (3 \in S => Beats(2, 3))
        \/ 3 \in S /\ (1 \in S => Beats(3, 1)) /\ (2 \in S => Beats(3, 2))
    <3>1. 1 \in S \/ 2 \in S \/ 3 \in S
      <4>1. PICK i \in S : i \in 1..3
        OBVIOUS
      <4>2. i = 1 \/ i = 2 \/ i = 3
        BY <4>1
      <4>3. QED
        BY <4>2
    <3>2. QED
      BY <2>1, <3>1
  <2>3. \A i \in S : i = 1 \/ i = 2 \/ i = 3
    OBVIOUS
  <2> HIDE DEF Beats
  <2>4. QED
    BY <2>2, <2>3
<1>3. \E i \in S : \A j \in S \ {i} : Ahead(f, i, j)
  BY <1>1, <1>2 DEF Ahead
<1> DEFINE m == Leader(f, S)
<1>4. m \in S /\ \A j \in S \ {m} : Ahead(f, m, j)
  BY <1>3 DEF Leader
<1> HIDE DEF m
<1>5. ASSUME NEW j \in S PROVE f[Bands[j]] <= f[Bands[m]]
  <2>1. v[j] \in Int /\ v[m] \in Int /\ v[j] = f[Bands[j]] /\ v[m] = f[Bands[m]]
    BY <1>1, <1>4
  <2>2. j # m => Ahead(f, m, j)
    BY <1>4
  <2>3. QED
    BY <2>1, <2>2 DEF Ahead
<1>6. QED
  BY <1>4, <1>5 DEF m

(* Without an example, an outer band is picked exactly if it leads.        *)
LEMMA PickIs ==
  ASSUME NEW f \in [Range(Bands) -> Int], f["0.5"] >= 0
  PROVE  /\ PickBand(f, "none") \in Range(Bands)
         /\ \A b \in {"0", "1"} : PickBand(f, "none") = b <=> Clear(f, b)
<1> DEFINE top == Leader(f, 1..3)
           second == Leader(f, (1..3) \ {top})
<1>1. top \in 1..3 /\ \A j \in 1..3 : f[Bands[j]] <= f[Bands[top]]
  BY LeaderLeads
<1>2. second \in (1..3) \ {top} /\ \A j \in (1..3) \ {top} : f[Bands[j]] <= f[Bands[second]]
  <2>1. (1..3) \ {top} # {} /\ (1..3) \ {top} \in SUBSET (1..3)
    BY <1>1
  <2> HIDE DEF top
  <2>2. QED
    BY <2>1, LeaderLeads
<1>3. PickBand(f, "none") = IF f[Bands[top]] <= 0 \/ f[Bands[top]] - f[Bands[second]] < 2
                            THEN "0.5" ELSE Bands[top]
  BY DEF PickBand
<1> HIDE DEF top, second
<1>4. f["0"] \in Int /\ f["0.5"] \in Int /\ f["1"] \in Int
  BY BandSet
<1>5. /\ Clear(f, "0") <=> f["0"] - f["0.5"] >= 2 /\ f["0"] - f["1"] >= 2
      /\ Clear(f, "1") <=> f["1"] - f["0.5"] >= 2 /\ f["1"] - f["0"] >= 2
  BY BandSet DEF Clear
<1>6. (top = 1 \/ top = 2 \/ top = 3) /\ (second = 1 \/ second = 2 \/ second = 3) /\ second # top
  BY <1>1, <1>2
<1>7. CASE top = 1
  BY <1>1, <1>2, <1>3, <1>4, <1>5, <1>6, <1>7, BandSet
<1>8. CASE top = 2
  BY <1>1, <1>2, <1>3, <1>4, <1>5, <1>6, <1>8, BandSet
<1>9. CASE top = 3
  BY <1>1, <1>2, <1>3, <1>4, <1>5, <1>6, <1>9, BandSet
<1>10. QED
  BY <1>6, <1>7, <1>8, <1>9

(* The example that decides: the first of those close enough.              *)
Close(k)      == k \in DOMAIN shots /\ shots[k].overlap = 15
FirstClose(k) == Close(k) /\ \A j \in DOMAIN shots : Close(j) => k <= j


(* Of an example: what it shares with the claim, and what they have        *)
(* together, which is something.                                           *)
LEMMA ExampleIs ==
  ASSUME ScoringTypeOK, NEW k \in DOMAIN shots
  PROVE  /\ shots[k].band \in Range(Bands) /\ IsFiniteSet(shots[k].words) /\ IsFiniteSet(tokens)
         /\ Shared(k) \in Nat /\ Joined(k) \in Nat \ {0}
<1>1. shots[k] \in Examples
  BY DEF ScoringTypeOK
<1>2. shots[k].band \in Range(Bands) /\ shots[k].words \subseteq Vocabulary
  BY <1>1, ScoringAssumption
<1>3. IsFiniteSet(shots[k].words) /\ IsFiniteSet(tokens)
  BY <1>2, FS_Subset, ScoringAssumption DEF ScoringTypeOK
<1>4. Shared(k) \in Nat
  <2>1. IsFiniteSet(tokens \cap shots[k].words)
    BY <1>3, FS_Intersection
  <2>2. QED
    BY <2>1, FS_CardinalityType DEF Shared
<1>5. Joined(k) \in Nat \ {0}
  <2>1. IsFiniteSet(tokens \cup shots[k].words) /\ tokens \cup shots[k].words # {}
    BY <1>3, FS_Union DEF ScoringTypeOK
  <2>2. QED
    BY <2>1, FS_CardinalityType, FS_EmptySet DEF Joined
<1>6. QED
  BY <1>2, <1>3, <1>4, <1>5

(* What is less than a fraction is less than what that is at most.         *)
LEMMA FractionOrder ==
  ASSUME NEW a \in Nat, NEW b \in Nat \ {0}, NEW c \in Nat, NEW d \in Nat \ {0},
         NEW e \in Nat, NEW f \in Nat \ {0},
         a * d <= c * b, c * f < e * d
  PROVE  a * f < e * b
<1> SUFFICES ASSUME e * b <= a * f PROVE FALSE
  OBVIOUS
<1>0. e * b \in Nat /\ a * f \in Nat /\ a * d \in Nat /\ c * b \in Nat /\ c * f \in Nat /\ e * d \in Nat
  OBVIOUS
<1>1. (e * b) * d <= (a * f) * d
  BY <1>0, Multiply
<1>2. (a * d) * f <= (c * b) * f
  BY <1>0, Multiply
<1>3. (c * f + 1) * b <= (e * d) * b
  BY <1>0, Multiply
<1>4. (e * b) * d = (e * d) * b /\ (a * f) * d = (a * d) * f /\ (c * b) * f = (c * f) * b
  OBVIOUS
<1>5. (c * f + 1) * b = (c * f) * b + b
  BY <1>0
<1> DEFINE x == (e * d) * b
           y == (c * f) * b
           z == (a * d) * f
<1>6. x \in Nat /\ y \in Nat /\ z \in Nat
  BY <1>0
<1>7. x <= z /\ z <= y /\ y + b <= x
  BY <1>1, <1>2, <1>3, <1>4, <1>5
<1> HIDE DEF x, y, z
<1>8. QED
  BY <1>6, <1>7

(* Among the examples there is a first of the closest, which is near       *)
(* enough if any is.                                                       *)
FirstOfNearest(k, n) == \A j \in 1..n : ~Nearer(j, k) /\ (j < k => Nearer(k, j))

LEMMA SomeDecides ==
  ASSUME ScoringTypeOK, NEW k0 \in DOMAIN shots, NearEnough(k0)
  PROVE  Deciding # {}
<1> DEFINE N == Len(shots)
           S == {n \in Nat : n = 0 \/ \E k \in 1..n : FirstOfNearest(k, n)}
<1>1. N \in Nat /\ DOMAIN shots = 1..N
  BY DEF ScoringTypeOK
<1>2. \A k \in 1..N : Shared(k) \in Nat /\ Joined(k) \in Nat \ {0}
  BY <1>1, ExampleIs
<1> HIDE DEF N
<1>3. ASSUME NEW n \in 0..N, n < N, n \in S PROVE n + 1 \in S
  <2>0. n + 1 \in 1..N /\ n \in Nat
    BY <1>1, <1>3
  <2>1. CASE n = 0
    <3>1. FirstOfNearest(1, 1)
      <4>1. Shared(1) * Joined(1) \in Nat
        BY <1>2, <2>0, <2>1
      <4>2. \A j \in 1..1 : j = 1
        OBVIOUS
      <4>3. QED
        BY <4>1, <4>2 DEF FirstOfNearest, Nearer
    <3>2. QED
      BY <2>1, <3>1
  <2>2. CASE n # 0
    <3>1. PICK m \in 1..n : FirstOfNearest(m, n)
      BY <1>3, <2>2
    <3>2. m \in 1..N /\ m \in Nat /\ m < n + 1
      BY <1>1, <1>3, <3>1
    <3>3. CASE Nearer(n + 1, m)
      <4>1. ASSUME NEW j \in 1..(n + 1), j # n + 1 PROVE Nearer(n + 1, j)
        <5>1. j \in 1..n /\ j \in 1..N
          BY <1>1, <1>3, <4>1
        <5>2. Shared(j) * Joined(m) <= Shared(m) * Joined(j)
          BY <1>2, <3>1, <3>2, <5>1 DEF FirstOfNearest, Nearer
        <5>3. Shared(m) * Joined(n + 1) < Shared(n + 1) * Joined(m)
          BY <1>2, <2>0, <3>2, <3>3 DEF Nearer
        <5>4. Shared(j) * Joined(n + 1) < Shared(n + 1) * Joined(j)
          BY <1>2, <2>0, <3>2, <5>1, <5>2, <5>3, FractionOrder
        <5>5. QED
          BY <1>2, <2>0, <5>1, <5>4 DEF Nearer
      <4>2. FirstOfNearest(n + 1, n + 1)
        <5>1. ASSUME NEW j \in 1..(n + 1) PROVE ~Nearer(j, n + 1) /\ (j < n + 1 => Nearer(n + 1, j))
          <6>1. CASE j = n + 1
            <7>1. Shared(j) * Joined(j) \in Nat /\ ~(j < n + 1)
              BY <1>2, <2>0, <6>1
            <7>2. QED
              BY <6>1, <7>1 DEF Nearer
          <6>2. CASE j # n + 1
            <7>1. j \in 1..N
              BY <1>1, <1>3
            <7>2. Nearer(n + 1, j)
              BY <4>1, <6>2
            <7>3. Shared(j) * Joined(n + 1) \in Nat /\ Shared(n + 1) * Joined(j) \in Nat
              BY <1>2, <2>0, <7>1
            <7>4. QED
              BY <7>2, <7>3 DEF Nearer
          <6>3. QED
            BY <6>1, <6>2
        <5>2. QED
          BY <5>1 DEF FirstOfNearest
      <4>3. n + 1 \in 1..(n + 1) /\ n + 1 \in Nat
        BY <2>0
      <4>4. QED
        BY <4>2, <4>3
    <3>4. CASE ~Nearer(n + 1, m)
      <4>1. \A j \in 1..(n + 1) : j \in 1..n \/ (j = n + 1 /\ ~(j < m))
        BY <2>0, <3>2
      <4>2. FirstOfNearest(m, n + 1)
        BY <3>1, <3>4, <4>1 DEF FirstOfNearest
      <4>3. m \in 1..(n + 1)
        BY <2>0, <3>1
      <4>4. QED
        BY <2>0, <4>2, <4>3
    <3>5. QED
      BY <3>3, <3>4
  <2>3. QED
    BY <2>1, <2>2
<1>4. 0..N \subseteq S
  <2>1. 0 \in S
    OBVIOUS
  <2> HIDE DEF S
  <2>2. QED
    BY <1>1, <1>3, <2>1, Induction
<1>5. N \in S /\ N # 0
  BY <1>1, <1>4
<1>6. PICK k \in 1..N : FirstOfNearest(k, N)
  BY <1>5
<1>7. NearEnough(k)
  <2>1. ~Nearer(k0, k)
    BY <1>1, <1>6 DEF FirstOfNearest
  <2>2. Shared(k0) * Joined(k) <= Shared(k) * Joined(k0)
    BY <1>1, <1>2, <2>1 DEF Nearer
  <2>3. SUFFICES ASSUME Shared(k) * 20 < 3 * Joined(k) PROVE FALSE
    BY <1>2 DEF NearEnough
  <2>4. PICK e \in Nat, f \in Nat \ {0} : e = 3 /\ f = 20
    OBVIOUS
  <2>5. Shared(k) * f < e * Joined(k)
    BY <2>3, <2>4
  <2>6. Shared(k0) * f < e * Joined(k0)
    BY <1>1, <1>2, <2>2, <2>5, FractionOrder
  <2>7. QED
    BY <1>1, <1>2, <2>4, <2>6 DEF NearEnough
<1>8. Decides(k)
  BY <1>1, <1>6, <1>7 DEF FirstOfNearest, Decides
<1>9. QED
  BY <1>1, <1>8 DEF Deciding

(* One example decides at most, and its band is what score_from_few_shots  *)
(* returns.                                                                *)
FewShotFact ==
  /\ Deciding = {} <=> FewShotBand = "none"
  /\ (\E k \in DOMAIN shots : NearEnough(k)) => Deciding # {}
  /\ \A k \in Deciding : Deciding = {k} /\ FewShotBand = shots[k].band /\ FewShotBand \in Range(Bands)

LEMMA FewShotIs == ScoringTypeOK => FewShotFact
<1> SUFFICES ASSUME ScoringTypeOK PROVE FewShotFact
  OBVIOUS
<1>1. DOMAIN shots = 1..Len(shots)
  BY DEF ScoringTypeOK
<1>2. ASSUME NEW k \in Deciding, NEW m \in Deciding PROVE k = m
  <2>1. k \in DOMAIN shots /\ m \in DOMAIN shots /\ Decides(k) /\ Decides(m)
    BY DEF Deciding
  <2>2. ~(k < m) /\ ~(m < k)
    BY <2>1 DEF Decides
  <2>3. QED
    BY <1>1, <2>1, <2>2
<1>3. \A k \in Deciding : shots[k].band \in Range(Bands)
  BY ExampleIs DEF Deciding
<1>4. ASSUME NEW k \in Deciding PROVE Deciding = {k} /\ FewShotBand = shots[k].band
  <2>1. Deciding = {k}
    BY <1>2
  <2>2. QED
    BY <2>1 DEF FewShotBand
<1>5. \A b \in Range(Bands) : b # "none"
  BY BandSet
<1>6. QED
  BY <1>3, <1>4, <1>5, SomeDecides DEF FewShotFact, FewShotBand

(* The points of the bands, one by one.                                    *)
Described(b) == 4 * Cardinality(tokens \cap Rubric[b])
Spoken       == Cardinality(Occurring(Keywords))
Cautioned    == Cardinality(Occurring(Cues))

ScoresFact ==
  /\ \A b \in Range(Bands) : Described(b) \in Nat
  /\ Spoken \in Nat /\ Cautioned \in Nat
  /\ Scores \in [Range(Bands) -> Int] /\ Scores["0.5"] >= 0
  /\ Scores["0"] = Described("0") + Spoken
  /\ Scores["0.5"] = Described("0.5") + Spoken + (Cautioned + If(sharesPattern, 2) + If(conditional, 3))
  /\ Scores["1"] = Described("1") + Spoken - (2 * Cautioned + If(conditional, 1))
  /\ If(sharesPattern, 2) \in Nat /\ If(conditional, 3) \in Nat /\ If(conditional, 1) \in Nat

LEMMA OccurringFinite ==
  ScoringTypeOK => IsFiniteSet(Occurring(Keywords)) /\ IsFiniteSet(Occurring(Cues))
<1>1. Occurring(Keywords) \subseteq Keywords /\ Occurring(Cues) \subseteq Cues
  BY DEF Occurring
<1>2. QED
  BY <1>1, FS_Subset, ScoringAssumption

LEMMA DescribedFinite ==
  ASSUME ScoringTypeOK, NEW b \in Range(Bands)
  PROVE  IsFiniteSet(tokens \cap Rubric[b])
<1>1. IsFiniteSet(tokens)
  BY FS_Subset, ScoringAssumption DEF ScoringTypeOK
<1>2. QED
  BY <1>1, FS_Intersection

LEMMA ScoresAre == ScoringTypeOK => ScoresFact
<1> SUFFICES ASSUME ScoringTypeOK PROVE ScoresFact
  OBVIOUS
<1>1. Spoken \in Nat /\ Cautioned \in Nat
  BY OccurringFinite, FS_CardinalityType DEF Spoken, Cautioned
<1>2. \A b \in Range(Bands) : Described(b) \in Nat
  <2>1. ASSUME NEW b \in Range(Bands) PROVE Cardinality(tokens \cap Rubric[b]) \in Nat
    BY DescribedFinite, FS_CardinalityType
  <2>2. QED
    BY <2>1 DEF Described
<1>3. \A c, n : n \in Nat => If(c, n) \in Nat
  BY DEF If
<1>4. If(sharesPattern, 2) \in Nat /\ If(conditional, 3) \in Nat /\ If(conditional, 1) \in Nat
  BY <1>3
<1> DEFINE f == Scores
<1>5. f = [b \in Range(Bands) |->
             Described(b) + Spoken
               + If(b = "0.5", Cautioned + If(sharesPattern, 2) + If(conditional, 3))
               - If(b = "1", 2 * Cautioned + If(conditional, 1))]
  BY Zenon DEF Scores, Described, Spoken, Cautioned
<1>6. \A n : If("0" = "0.5", n) = 0 /\ If("1" = "0.5", n) = 0 /\ If("0" = "1", n) = 0 /\ If("0.5" = "1", n) = 0
             /\ If("0.5" = "0.5", n) = n /\ If("1" = "1", n) = n
  BY DEF If
<1> HIDE DEF f
<1>7. /\ f["0"] = Described("0") + Spoken + 0 - 0
      /\ f["0.5"] = Described("0.5") + Spoken + (Cautioned + If(sharesPattern, 2) + If(conditional, 3)) - 0
      /\ f["1"] = Described("1") + Spoken + 0 - (2 * Cautioned + If(conditional, 1))
  BY <1>5, <1>6, BandSet
<1>8. Described("0") \in Nat /\ Described("0.5") \in Nat /\ Described("1") \in Nat
  BY <1>2, BandSet
<1>9. f \in [Range(Bands) -> Int]
  <2>1. f["0"] \in Int /\ f["0.5"] \in Int /\ f["1"] \in Int
    BY <1>1, <1>4, <1>7, <1>8
  <2>2. DOMAIN f = Range(Bands) /\ f = [b \in Range(Bands) |-> f[b]]
    BY <1>5
  <2>3. \A b \in Range(Bands) : f[b] \in Int
    BY <2>1, BandSet
  <2>4. QED
    BY <2>2, <2>3
<1>10. /\ f["0.5"] >= 0
       /\ f["0"] = Described("0") + Spoken
       /\ f["0.5"] = Described("0.5") + Spoken + (Cautioned + If(sharesPattern, 2) + If(conditional, 3))
       /\ f["1"] = Described("1") + Spoken - (2 * Cautioned + If(conditional, 1))
  BY <1>1, <1>4, <1>7, <1>8
<1>11. QED
  BY <1>1, <1>2, <1>4, <1>9, <1>10 DEF f, ScoresFact

(* The band: that of the example, or else an outer band if it leads        *)
(* clearly.                                                                *)
BandFact ==
  /\ Band \in Range(Bands)
  /\ Deciding # {} => Band = FewShotBand
  /\ Deciding = {} => \A b \in {"0", "1"} : Band = b <=> Clear(Scores, b)

LEMMA BandIs == ScoringTypeOK => BandFact
<1> SUFFICES ASSUME ScoringTypeOK PROVE BandFact
  OBVIOUS
<1> DEFINE f == Scores
<1>1. Band = PickBand(f, FewShotBand)
  BY DEF Band
<1>2. FewShotBand # "none" => PickBand(f, FewShotBand) = FewShotBand
  BY DEF PickBand
<1>3. FewShotFact
  BY FewShotIs
<1>4. f \in [Range(Bands) -> Int] /\ f["0.5"] >= 0
  BY ScoresAre DEF ScoresFact
<1> HIDE DEF f
<1>5. /\ PickBand(f, "none") \in Range(Bands)
      /\ \A b \in {"0", "1"} : PickBand(f, "none") = b <=> Clear(f, b)
  BY <1>4, PickIs
<1>6. CASE Deciding = {}
  <2>1. FewShotBand = "none"
    BY <1>3, <1>6 DEF FewShotFact
  <2>2. QED
    BY <1>1, <1>5, <1>6, <2>1 DEF BandFact, f
<1>7. CASE Deciding # {}
  <2>1. FewShotBand # "none" /\ FewShotBand \in Range(Bands)
    BY <1>3, <1>7 DEF FewShotFact
  <2>2. QED
    BY <1>1, <1>2, <1>7, <2>1 DEF BandFact
<1>8. QED
  BY <1>6, <1>7

(* The lead of an outer band, spelled out.                                 *)
LEMMA ClearIs ==
  ASSUME NEW f
  PROVE  /\ Clear(f, "0") <=> f["0"] - f["0.5"] >= 2 /\ f["0"] - f["1"] >= 2
         /\ Clear(f, "1") <=> f["1"] - f["0"] >= 2 /\ f["1"] - f["0.5"] >= 2
  BY BandSet DEF Clear

(* What is said above of a state, of the next one.                         *)
ScoringFacts == FewShotFact /\ ScoresFact /\ BandFact

LEMMA FactsHold == ScoringTypeOK => ScoringFacts
  BY FewShotIs, ScoresAre, BandIs DEF ScoringFacts

(* A word of the claim finds no fewer points than it had, and only those   *)
(* of the bands that it describes and of what it completes.                *)
LEMMA WordFinds ==
  ASSUME ScoringTypeOK, ScoringTypeOK', ScoringFacts, ScoringFacts', NEW w \in Vocabulary, AddWord(w)
  PROVE  /\ \A b \in Range(Bands) :
              Described(b) <= Described(b)' /\ (w \notin Rubric[b] => Described(b)' = Described(b))
         /\ Spoken <= Spoken' /\ Cautioned <= Cautioned'
         /\ Occurring(Cues)' = Occurring(Cues) => Cautioned' = Cautioned
<1>1. tokens' = tokens \cup {w}
  BY DEF AddWord
<1>2. \A S : Occurring(S) \subseteq Occurring(S)'
  BY <1>1 DEF Occurring
<1>3. IsFiniteSet(Occurring(Keywords)') /\ IsFiniteSet(Occurring(Cues)')
  <2>1. Occurring(Keywords)' \subseteq Keywords /\ Occurring(Cues)' \subseteq Cues
    BY DEF Occurring
  <2>2. QED
    BY <2>1, FS_Subset, ScoringAssumption
<1>4. Spoken <= Spoken' /\ Cautioned <= Cautioned'
  BY <1>2, <1>3, FS_Subset DEF Spoken, Cautioned
<1>5. ASSUME NEW b \in Range(Bands)
      PROVE  Described(b) <= Described(b)' /\ (w \notin Rubric[b] => Described(b)' = Described(b))
  <2> DEFINE S == tokens \cap Rubric[b]
             T == tokens' \cap Rubric[b]
  <2>1. IsFiniteSet(tokens')
    BY FS_Subset, ScoringAssumption DEF ScoringTypeOK
  <2>2. IsFiniteSet(T) /\ S \subseteq T /\ (w \notin Rubric[b] => T = S)
    BY <1>1, <2>1, FS_Intersection
  <2> HIDE DEF S, T
  <2>3. Cardinality(S) <= Cardinality(T) /\ Cardinality(S) \in Nat /\ Cardinality(T) \in Nat
    BY <2>2, FS_Subset, FS_CardinalityType
  <2>4. Described(b) = 4 * Cardinality(S) /\ Described(b)' = 4 * Cardinality(T)
    BY DEF Described, S, T
  <2>5. QED
    BY <2>2, <2>3, <2>4
<1>6. Occurring(Cues)' = Occurring(Cues) => Cautioned' = Cautioned
  BY DEF Cautioned
<1>7. QED
  BY <1>4, <1>5, <1>6

LEMMA WordMovesBand ==
  ASSUME ScoringTypeOK, ScoringTypeOK', ScoringFacts, ScoringFacts', NEW w \in Vocabulary, AddWord(w)
  PROVE  WordMoves(w)
<1> SUFFICES ASSUME Deciding = {}, Deciding' = {}
             PROVE  Band' \in {Band, "0.5"} \cup {b \in Range(Bands) : w \in Rubric[b]}
                              \cup {b \in {"0"} : Occurring(Cues)' # Occurring(Cues)}
  BY DEF WordMoves
<1> DEFINE f == Scores
           g == Scores'
           shared == If(sharesPattern, 2)
           three == If(conditional, 3)
           one == If(conditional, 1)
<1>1. /\ f["0"] = Described("0") + Spoken
      /\ f["0.5"] = Described("0.5") + Spoken + (Cautioned + shared + three)
      /\ f["1"] = Described("1") + Spoken - (2 * Cautioned + one)
      /\ shared \in Nat /\ three \in Nat /\ one \in Nat /\ Spoken \in Nat /\ Cautioned \in Nat
      /\ Described("0") \in Nat /\ Described("0.5") \in Nat /\ Described("1") \in Nat
  BY BandSet DEF ScoringFacts, ScoresFact
<1>2. /\ g["0"] = Described("0")' + Spoken'
      /\ g["0.5"] = Described("0.5")' + Spoken' + (Cautioned' + shared' + three')
      /\ g["1"] = Described("1")' + Spoken' - (2 * Cautioned' + one')
      /\ Spoken' \in Nat /\ Cautioned' \in Nat
      /\ Described("0")' \in Nat /\ Described("0.5")' \in Nat /\ Described("1")' \in Nat
  BY BandSet DEF ScoringFacts, ScoresFact
<1>3. shared' = shared /\ three' = three /\ one' = one
  BY DEF AddWord
<1>4. /\ \A b \in {"0", "0.5", "1"} :
           Described(b) <= Described(b)' /\ (w \notin Rubric[b] => Described(b)' = Described(b))
      /\ Spoken <= Spoken' /\ Cautioned <= Cautioned'
      /\ Occurring(Cues)' = Occurring(Cues) => Cautioned' = Cautioned
  BY WordFinds, BandSet
<1>5. /\ Clear(f, "0") <=> f["0"] - f["0.5"] >= 2 /\ f["0"] - f["1"] >= 2
      /\ Clear(f, "1") <=> f["1"] - f["0"] >= 2 /\ f["1"] - f["0.5"] >= 2
      /\ Clear(g, "0") <=> g["0"] - g["0.5"] >= 2 /\ g["0"] - g["1"] >= 2
      /\ Clear(g, "1") <=> g["1"] - g["0"] >= 2 /\ g["1"] - g["0.5"] >= 2
  BY ClearIs
<1>6. /\ Band' \in {"0", "0.5", "1"}
      /\ (Band = "0" <=> Clear(f, "0")) /\ (Band = "1" <=> Clear(f, "1"))
      /\ (Band' = "0" <=> Clear(g, "0")) /\ (Band' = "1" <=> Clear(g, "1"))
  BY BandSet DEF ScoringFacts, BandFact
<1> HIDE DEF f, g, shared, three, one
<1>7. ASSUME Band' = "0", w \notin Rubric["0"], Occurring(Cues)' = Occurring(Cues) PROVE Band = "0"
  <2>1. Described("0")' = Described("0") /\ Cautioned' = Cautioned
        /\ Described("0.5") <= Described("0.5")' /\ Described("1") <= Described("1")'
    BY <1>4, <1>7
  <2>2. Clear(g, "0")
    BY <1>6, <1>7
  <2>3. Clear(f, "0")
    BY <1>1, <1>2, <1>3, <1>4, <1>5, <2>1, <2>2
  <2>4. QED
    BY <1>6, <2>3
<1>8. ASSUME Band' = "1", w \notin Rubric["1"] PROVE Band = "1"
  <2>1. Described("1")' = Described("1")
        /\ Described("0") <= Described("0")' /\ Described("0.5") <= Described("0.5")'
    BY <1>4, <1>8
  <2>2. Clear(g, "1")
    BY <1>6, <1>8
  <2>3. Clear(f, "1")
    BY <1>1, <1>2, <1>3, <1>4, <1>5, <2>1, <2>2
  <2>4. QED
    BY <1>6, <2>3
<1>9. QED
  BY <1>6, <1>7, <1>8, BandSet

(* How a further word changes the overlap with an example.                 *)
LEMMA WordOverlaps ==
  ASSUME ScoringTypeOK, NEW w \in Vocabulary, AddWord(w), NEW k \in DOMAIN shots
  PROVE  /\ w \in shots[k].words => Shared(k)' = Shared(k) + 1 /\ Joined(k)' = Joined(k)
         /\ w \notin shots[k].words => Shared(k)' = Shared(k) /\ Joined(k)' = Joined(k) + 1
<1> DEFINE x == shots[k].words
<1>1. tokens' = tokens \cup {w} /\ shots' = shots /\ w \notin tokens
  BY DEF AddWord
<1>2. IsFiniteSet(x) /\ IsFiniteSet(tokens)
  BY ExampleIs
<1>3. Shared(k) = Cardinality(tokens \cap x) /\ Joined(k) = Cardinality(tokens \cup x)
      /\ Shared(k)' = Cardinality((tokens \cup {w}) \cap x) /\ Joined(k)' = Cardinality((tokens \cup {w}) \cup x)
  BY <1>1 DEF Shared, Joined
<1> HIDE DEF x
<1>4. IsFiniteSet(tokens \cap x) /\ IsFiniteSet(tokens \cup x)
  BY <1>2, FS_Intersection, FS_Union
<1>5. CASE w \in x
  <2>1. (tokens \cup {w}) \cap x = (tokens \cap x) \cup {w} /\ w \notin tokens \cap x
        /\ (tokens \cup {w}) \cup x = tokens \cup x
    BY <1>1, <1>5
  <2>2. QED
    BY <1>3, <1>4, <1>5, <2>1, FS_AddElement DEF x
<1>6. CASE w \notin x
  <2>1. (tokens \cup {w}) \cap x = tokens \cap x /\ w \notin tokens \cup x
        /\ (tokens \cup {w}) \cup x = (tokens \cup x) \cup {w}
    BY <1>1, <1>6
  <2>2. QED
    BY <1>3, <1>4, <1>6, <2>1, FS_AddElement DEF x
<1>7. QED
  BY <1>5, <1>6

LEMMA WordDecidesBand ==
  ASSUME ScoringTypeOK, ScoringTypeOK', ScoringFacts, ScoringFacts', NEW w \in Vocabulary, AddWord(w)
  PROVE  WordDecides(w)
<1> DEFINE having == {k \in DOMAIN shots : w \in shots[k].words}
<1>1. shots' = shots
  BY DEF AddWord
<1>2. \A k \in DOMAIN shots : Shared(k) \in Nat /\ Joined(k) \in Nat \ {0}
  BY ExampleIs
<1>3. ASSUME Deciding # {}, having = Deciding PROVE Band' = Band
  <2>1. PICK k \in Deciding : TRUE
    BY <1>3
  <2>2. Deciding = {k} /\ k \in DOMAIN shots /\ Decides(k) /\ FewShotBand = shots[k].band
    BY <2>1 DEF ScoringFacts, FewShotFact, Deciding
  <2>3. Shared(k)' = Shared(k) + 1 /\ Joined(k)' = Joined(k)
    BY <1>3, <2>2, WordOverlaps
  <2>4. NearEnough(k)'
    BY <1>2, <2>2, <2>3 DEF Decides, NearEnough
  <2>5. ASSUME NEW j \in DOMAIN shots, j # k PROVE Nearer(k, j)' /\ ~Nearer(j, k)'
    <3>1. Shared(j)' = Shared(j) /\ Joined(j)' = Joined(j) + 1
      <4>1. w \notin shots[j].words
        BY <1>3, <2>2, <2>5
      <4>2. QED
        BY <4>1, WordOverlaps
    <3>2. Shared(j) * Joined(k) <= Shared(k) * Joined(j)
      BY <1>2, <2>2, <2>5 DEF Decides, Nearer
    <3>3. Shared(j) * Joined(k) < (Shared(k) + 1) * (Joined(j) + 1)
      <4>1. (Shared(k) + 1) * (Joined(j) + 1) = Shared(k) * Joined(j) + Shared(k) + Joined(j) + 1
        BY <1>2, <2>2, <2>5
      <4>2. Shared(j) * Joined(k) \in Nat /\ Shared(k) * Joined(j) \in Nat
        BY <1>2, <2>2, <2>5
      <4>3. QED
        BY <1>2, <2>2, <2>5, <3>2, <4>1, <4>2
    <3>4. (Shared(k) + 1) * (Joined(j) + 1) \in Nat /\ Shared(j) * Joined(k) \in Nat
      BY <1>2, <2>2, <2>5
    <3>5. QED
      BY <2>3, <3>1, <3>3, <3>4 DEF Nearer
  <2>6. ~Nearer(k, k)'
    <3>1. Shared(k)' * Joined(k)' \in Nat
      BY <1>2, <2>2, <2>3
    <3>2. QED
      BY <3>1 DEF Nearer
  <2>7. k \in Deciding'
    <3>1. \A j \in DOMAIN shots' : ~Nearer(j, k)' /\ (j < k => Nearer(k, j)')
      <4>1. k \in Nat
        BY <2>2 DEF ScoringTypeOK
      <4>2. QED
        BY <1>1, <2>5, <2>6, <4>1
    <3>2. QED
      BY <1>1, <2>2, <2>4, <3>1 DEF Deciding, Decides
  <2>8. FewShotBand' = shots[k].band
    BY <1>1, <2>7 DEF ScoringFacts, FewShotFact
  <2>9. Band = FewShotBand /\ Band' = FewShotBand'
    BY <1>3, <2>7 DEF ScoringFacts, BandFact
  <2>10. QED
    BY <2>2, <2>8, <2>9
<1>4. ASSUME Deciding = {}, having = {} PROVE Deciding' = {}
  <2>1. ASSUME NEW k \in Deciding' PROVE FALSE
    <3>1. k \in DOMAIN shots /\ NearEnough(k)'
      BY <1>1 DEF Deciding, Decides
    <3>2. Shared(k)' = Shared(k) /\ Joined(k)' = Joined(k) + 1
      BY <1>4, <3>1, WordOverlaps
    <3>3. NearEnough(k)
      BY <1>2, <3>1, <3>2 DEF NearEnough
    <3>4. QED
      BY <1>4, <3>1, <3>3 DEF ScoringFacts, FewShotFact
  <2>2. QED
    BY <2>1
<1>5. QED
  BY <1>3, <1>4 DEF WordDecides

LEMMA ShotMovesBand ==
  ASSUME ScoringTypeOK, ScoringTypeOK', ScoringFacts, ScoringFacts', NEW s \in Examples, AddShot(s)
  PROVE  Band' \in {Band, Last(shots').band}
<1> DEFINE n == Len(shots) + 1
<1>1. shots' = Append(shots, s) /\ UNCHANGED <<tokens, sharesPattern, conditional>>
  BY DEF AddShot
<1>2. shots \in Seq(Examples)
  BY DEF ScoringTypeOK
<1>3. /\ DOMAIN shots' = DOMAIN shots \cup {n} /\ n \notin DOMAIN shots /\ shots'[n] = Last(shots')
      /\ \A k \in DOMAIN shots : shots'[k] = shots[k]
  BY <1>1, <1>2 DEF Last
<1> HIDE DEF n
<1>4. ASSUME NEW k \in DOMAIN shots PROVE Shared(k)' = Shared(k) /\ Joined(k)' = Joined(k)
  BY <1>1, <1>3 DEF Shared, Joined
<1>5. ASSUME NEW k \in DOMAIN shots, NearEnough(k) PROVE NearEnough(k)'
  BY <1>4, <1>5 DEF NearEnough
<1>6. CASE Deciding' = {}
  <2>1. Deciding = {}
    <3>1. ASSUME NEW k \in Deciding PROVE FALSE
      <4>1. k \in DOMAIN shots' /\ NearEnough(k)'
        BY <1>3, <1>5 DEF Deciding, Decides
      <4>2. QED
        BY <1>6, <4>1 DEF ScoringFacts, FewShotFact
    <3>2. QED
      BY <3>1
  <2>2. Scores' = Scores
    BY <1>1 DEF Scores, Occurring
  <2>3. \A b \in {"0", "1"} : Band' = b <=> Band = b
    BY <1>6, <2>1, <2>2 DEF ScoringFacts, BandFact
  <2>4. Band \in {"0", "0.5", "1"} /\ Band' \in {"0", "0.5", "1"}
    BY BandSet DEF ScoringFacts, BandFact
  <2>5. QED
    BY <2>3, <2>4
<1>7. CASE Deciding' # {}
  <2>1. PICK k \in Deciding' : TRUE
    BY <1>7
  <2>2. Band' = shots'[k].band /\ k \in DOMAIN shots'
    BY <1>7, <2>1 DEF ScoringFacts, FewShotFact, BandFact, Deciding
  <2>3. CASE k = n
    BY <1>3, <2>2, <2>3
  <2>4. CASE k \in DOMAIN shots
    <3>1. NearEnough(k)' /\ \A j \in DOMAIN shots : ~Nearer(j, k)' /\ (j < k => Nearer(k, j)')
      BY <1>3, <2>1 DEF Deciding, Decides
    <3>2. NearEnough(k)
      BY <1>4, <2>4, <3>1 DEF NearEnough
    <3>3. \A j \in DOMAIN shots : ~Nearer(j, k) /\ (j < k => Nearer(k, j))
      BY <1>4, <2>4, <3>1 DEF Nearer
    <3>4. k \in Deciding
      BY <2>4, <3>2, <3>3 DEF Deciding, Decides
    <3>5. Band = shots[k].band
      BY <3>4 DEF ScoringFacts, FewShotFact, BandFact
    <3>6. QED
      BY <1>3, <2>2, <2>4, <3>5
  <2>5. QED
    BY <1>3, <2>2, <2>3, <2>4
<1>8. QED
  BY <1>6, <1>7

(* The band moves only the way of what is found (BandFollowsFindings).     *)
THEOREM BandFollows == ScoringSpec => BandFollowsFindings
<1>1. (ScoringTypeOK => ScoringFacts)'
  BY FactsHold, PTL
<1>2. ScoringTypeOK /\ ScoringTypeOK' /\ [ScoringNext]_scoringVars => [BandStep]_scoringVars
  <2> SUFFICES ASSUME ScoringTypeOK, ScoringTypeOK', ScoringNext PROVE BandStep
    OBVIOUS
  <2>1. ScoringFacts /\ ScoringFacts'
    BY <1>1, FactsHold
  <2>2. ASSUME NEW w \in Vocabulary, AddWord(w) PROVE BandStep
    <3>1. tokens' \ tokens = {w} /\ shots' = shots
      BY <2>2 DEF AddWord
    <3>2. WordMoves(w) /\ WordDecides(w)
      BY <2>1, <2>2, WordMovesBand, WordDecidesBand
    <3>3. QED
      BY <3>1, <3>2 DEF BandStep
  <2>3. ASSUME NEW s \in Examples, AddShot(s) PROVE BandStep
    <3>1. tokens' = tokens
      BY <2>3 DEF AddShot
    <3>2. Band' \in {Band, Last(shots').band}
      BY <2>1, <2>3, ShotMovesBand
    <3>3. QED
      BY <3>1, <3>2 DEF BandStep
  <2>4. QED
    BY <2>2, <2>3 DEF ScoringNext
<1>3. QED
  BY <1>2, ScoringTyped, PTL DEF BandFollowsFindings, ScoringSpec

-----------------------------------------------------------------------------
(* Recommendations                                                         *)

Invocations ==
  [step : {"idle", "coverage", "layer2", "done"}, finding : Findings \cup {Missing},
   left : SUBSET (Nat \cup (Nat \X ScoredClaims))]

(* The rows are tables, an invocation under way is about a finding.        *)
RecommendationsTyped ==
  /\ claimRows = [c \in ScoredClaims |-> claimRows[c]]
  /\ coverageRows = [i \in CoveredIndicators |-> coverageRows[i]]
  /\ bandRows = [c \in ScoredClaims |-> bandRows[c]]
  /\ scoring \in [Scorers -> Invocations]
  /\ \A w \in Scorers :
       /\ scoring[w].step # "idle" => scoring[w].finding \in Findings
       /\ scoring[w].step = "coverage" => scoring[w].left \subseteq DOMAIN scoring[w].finding.cells
       /\ scoring[w].step = "layer2" => scoring[w].left \subseteq ToRecommend(scoring[w].finding)

(* Whatever has a band or is in a coverage row has been counted, and so    *)
(* has what a run is past counting.                                        *)
CountedFirst ==
  /\ \A c \in ScoredClaims : bandRows[c] \notin {Missing, "null"} => c \in everCounted
  /\ \A i \in CoveredIndicators : coverageRows[i] # Missing => coverageRows[i] \subseteq everCounted
  /\ \A w \in Scorers : scoring[w].step # "idle" =>
       \A n \in DOMAIN scoring[w].finding.cells :
         \/ scoring[w].step = "coverage" /\ n \in scoring[w].left
         \/ Counted(scoring[w].finding, scoring[w].finding.cells[n].indicator) \subseteq everCounted

(* The recommendation of a run that was made for a claim.                  *)
RunsOwn(f, c) == Recommend(c, f.found[c].text, f.found[c].pillar, Counted(f, IndicatorOf[c]))

(* The rows of a run that nothing overlaps are as it has saved them.       *)
RowsAreIts(w) ==
  LET f == scoring[w].finding
  IN  /\ \A u \in Scorers \ {w} : scoring[u].step \in {"idle", "done"}
      /\ scoring[w].step # "idle" =>
           /\ \A c \in DOMAIN f.found : claimRows[c] = f.found[c]
           /\ \A n \in DOMAIN f.cells :
                \/ scoring[w].step = "coverage" /\ n \in scoring[w].left
                \/ coverageRows[f.cells[n].indicator] = Counted(f, f.cells[n].indicator)
           /\ \A x \in ToRecommend(f) :
                \/ scoring[w].step = "coverage"
                \/ scoring[w].step = "layer2" /\ x \in scoring[w].left
                \/ Unshared(f, x[2]) => bandRows[x[2]] = RunsOwn(f, x[2])

RecommendationsInv ==
  /\ RecommendationsTyped /\ CountedFirst
  /\ \A w \in Scorers : alone[w] => RowsAreIts(w)

(* A finding's claims are claims, its cells have indicators of claims.     *)
LEMMA FindingFacts ==
  ASSUME NEW f \in Findings
  PROVE  /\ f.counted \subseteq f.verified /\ f.verified \subseteq DOMAIN f.found
         /\ DOMAIN f.found \subseteq ScoredClaims
         /\ DOMAIN f.cells \subseteq Nat /\ ToRecommend(f) \subseteq Nat \X ScoredClaims
         /\ \A n \in DOMAIN f.cells : f.cells[n].indicator \in CoveredIndicators
         /\ \A c \in DOMAIN f.found : \E n \in DOMAIN f.cells :
              f.cells[n].pillar = f.found[c].pillar /\ f.cells[n].indicator = IndicatorOf[c]
<1>1. Finding(f)
  BY RecommendationsAssumption
<1>2. \A n \in DOMAIN f.cells : f.cells[n].indicator \in CoveredIndicators
  <2> DEFINE Cells == [pillar : PillarIds, indicator : CoveredIndicators]
  <2>1. f.cells \in Seq(Cells)
    BY <1>1 DEF Finding, CoveredIndicators
  <2> HIDE DEF Cells
  <2>2. \A n \in DOMAIN f.cells : f.cells[n] \in Cells
    BY <2>1
  <2>3. QED
    BY <2>2 DEF Cells
<1>3. ASSUME NEW c \in DOMAIN f.found
      PROVE  \E n \in DOMAIN f.cells : f.cells[n].pillar = f.found[c].pillar /\ f.cells[n].indicator = IndicatorOf[c]
  <2>1. PICK n \in DOMAIN f.cells : f.cells[n] = [pillar |-> f.found[c].pillar, indicator |-> IndicatorOf[c]]
    BY <1>1, <1>3 DEF Finding
  <2>2. QED
    BY <2>1
<1>4. DOMAIN f.cells \subseteq Nat
  <2>1. DOMAIN f.cells = 1..Len(f.cells) /\ Len(f.cells) \in Nat
    BY <1>1 DEF Finding
  <2>2. QED
    BY <2>1
<1>5. ToRecommend(f) \subseteq Nat \X ScoredClaims
  BY <1>1, <1>4 DEF Finding, ToRecommend
<1>6. QED
  BY <1>1, <1>2, <1>3, <1>4, <1>5 DEF Finding

(* The types stay when one invocation is replaced by one of its type.      *)
LEMMA StaysTyped ==
  ASSUME RecommendationsTyped, NEW w \in Scorers, NEW s \in Invocations,
         scoring' = [scoring EXCEPT ![w] = s],
         s.step # "idle" => s.finding \in Findings,
         s.step = "coverage" => s.left \subseteq DOMAIN s.finding.cells,
         s.step = "layer2" => s.left \subseteq ToRecommend(s.finding),
         claimRows' = [c \in ScoredClaims |-> claimRows'[c]],
         coverageRows' = [i \in CoveredIndicators |-> coverageRows'[i]],
         bandRows' = [c \in ScoredClaims |-> bandRows'[c]]
  PROVE  /\ RecommendationsTyped'
         /\ scoring'[w] = s /\ \A v \in Scorers \ {w} : scoring'[v] = scoring[v]
<1>1. scoring \in [Scorers -> Invocations]
  BY DEF RecommendationsTyped
<1>2. /\ scoring' \in [Scorers -> Invocations]
      /\ scoring'[w] = s /\ \A v \in Scorers \ {w} : scoring'[v] = scoring[v]
  BY <1>1
<1>3. ASSUME NEW v \in Scorers
      PROVE  /\ scoring'[v].step # "idle" => scoring'[v].finding \in Findings
             /\ scoring'[v].step = "coverage" => scoring'[v].left \subseteq DOMAIN scoring'[v].finding.cells
             /\ scoring'[v].step = "layer2" => scoring'[v].left \subseteq ToRecommend(scoring'[v].finding)
  BY <1>2 DEF RecommendationsTyped
<1>5. QED
  BY <1>2, <1>3 DEF RecommendationsTyped, ToRecommend

LEMMA RecommendationsInitInv == RecommendationsInit => RecommendationsInv
<1>1. SUFFICES ASSUME RecommendationsInit PROVE RecommendationsInv
  OBVIOUS
<1>2. RecommendationsTyped
  <2>1. Idle \in Invocations
    BY DEF Idle, Invocations
  <2>2. QED
    BY <1>1, <2>1 DEF RecommendationsInit, RecommendationsTyped, Idle
<1>3. CountedFirst
  BY <1>1 DEF RecommendationsInit, CountedFirst, Idle, CoveredIndicators
<1>4. ASSUME NEW w \in Scorers PROVE ~alone[w]
  BY <1>1 DEF RecommendationsInit
<1>5. QED
  BY <1>2, <1>3, <1>4 DEF RecommendationsInv

(* A run begins: it is alone if no other is under way.                     *)
LEMMA BeginsWell ==
  ASSUME RecommendationsInv, NEW w \in Scorers, NEW f \in Findings, BeginScoring(w, f)
  PROVE  RecommendationsInv'
<1> DEFINE s == [step |-> "coverage", finding |-> f, left |-> DOMAIN f.cells]
<1>1. /\ scoring' = [scoring EXCEPT ![w] = s] /\ scoring'[w] = s
      /\ \A v \in Scorers \ {w} : scoring'[v] = scoring[v]
      /\ RecommendationsTyped'
  <2>1. s \in Invocations
    BY FindingFacts DEF Invocations
  <2>2. RecommendationsTyped
    BY DEF RecommendationsInv
  <2>3. /\ claimRows' = [c \in ScoredClaims |-> claimRows'[c]]
        /\ coverageRows' = [i \in CoveredIndicators |-> coverageRows'[i]]
        /\ bandRows' = [c \in ScoredClaims |-> bandRows'[c]]
    BY <2>2 DEF BeginScoring, RecommendationsTyped
  <2>4. QED
    BY <2>1, <2>2, <2>3, StaysTyped DEF BeginScoring
<1>3. CountedFirst'
  BY <1>1 DEF BeginScoring, RecommendationsInv, CountedFirst, Counted
<1>4. ASSUME NEW v \in Scorers, alone'[v]
      PROVE  RowsAreIts(v)'
  <2>1. v = w /\ \A u \in Scorers \ {w} : scoring[u].step \in {"idle", "done"}
    BY <1>4 DEF BeginScoring
  <2>2. \A c \in DOMAIN f.found : claimRows'[c] = f.found[c]
    BY FindingFacts DEF BeginScoring
  <2>3. QED
    BY <1>1, <2>1, <2>2 DEF RowsAreIts
<1>5. QED
  BY <1>1, <1>3, <1>4 DEF RecommendationsInv

(* The coverage row of one cell is saved.                                  *)
LEMMA RowSavesWell ==
  ASSUME RecommendationsInv, NEW w \in Scorers, NEW n \in scoring[w].left,
         scoring[w].step = "coverage", n \in DOMAIN scoring[w].finding.cells,
         coverageRows' = [coverageRows EXCEPT ![scoring[w].finding.cells[n].indicator] =
                            Counted(scoring[w].finding, scoring[w].finding.cells[n].indicator)],
         everCounted' = everCounted \cup Counted(scoring[w].finding, scoring[w].finding.cells[n].indicator),
         GoOn(w, "coverage", scoring[w].left \ {n}),
         UNCHANGED <<claimRows, bandRows, alone, scorings>>
  PROVE  RecommendationsInv'
<1> DEFINE f == scoring[w].finding
           i == f.cells[n].indicator
<1> DEFINE s == [step |-> "coverage", finding |-> f, left |-> scoring[w].left \ {n}]
<1>2. f \in Findings /\ i \in CoveredIndicators
  <2>1. f \in Findings
    BY DEF RecommendationsInv, RecommendationsTyped
  <2>2. QED
    BY <2>1, FindingFacts
<1>3. /\ scoring'[w] = s /\ \A v \in Scorers \ {w} : scoring'[v] = scoring[v]
      /\ RecommendationsTyped'
  <2>1. RecommendationsTyped /\ scoring[w] \in Invocations
    BY DEF RecommendationsInv, RecommendationsTyped
  <2>2. s \in Invocations /\ s.left \subseteq DOMAIN f.cells
    BY <1>2, <2>1 DEF Invocations, RecommendationsInv, RecommendationsTyped
  <2>3. /\ claimRows' = [c \in ScoredClaims |-> claimRows'[c]]
        /\ coverageRows' = [j \in CoveredIndicators |-> coverageRows'[j]]
        /\ bandRows' = [c \in ScoredClaims |-> bandRows'[c]]
    BY <1>2, <2>1 DEF RecommendationsTyped
  <2>4. QED
    BY <1>2, <2>1, <2>2, <2>3, StaysTyped DEF GoOn
<1>4. /\ coverageRows'[i] = Counted(f, i)
      /\ \A j \in CoveredIndicators \ {i} : coverageRows'[j] = coverageRows[j]
  BY <1>2 DEF RecommendationsInv, RecommendationsTyped
<1>5. CountedFirst'
  BY <1>3, <1>2, <1>4 DEF RecommendationsInv, CountedFirst, Counted
<1>6. ASSUME NEW v \in Scorers, alone'[v]
      PROVE  RowsAreIts(v)'
  <2>1. RowsAreIts(v) /\ alone[v]
    BY <1>6 DEF RecommendationsInv
  <2>2. v = w
    BY <2>1 DEF RowsAreIts
  <2>3. \A m \in DOMAIN f.cells :
          \/ m \in scoring'[w].left
          \/ coverageRows'[f.cells[m].indicator] = Counted(f, f.cells[m].indicator)
    BY <1>3, <1>2, <1>4, <2>1, <2>2, FindingFacts DEF RowsAreIts
  <2>4. QED
    BY <1>3, <2>1, <2>2, <2>3 DEF RowsAreIts, Counted
<1>7. QED
  BY <1>3, <1>5, <1>6 DEF RecommendationsInv

(* All rows are saved: the recommendations are made.                       *)
LEMMA LayersWell ==
  ASSUME RecommendationsInv, NEW w \in Scorers,
         scoring[w].step = "coverage", scoring[w].left = {},
         GoOn(w, "layer2", ToRecommend(scoring[w].finding)),
         UNCHANGED <<claimRows, coverageRows, bandRows, alone, everCounted, scorings>>
  PROVE  RecommendationsInv'
<1> DEFINE f == scoring[w].finding
<1>1. /\ scoring'[w] = [step |-> "layer2", finding |-> f, left |-> ToRecommend(f)]
      /\ \A v \in Scorers \ {w} : scoring'[v] = scoring[v]
      /\ RecommendationsTyped'
  <2>1. RecommendationsTyped /\ f \in Findings
    BY DEF RecommendationsInv, RecommendationsTyped
  <2>2. [step |-> "layer2", finding |-> f, left |-> ToRecommend(f)] \in Invocations
    BY <2>1, FindingFacts DEF Invocations
  <2>3. QED
    BY <2>1, <2>2, StaysTyped DEF GoOn, RecommendationsTyped
<1>3. CountedFirst'
  BY <1>1 DEF RecommendationsInv, CountedFirst, Counted
<1>4. ASSUME NEW v \in Scorers, alone'[v]
      PROVE  RowsAreIts(v)'
  <2>1. RowsAreIts(v) /\ v = w
    BY <1>4 DEF RecommendationsInv, RowsAreIts
  <2>2. QED
    BY <1>1, <2>1 DEF RowsAreIts, ToRecommend, Counted
<1>5. QED
  BY <1>1, <1>3, <1>4 DEF RecommendationsInv

(* One recommendation is saved.                                            *)
LEMMA BandSavesWell ==
  ASSUME RecommendationsInv, NEW w \in Scorers, NEW x \in scoring[w].left,
         scoring[w].step = "layer2",
         bandRows' = [bandRows EXCEPT ![x[2]] =
           Recommend(x[2], scoring[w].finding.found[x[2]].text, scoring[w].finding.cells[x[1]].pillar,
                     Counted(scoring[w].finding, IndicatorOf[x[2]]))],
         GoOn(w, "layer2", scoring[w].left \ {x}),
         UNCHANGED <<claimRows, coverageRows, alone, everCounted, scorings>>
  PROVE  RecommendationsInv'
<1> DEFINE f == scoring[w].finding
           c == x[2]
<1>2. /\ f \in Findings /\ x \in ToRecommend(f)
      /\ x[1] \in DOMAIN f.cells /\ c \in f.verified /\ IndicatorOf[c] = f.cells[x[1]].indicator
  BY DEF RecommendationsInv, RecommendationsTyped, ToRecommend
<1>3. c \in ScoredClaims
  BY <1>2, FindingFacts
<1> DEFINE s == [step |-> "layer2", finding |-> f, left |-> scoring[w].left \ {x}]
<1>4. /\ scoring'[w] = s /\ \A v \in Scorers \ {w} : scoring'[v] = scoring[v]
      /\ RecommendationsTyped'
  <2>1. RecommendationsTyped /\ scoring[w] \in Invocations
    BY DEF RecommendationsInv, RecommendationsTyped
  <2>2. s \in Invocations /\ s.left \subseteq ToRecommend(f)
    BY <1>2, <2>1 DEF Invocations, RecommendationsTyped
  <2>3. bandRows' = [d \in ScoredClaims |-> bandRows'[d]]
    BY <1>3, <2>1 DEF RecommendationsTyped
  <2>4. QED
    BY <1>2, <2>1, <2>2, <2>3, StaysTyped DEF GoOn, RecommendationsTyped
<1>5. /\ bandRows'[c] = Recommend(c, f.found[c].text, f.cells[x[1]].pillar, Counted(f, IndicatorOf[c]))
      /\ \A d \in ScoredClaims \ {c} : bandRows'[d] = bandRows[d]
  BY <1>3 DEF RecommendationsInv, RecommendationsTyped
<1>6. CountedFirst'
  <2>1. Counted(f, IndicatorOf[c]) \subseteq everCounted
    BY <1>2 DEF RecommendationsInv, CountedFirst
  <2>2. bandRows'[c] # "null" => c \in everCounted
    BY <1>5, <2>1 DEF Recommend
  <2>3. \A d \in ScoredClaims : bandRows'[d] \notin {Missing, "null"} => d \in everCounted'
    BY <1>5, <2>2 DEF RecommendationsInv, CountedFirst
  <2>4. \A v \in Scorers : scoring'[v].step # "idle" =>
          /\ scoring[v].step # "idle" /\ scoring'[v].finding = scoring[v].finding
          /\ scoring'[v].step = scoring[v].step
          /\ scoring'[v].step = "coverage" => scoring'[v].left = scoring[v].left
    BY <1>4
  <2>5. QED
    BY <2>3, <2>4 DEF RecommendationsInv, CountedFirst, Counted
<1>7. ASSUME NEW v \in Scorers, alone'[v]
      PROVE  RowsAreIts(v)'
  <2>1. RowsAreIts(v) /\ v = w
    BY <1>7 DEF RecommendationsInv, RowsAreIts
  <2>2. ASSUME NEW y \in ToRecommend(f), y \notin scoring'[w].left, Unshared(f, y[2])
        PROVE  bandRows'[y[2]] = RunsOwn(f, y[2])
    <3>1. CASE y[2] = c
      <4>1. f.cells[x[1]].pillar = f.found[c].pillar
        BY <1>2, <2>2, <3>1 DEF Unshared
      <4>2. QED
        BY <1>5, <3>1, <4>1 DEF RunsOwn
    <3>2. CASE y[2] # c
      <4>1. y \notin scoring[w].left
        BY <1>4, <2>2, <3>2
      <4>2. bandRows[y[2]] = RunsOwn(f, y[2])
        BY <2>1, <2>2, <4>1 DEF RowsAreIts
      <4>3. y[2] \in ScoredClaims
        BY <1>2, FindingFacts DEF ToRecommend
      <4>4. QED
        BY <1>5, <3>2, <4>2, <4>3
    <3>3. QED
      BY <3>1, <3>2
  <2>3. \A y \in ToRecommend(f) :
          y \in scoring'[w].left \/ (Unshared(f, y[2]) => bandRows'[y[2]] = RunsOwn(f, y[2]))
    BY <2>2
  <2>4. \A n \in DOMAIN f.cells : coverageRows[f.cells[n].indicator] = Counted(f, f.cells[n].indicator)
    BY <2>1 DEF RowsAreIts
  <2>5. \A d \in DOMAIN f.found : claimRows[d] = f.found[d]
    BY <2>1 DEF RowsAreIts
  <2>6. \A u \in Scorers \ {w} : scoring'[u].step \in {"idle", "done"}
    BY <1>4, <2>1 DEF RowsAreIts
  <2>7. QED
    BY <1>4, <2>1, <2>3, <2>4, <2>5, <2>6 DEF RowsAreIts
<1>8. QED
  BY <1>4, <1>6, <1>7 DEF RecommendationsInv

(* A run ends, or is ended.                                                *)
LEMMA EndsWell ==
  ASSUME RecommendationsInv, NEW w \in Scorers,
         \/ scoring[w].step = "layer2" /\ scoring[w].left = {} /\ GoOn(w, "done", {})
         \/ scoring' = [scoring EXCEPT ![w] = Idle],
         UNCHANGED <<claimRows, coverageRows, bandRows, alone, everCounted, scorings>>
  PROVE  RecommendationsInv'
<1> DEFINE f == scoring[w].finding
           s == IF scoring'[w].step = "done" THEN [step |-> "done", finding |-> f, left |-> {}] ELSE Idle
<1>1. /\ \/ scoring[w].step = "layer2" /\ scoring[w].left = {} /\ s.step = "done" /\ s.finding = f
         \/ s = Idle
      /\ scoring'[w] = s /\ \A v \in Scorers \ {w} : scoring'[v] = scoring[v]
      /\ RecommendationsTyped'
  <2>1. RecommendationsTyped /\ scoring[w] \in Invocations /\ scoring \in [Scorers -> Invocations]
    BY DEF RecommendationsInv, RecommendationsTyped
  <2>2. Idle \in Invocations
    BY DEF Idle, Invocations
  <2>3. CASE scoring[w].step = "layer2" /\ scoring[w].left = {} /\ GoOn(w, "done", {})
    <3> DEFINE d == [step |-> "done", finding |-> f, left |-> {}]
    <3>1. d \in Invocations /\ f \in Findings
      BY <2>1, <2>3 DEF Invocations, RecommendationsTyped
    <3>2. RecommendationsTyped' /\ scoring'[w] = d /\ \A v \in Scorers \ {w} : scoring'[v] = scoring[v]
      BY <2>1, <2>3, <3>1, StaysTyped DEF GoOn, RecommendationsTyped
    <3>3. QED
      BY <2>3, <3>2
  <2>4. CASE scoring' = [scoring EXCEPT ![w] = Idle]
    <3>1. RecommendationsTyped' /\ scoring'[w] = Idle /\ \A v \in Scorers \ {w} : scoring'[v] = scoring[v]
      BY <2>1, <2>2, <2>4, StaysTyped DEF Idle, RecommendationsTyped
    <3>2. scoring'[w].step = "idle"
      BY <3>1 DEF Idle
    <3>3. QED
      BY <3>1, <3>2
  <2>5. QED
    BY <2>3, <2>4
<1>3. CountedFirst'
  BY <1>1 DEF RecommendationsInv, CountedFirst, Counted, Idle
<1>4. ASSUME NEW v \in Scorers, alone'[v]
      PROVE  RowsAreIts(v)'
  <2>1. RowsAreIts(v)
    BY <1>4 DEF RecommendationsInv
  <2>2. \A u \in Scorers \ {v} : scoring'[u].step \in {"idle", "done"}
    BY <1>1, <2>1 DEF RowsAreIts, Idle
  <2>3. CASE scoring'[v] = Idle
    BY <2>2, <2>3 DEF RowsAreIts, Idle
  <2>4. CASE v = w /\ scoring[w].step = "layer2" /\ scoring[w].left = {} /\ s.step = "done" /\ s.finding = f
    <3>1. /\ \A c \in DOMAIN f.found : claimRows[c] = f.found[c]
          /\ \A n \in DOMAIN f.cells : coverageRows[f.cells[n].indicator] = Counted(f, f.cells[n].indicator)
          /\ \A x \in ToRecommend(f) : Unshared(f, x[2]) => bandRows[x[2]] = RunsOwn(f, x[2])
      BY <2>1, <2>4 DEF RowsAreIts
    <3>2. scoring'[v].step = "done" /\ scoring'[v].finding = f
      BY <1>1, <2>4
    <3>3. QED
      BY <2>2, <3>1, <3>2 DEF RowsAreIts
  <2>5. CASE v # w
    <3>1. scoring'[v] = scoring[v]
      BY <1>1, <2>5
    <3>2. QED
      BY <2>1, <2>2, <3>1 DEF RowsAreIts
  <2>6. QED
    BY <1>1, <2>3, <2>4, <2>5
<1>5. QED
  BY <1>1, <1>3, <1>4 DEF RecommendationsInv

LEMMA RecommendationsStep ==
  RecommendationsInv /\ [RecommendationsNext]_recommendationVars => RecommendationsInv'
<1> SUFFICES ASSUME RecommendationsInv, [RecommendationsNext]_recommendationVars
             PROVE  RecommendationsInv'
  OBVIOUS
<1>1. ASSUME NEW w \in Scorers, SaveCoverage(w) PROVE RecommendationsInv'
  <2>1. scoring[w].left \subseteq DOMAIN scoring[w].finding.cells
    BY <1>1 DEF SaveCoverage, RecommendationsInv, RecommendationsTyped
  <2>2. QED
    BY <1>1, <2>1, RowSavesWell, LayersWell DEF SaveCoverage
<1>2. ASSUME NEW w \in Scorers, SaveRecommendation(w) PROVE RecommendationsInv'
  BY <1>2, BandSavesWell, EndsWell DEF SaveRecommendation
<1>3. ASSUME NEW w \in Scorers, StopScoring(w) PROVE RecommendationsInv'
  BY <1>3, EndsWell DEF StopScoring
<1>4. CASE UNCHANGED recommendationVars
  <2>1. UNCHANGED <<claimRows, coverageRows, bandRows, scoring, alone, everCounted>>
    BY <1>4 DEF recommendationVars
  <2>2. RecommendationsTyped' /\ CountedFirst'
    BY <2>1 DEF RecommendationsInv, RecommendationsTyped, CountedFirst
  <2>3. \A w \in Scorers : alone'[w] => RowsAreIts(w)'
    BY <2>1 DEF RecommendationsInv, RowsAreIts
  <2>4. QED
    BY <2>2, <2>3 DEF RecommendationsInv
<1>5. QED
  BY <1>1, <1>2, <1>3, <1>4, BeginsWell DEF RecommendationsNext

(* The rows of a run alone, and what has been counted, make the property.  *)
LEMMA RoutesFromInv == RecommendationsInv => RoutesAgree
<1> SUFFICES ASSUME RecommendationsInv PROVE RoutesAgree
  OBVIOUS
<1>1. ASSUME NEW w \in Scorers, scoring[w].step = "done", alone[w],
             NEW c \in scoring[w].finding.verified, Unshared(scoring[w].finding, c)
      PROVE  bandRows[c] = Computed(c) /\ Shown(c) # Missing
  <2> DEFINE f == scoring[w].finding
  <2>1. f \in Findings
    BY <1>1 DEF RecommendationsInv, RecommendationsTyped
  <2>2. PICK n \in DOMAIN f.cells : f.cells[n].indicator = IndicatorOf[c]
    BY <1>1, <2>1, FindingFacts
  <2>3. RowsAreIts(w)
    BY <1>1 DEF RecommendationsInv
  <2>4. /\ claimRows[c] = f.found[c]
        /\ coverageRows[IndicatorOf[c]] = Counted(f, IndicatorOf[c])
    BY <1>1, <2>1, <2>2, <2>3, FindingFacts DEF RowsAreIts
  <2>5. <<n, c>> \in ToRecommend(f)
    BY <1>1, <2>2 DEF ToRecommend
  <2>6. bandRows[c] = RunsOwn(f, c)
    BY <1>1, <2>3, <2>5 DEF RowsAreIts
  <2>7. c \in DOMAIN f.found /\ c \in ScoredClaims
    BY <1>1, <2>1, FindingFacts
  <2>8. /\ f.found[c] # Missing /\ Counted(f, IndicatorOf[c]) # Missing
        /\ BandOf[c][f.found[c].text][f.found[c].pillar] # Missing
    <3>1. Counted(f, IndicatorOf[c]) \in SUBSET ScoredClaims
      BY <2>1, FindingFacts DEF Counted
    <3>2. QED
      BY <2>1, <2>7, <3>1, RecommendationsAssumption
  <2>9. Computed(c) = RunsOwn(f, c)
    BY <2>4, <2>8 DEF Computed, RunsOwn
  <2>10. RunsOwn(f, c) # Missing
    BY <2>8, RecommendationsAssumption DEF RunsOwn, Recommend
  <2>11. QED
    BY <2>6, <2>9, <2>10 DEF Shown
<1>2. ASSUME NEW c \in ScoredClaims, Shown(c) \notin {Missing, "null"}
      PROVE  c \in everCounted
  <2>1. CASE bandRows[c] # Missing
    BY <1>2, <2>1 DEF Shown, RecommendationsInv, CountedFirst
  <2>2. CASE bandRows[c] = Missing
    <3>1. IndicatorOf[c] \in CoveredIndicators
      BY DEF CoveredIndicators
    <3>2. coverageRows[IndicatorOf[c]] # Missing /\ c \in coverageRows[IndicatorOf[c]]
      BY <1>2, <2>2 DEF Shown, Computed, Recommend
    <3>3. QED
      BY <3>1, <3>2 DEF RecommendationsInv, CountedFirst
  <2>3. QED
    BY <2>1, <2>2
<1>3. QED
  BY <1>1, <1>2 DEF RoutesAgree

(* However runs overlap and wherever they stop, no claim is shown a band   *)
(* that coverage has never counted, and a run that nothing overlapped      *)
(* leaves rows from which both routes give the same (RoutesAgree).         *)
THEOREM RoutesAlways == RecommendationsSpec => []RoutesAgree
<1>1. RecommendationsSpec => []RecommendationsInv
  BY RecommendationsInitInv, RecommendationsStep, PTL DEF RecommendationsSpec
<1>2. QED
  BY <1>1, RoutesFromInv, PTL

-----------------------------------------------------------------------------
(* Evaluation                                                              *)

(* The variables of the evaluation have their types.                       *)
THEOREM EvaluationTyped == EvaluationSpec => []EvaluationTypeOK
<1>1. EvaluationInit => EvaluationTypeOK
  BY DEF EvaluationInit, EvaluationTypeOK
<1>2. ASSUME EvaluationTypeOK, [EvaluationNext]_evaluationVars PROVE EvaluationTypeOK'
  <2>1. CASE UNCHANGED evaluationVars
    BY <1>2, <2>1 DEF EvaluationTypeOK, evaluationVars
  <2>2. CASE \E g \in Items : AddGold(g)
    BY <1>2, <2>2 DEF EvaluationTypeOK, AddGold
  <2>3. CASE \E r \in Predictions : Predict(r)
    BY <1>2, <2>3 DEF EvaluationTypeOK, Predict
  <2>4. CASE \E k \in DOMAIN predicted, d \in Decisions : Review(k, d)
    <3>1. PICK k \in DOMAIN predicted, d \in Decisions : Review(k, d)
      BY <2>4
    <3>2. reviews[k] \in Seq(Decisions)
      BY <1>2 DEF EvaluationTypeOK
    <3> DEFINE longer == Append(reviews[k], d)
    <3>3. longer \in Seq(Decisions)
      BY <3>2
    <3>4. reviews' = [reviews EXCEPT ![k] = longer] /\ UNCHANGED <<goldItems, predicted>>
      BY <3>1 DEF Review
    <3> HIDE DEF longer
    <3>5. reviews' \in Seq(Seq(Decisions)) /\ Len(reviews') = Len(reviews)
      BY <1>2, <3>3, <3>4 DEF EvaluationTypeOK
    <3>6. QED
      BY <1>2, <3>4, <3>5 DEF EvaluationTypeOK
  <2>5. QED
    BY <1>2, <2>1, <2>2, <2>3, <2>4 DEF EvaluationNext
<1>3. QED
  BY <1>1, <1>2, PTL DEF EvaluationSpec

(* What is left for item i when the items before it have been served, and  *)
(* a matching that serves them one after the other by the choice given.    *)
Left(m, i) == DOMAIN predicted \ {m[j] : j \in {k \in DOMAIN m : k < i}}

Serves(m, choice) ==
  /\ m \in Seq(Nat) /\ DOMAIN m = DOMAIN goldItems
  /\ \A i \in DOMAIN m : m[i] = choice[i][Left(m, i)]

ChoosesIn(choice) ==
  \A i \in DOMAIN goldItems, free \in SUBSET DOMAIN predicted : choice[i][free] \in {0} \cup free

(* The recursion by which the matchings are computed defines one.          *)
LEMMA GreedyServes ==
  ASSUME EvaluationTypeOK, NEW choice, ChoosesIn(choice)
  PROVE  Serves(Greedy(choice), choice)
<1> DEFINE D == DOMAIN predicted
           N == Len(goldItems)
           X == Seq(Nat)
           base == <<>>
           step == [p \in (1..N) \X X |-> Append(p[2], choice[p[1]][D \ Range(p[2])])]
<1>1. N \in Nat /\ base \in X /\ DOMAIN goldItems = 1..N /\ D \subseteq Nat
  BY DEF EvaluationTypeOK
<1>2. \A n \in 1..N, x \in X : step[<<n, x>>] = Append(x, choice[n][D \ Range(x)])
  OBVIOUS
<1>3. \A n \in 1..N, x \in X : choice[n][D \ Range(x)] \in Nat
  <2>1. SUFFICES ASSUME NEW n \in 1..N, NEW x \in X PROVE choice[n][D \ Range(x)] \in Nat
    OBVIOUS
  <2>2. D \ Range(x) \in SUBSET D
    OBVIOUS
  <2>3. choice[n][D \ Range(x)] \in {0} \cup (D \ Range(x))
    BY <1>1, <2>2, Zenon DEF ChoosesIn
  <2>4. 0 \in Nat /\ D \ Range(x) \subseteq Nat
    BY <1>1
  <2>5. QED
    BY <2>3, <2>4
<1> HIDE DEF step, D
<1>4. StaysIn(step, N, X)
  <2>1. SUFFICES ASSUME NEW n \in 1..N, NEW x \in X PROVE step[<<n, x>>] \in X
    BY DEF StaysIn
  <2> DEFINE v == choice[n][D \ Range(x)]
  <2>2. step[<<n, x>>] = Append(x, v) /\ v \in Nat
    BY <1>2, <1>3
  <2> HIDE DEF v
  <2>3. QED
    BY <2>2
<1>5. PICK f : Recursion(f, N, X, base, step)
  <2> HIDE DEF N, X, base
  <2>1. QED
    BY <1>1, <1>4, RecursionDefines
<1>6. /\ f \in [0..N -> X] /\ f[0] = <<>>
      /\ \A n \in 1..N : f[n] = Append(f[n - 1], choice[n][D \ Range(f[n - 1])])
  <2>1. f \in [0..N -> X] /\ f[0] = base /\ \A n \in 1..N : f[n] = step[<<n, f[n - 1]>>]
    BY <1>5 DEF Recursion
  <2>2. \A n \in 1..N : f[n - 1] \in X
    BY <1>1, <2>1
  <2>3. QED
    BY <1>2, <2>1, <2>2
<1> DEFINE Equation(h) == h = [n \in 0..N |-> IF n = 0 THEN <<>>
                                 ELSE Append(h[n - 1], choice[n][D \ Range(h[n - 1])])]
<1>7. Equation(f)
  <2>1. ASSUME NEW n \in 0..N
        PROVE  f[n] = IF n = 0 THEN <<>> ELSE Append(f[n - 1], choice[n][D \ Range(f[n - 1])])
    <3>1. n = 0 \/ n \in 1..N
      BY <1>1
    <3>2. ~(0 \in 1..N)
      OBVIOUS
    <3>3. QED
      BY <1>6, <3>1, <3>2
  <2>2. f = [n \in 0..N |-> f[n]]
    BY <1>6
  <2>3. QED
    BY <2>1, <2>2, Zenon
<1> DEFINE g == CHOOSE h : Equation(h)
<1>8. Equation(g)
  BY <1>7, Zenon
<1>9. GreedyOf(choice) = g
  BY Zenon DEF GreedyOf, D
<1> HIDE DEF g
<1>10. g[0] = <<>> /\ \A n \in 1..N : g[n] = Append(g[n - 1], choice[n][D \ Range(g[n - 1])])
  <2>1. ASSUME NEW n \in 0..N
        PROVE  g[n] = IF n = 0 THEN <<>> ELSE Append(g[n - 1], choice[n][D \ Range(g[n - 1])])
    BY <1>8, Zenon
  <2>2. 0 \in 0..N /\ \A n \in 1..N : n \in 0..N /\ n # 0
    BY <1>1
  <2>3. QED
    BY <2>1, <2>2
<1> DEFINE Before(s, i) == D \ {s[j] : j \in {k \in DOMAIN s : k < i}}
           good == {n \in Nat : /\ g[n] \in X /\ Len(g[n]) = n
                                /\ \A i \in 1..n : g[n][i] = choice[i][Before(g[n], i)]}
<1>11. 0..N \subseteq good
  <2>1. 0 \in good
    <3>1. g[0] \in X /\ Len(g[0]) = 0 /\ 0 \in Nat /\ 1..0 = {}
      BY <1>10
    <3> HIDE DEF X, N, Before
    <3>2. \A i \in 1..0 : g[0][i] = choice[i][Before(g[0], i)]
      BY <3>1
    <3>3. QED
      BY <3>1, <3>2
  <2>2. ASSUME NEW n \in 0..N, n < N, n \in good PROVE n + 1 \in good
    <3> DEFINE s == g[n]
               v == choice[n + 1][D \ Range(s)]
               t == Append(s, v)
    <3>1. n + 1 \in 1..N /\ (n + 1) - 1 = n /\ n \in Nat
      <4> HIDE DEF N, good
      <4>1. N \in Nat /\ n \in 0..N /\ n < N
        BY <1>1, <2>2
      <4>2. QED
        BY <4>1
    <3>2. s \in X /\ Len(s) = n /\ \A i \in 1..n : s[i] = choice[i][Before(s, i)]
      BY <2>2
    <3>3. g[n + 1] = t
      BY <1>10, <3>1
    <3>4. v \in Nat
      BY <1>3, <3>1, <3>2
    <3> HIDE DEF s, v
    <3> HIDE DEF N
    <3>5. /\ t \in X /\ Len(t) = n + 1 /\ t[n + 1] = v /\ DOMAIN t = 1..(n + 1) /\ DOMAIN s = 1..n
          /\ \A i \in 1..n : t[i] = s[i]
      <4>1. s \in Seq(Nat) /\ Len(s) = n /\ n \in Nat
        BY <3>1, <3>2
      <4>2. QED
        BY <3>4, <4>1 DEF t
    <3> HIDE DEF t
    <3>6. \A i \in 1..n : Before(t, i) = Before(s, i)
      <4>1. SUFFICES ASSUME NEW i \in 1..n PROVE Before(t, i) = Before(s, i)
        OBVIOUS
      <4>2. {k \in DOMAIN t : k < i} = {k \in DOMAIN s : k < i}
        BY <3>1, <3>5
      <4>3. \A k \in DOMAIN s : t[k] = s[k]
        BY <3>5
      <4>4. QED
        BY <4>2, <4>3
    <3>7. Before(t, n + 1) = D \ Range(s)
      <4>1. {k \in DOMAIN t : k < n + 1} = DOMAIN s
        BY <3>1, <3>5
      <4>2. {t[j] : j \in DOMAIN s} = Range(s)
        BY <3>5 DEF Range
      <4>3. QED
        BY <4>1, <4>2
    <3> HIDE DEF Before
    <3>8. \A i \in 1..(n + 1) : t[i] = choice[i][Before(t, i)]
      <4>1. SUFFICES ASSUME NEW i \in 1..(n + 1) PROVE t[i] = choice[i][Before(t, i)]
        OBVIOUS
      <4>2. i \in 1..n \/ i = n + 1
        BY <3>1
      <4>3. CASE i \in 1..n
        BY <3>2, <3>5, <3>6, <4>3
      <4>4. CASE i = n + 1
        BY <3>5, <3>7, <4>4 DEF v
      <4>5. QED
        BY <4>2, <4>3, <4>4
    <3>9. n + 1 \in Nat /\ g[n + 1] \in X /\ Len(g[n + 1]) = n + 1
      BY <3>1, <3>3, <3>5
    <3> HIDE DEF X
    <3>10. QED
      BY <3>3, <3>8, <3>9
  <2> HIDE DEF good
  <2>3. QED
    BY <1>1, <2>1, <2>2, Induction
<1>12. N \in good
  <2> HIDE DEF N, good
  <2>1. QED
    BY <1>1, <1>11
<1>13. Greedy(choice) = g[N]
  BY <1>9 DEF Greedy
<1> DEFINE m == g[N]
<1>14. m \in Seq(Nat) /\ Len(m) = N /\ \A i \in 1..N : m[i] = choice[i][Before(m, i)]
  BY <1>12
<1>15. \A i : Before(m, i) = Left(m, i)
  BY DEF Left, D
<1> HIDE DEF m, Before
<1>16. DOMAIN m = 1..N
  <2>1. m \in Seq(Nat) /\ Len(m) = N
    BY <1>14
  <2> HIDE DEF N
  <2>2. QED
    BY <2>1
<1>17. QED
  BY <1>1, <1>13, <1>14, <1>15, <1>16 DEF Serves, m
(* Each item is served with a prediction that was left, so no two with the *)
(* same.                                                                   *)
LEMMA ServedApart ==
  ASSUME EvaluationTypeOK, NEW choice, ChoosesIn(choice), NEW m, Serves(m, choice)
  PROVE  /\ DOMAIN m = DOMAIN goldItems /\ IsFiniteSet(DOMAIN goldItems)
         /\ DOMAIN predicted \subseteq Nat \ {0} /\ IsFiniteSet(DOMAIN predicted)
         /\ \A i \in DOMAIN m : m[i] \in Nat /\ (m[i] = 0 \/ m[i] \in Left(m, i))
         /\ \A i \in DOMAIN m : Left(m, i) \in SUBSET DOMAIN predicted
         /\ \A i, j \in DOMAIN m : m[i] = m[j] /\ m[i] # 0 => i = j
<1>1. /\ DOMAIN m = DOMAIN goldItems /\ \A i \in DOMAIN m : m[i] = choice[i][Left(m, i)]
      /\ m \in Seq(Nat)
  BY DEF Serves
<1>2. DOMAIN predicted = 1..Len(predicted) /\ Len(predicted) \in Nat
      /\ DOMAIN goldItems = 1..Len(goldItems) /\ Len(goldItems) \in Nat
  BY DEF EvaluationTypeOK
<1>3. \A i : Left(m, i) \in SUBSET DOMAIN predicted
  BY DEF Left
<1>4. \A i \in DOMAIN m : m[i] \in {0} \cup Left(m, i)
  BY <1>1, <1>3 DEF ChoosesIn
<1>5. \A i \in DOMAIN m : m[i] \in Nat
  BY <1>1
<1>6. ASSUME NEW i \in DOMAIN m, NEW j \in DOMAIN m, m[i] = m[j], m[i] # 0, i < j PROVE FALSE
  <2>1. m[i] \in {m[n] : n \in {k \in DOMAIN m : k < j}}
    BY <1>6
  <2>2. m[j] \notin Left(m, j)
    BY <1>6, <2>1 DEF Left
  <2>3. QED
    BY <1>4, <1>6, <2>2
<1>7. \A i, j \in DOMAIN m : i = j \/ i < j \/ j < i
  BY <1>1, <1>2
<1>8. \A i, j \in DOMAIN m : m[i] = m[j] /\ m[i] # 0 => i = j
  BY <1>6, <1>7
<1>9. IsFiniteSet(DOMAIN predicted) /\ IsFiniteSet(DOMAIN goldItems)
  BY <1>2, FS_Interval
<1>10. DOMAIN predicted \subseteq Nat \ {0}
  BY <1>2
<1>11. QED
  BY <1>1, <1>3, <1>4, <1>5, <1>8, <1>9, <1>10

(* What is chosen is the first of a set of those left, and 0 if it is      *)
(* empty.                                                                  *)
LEMMA FirstOfIs ==
  ASSUME NEW ks \in SUBSET (Nat \ {0})
  PROVE  (ks = {} /\ FirstOf(ks) = 0) \/ (ks # {} /\ FirstOf(ks) \in ks /\ FirstOf(ks) # 0)
<1>1. CASE ks = {}
  BY <1>1 DEF FirstOf
<1>2. CASE ks # {}
  <2>1. ks \in SUBSET Nat
    OBVIOUS
  <2>2. Min(ks) \in ks
    BY <1>2, <2>1, MinIn
  <2>3. QED
    BY <1>2, <2>2 DEF FirstOf
<1>3. QED
  BY <1>1, <1>2

(* The harness: an item has a prediction of its key, or none is left.      *)
LEMMA HarnessServes ==
  ASSUME EvaluationTypeOK, NEW m, m = HarnessMatching
  PROVE  /\ \E choice : ChoosesIn(choice) /\ Serves(m, choice)
         /\ \A i \in DOMAIN m :
              \/ m[i] = 0 /\ WithKey(i, Left(m, i)) = {}
              \/ m[i] # 0 /\ m[i] \in WithKey(i, Left(m, i))
<1> DEFINE first(i, free) == FirstOf(WithKey(i, free))
           choice == [i \in DOMAIN goldItems |->
                        [free \in SUBSET DOMAIN predicted |-> first(i, free)]]
<1>1. DOMAIN predicted \subseteq Nat \ {0}
  BY DEF EvaluationTypeOK
<1>2. ASSUME NEW i, NEW free \in SUBSET DOMAIN predicted
      PROVE  \/ WithKey(i, free) = {} /\ first(i, free) = 0
             \/ first(i, free) # 0 /\ first(i, free) \in WithKey(i, free)
  <2>1. WithKey(i, free) \in SUBSET (Nat \ {0})
    BY <1>1 DEF WithKey
  <2>2. QED
    BY <2>1, FirstOfIs
<1>3. \A i, free : WithKey(i, free) \subseteq free
  BY DEF WithKey
<1>4. m = Greedy(choice)
  BY DEF HarnessMatching
<1> HIDE DEF first
<1>5. \A i \in DOMAIN goldItems, free \in SUBSET DOMAIN predicted : choice[i][free] = first(i, free)
  OBVIOUS
<1> HIDE DEF choice
<1>6. ChoosesIn(choice)
  BY <1>2, <1>3, <1>5 DEF ChoosesIn
<1>7. Serves(m, choice)
  BY <1>4, <1>6, GreedyServes
<1>8. ASSUME NEW i \in DOMAIN m
      PROVE  \/ m[i] = 0 /\ WithKey(i, Left(m, i)) = {}
             \/ m[i] # 0 /\ m[i] \in WithKey(i, Left(m, i))
  <2>1. i \in DOMAIN goldItems /\ m[i] = choice[i][Left(m, i)]
    BY <1>7 DEF Serves
  <2>2. Left(m, i) \in SUBSET DOMAIN predicted
    BY DEF Left
  <2>3. m[i] = first(i, Left(m, i))
    BY <1>5, <2>1, <2>2
  <2>4. QED
    BY <1>2, <2>2, <2>3
<1>9. QED
  BY <1>6, <1>7, <1>8

(* The evaluator: an item has one of its candidates, or none is left.      *)
LEMMA ServiceServes ==
  ASSUME EvaluationTypeOK, NEW m, m = ServiceMatching
  PROVE  /\ \E choice : ChoosesIn(choice) /\ Serves(m, choice)
         /\ \A i \in DOMAIN m :
              \/ m[i] = 0 /\ Candidates(goldItems[i], Left(m, i)) = {}
              \/ m[i] # 0 /\ m[i] \in Candidates(goldItems[i], Left(m, i))
<1> DEFINE first(i, free) == FirstOf(Candidates(goldItems[i], free))
           choice == [i \in DOMAIN goldItems |->
                        [free \in SUBSET DOMAIN predicted |-> first(i, free)]]
<1>1. DOMAIN predicted \subseteq Nat \ {0}
  BY DEF EvaluationTypeOK
<1>2. \A g, free : Candidates(g, free) \subseteq free
  BY DEF Candidates, Citing, InPlaceOf
<1>3. ASSUME NEW i, NEW free \in SUBSET DOMAIN predicted
      PROVE  \/ Candidates(goldItems[i], free) = {} /\ first(i, free) = 0
             \/ first(i, free) # 0 /\ first(i, free) \in Candidates(goldItems[i], free)
  <2>1. Candidates(goldItems[i], free) \in SUBSET (Nat \ {0})
    BY <1>1, <1>2
  <2>2. QED
    BY <2>1, FirstOfIs
<1>4. m = Greedy(choice)
  BY DEF ServiceMatching
<1> HIDE DEF first
<1>5. \A i \in DOMAIN goldItems, free \in SUBSET DOMAIN predicted : choice[i][free] = first(i, free)
  OBVIOUS
<1> HIDE DEF choice
<1>6. ChoosesIn(choice)
  BY <1>2, <1>3, <1>5 DEF ChoosesIn
<1>7. Serves(m, choice)
  BY <1>4, <1>6, GreedyServes
<1>8. ASSUME NEW i \in DOMAIN m
      PROVE  \/ m[i] = 0 /\ Candidates(goldItems[i], Left(m, i)) = {}
             \/ m[i] # 0 /\ m[i] \in Candidates(goldItems[i], Left(m, i))
  <2>1. i \in DOMAIN goldItems /\ m[i] = choice[i][Left(m, i)]
    BY <1>7 DEF Serves
  <2>2. Left(m, i) \in SUBSET DOMAIN predicted
    BY DEF Left
  <2>3. m[i] = first(i, Left(m, i))
    BY <1>5, <2>1, <2>2
  <2>4. QED
    BY <1>3, <2>2, <2>3
<1>9. QED
  BY <1>6, <1>7, <1>8

(* The evaluator's pairs are maximal (EvaluatorIsMaximal).                 *)
LEMMA EvaluatorAlwaysMaximal ==
  ASSUME EvaluationTypeOK
  PROVE  EvaluatorIsMaximal
<1>1. PICK m : m = ServiceMatching
  OBVIOUS
<1>2. /\ \E choice : ChoosesIn(choice) /\ Serves(m, choice)
      /\ \A i \in DOMAIN m :
           \/ m[i] = 0 /\ Candidates(goldItems[i], Left(m, i)) = {}
           \/ m[i] # 0 /\ m[i] \in Candidates(goldItems[i], Left(m, i))
  BY <1>1, ServiceServes
<1>3. DOMAIN m = DOMAIN goldItems
  BY <1>2 DEF Serves
<1>4. ASSUME NEW i \in DOMAIN goldItems, NEW k \in Unused(m)
      PROVE  /\ m[i] = 0 => JurisdictionOf[predicted[k].cites[1]] # JurisdictionOf[goldItems[i].doc]
             /\ goldItems[i].doc \in Range(predicted[k].cites) =>
                  m[i] # 0 /\ goldItems[i].doc \in Range(predicted[m[i]].cites)
  <2> DEFINE g == goldItems[i]
             free == Left(m, i)
             pool == IF Citing(g.doc, free) # {} THEN Citing(g.doc, free) ELSE InPlaceOf(g.doc, free)
  <2>1. k \in free
    BY DEF Unused, Left, Range
  <2>2. Candidates(g, free) \subseteq pool /\ (Candidates(g, free) = {} => pool = {})
    BY DEF Candidates
  <2>3. \/ m[i] = 0 /\ Candidates(g, free) = {}
        \/ m[i] # 0 /\ m[i] \in Candidates(g, free)
    BY <1>2, <1>3
  <2> HIDE DEF g, free
  <2>4. m[i] = 0 => JurisdictionOf[predicted[k].cites[1]] # JurisdictionOf[g.doc]
    <3>1. m[i] = 0 => InPlaceOf(g.doc, free) = {}
      BY <2>2, <2>3
    <3>2. QED
      BY <2>1, <3>1 DEF InPlaceOf
  <2>5. ASSUME g.doc \in Range(predicted[k].cites)
        PROVE  m[i] # 0 /\ g.doc \in Range(predicted[m[i]].cites)
    <3>1. k \in Citing(g.doc, free)
      BY <2>1, <2>5 DEF Citing
    <3>2. pool = Citing(g.doc, free) /\ pool # {}
      BY <3>1
    <3>3. m[i] # 0 /\ m[i] \in Citing(g.doc, free)
      BY <2>2, <2>3, <3>2
    <3>4. QED
      BY <3>3 DEF Citing
  <2>6. QED
    BY <2>4, <2>5 DEF g
<1>5. QED
  BY <1>1, <1>4, Zenon DEF EvaluatorIsMaximal

(* The two rates of the reviews agree (RatesCohere).                       *)
LEMMA RatesAlwaysCohere ==
  ASSUME EvaluationTypeOK
  PROVE  RatesCohere
<1> DEFINE scored     == {k \in Verified : reviews[k] # <<>>}
           accepted   == {k \in scored : Last(reviews[k]) = "accept"}
           overridden == {k \in Verified : Range(reviews[k]) \cap {"correct", "reject"} # {}}
<1>1. DOMAIN predicted = 1..Len(predicted) /\ Len(predicted) \in Nat
      /\ \A k \in DOMAIN predicted : reviews[k] \in Seq(Decisions)
  BY DEF EvaluationTypeOK
<1>2. IsFiniteSet(Verified) /\ Verified \subseteq DOMAIN predicted
  <2>1. Verified \subseteq DOMAIN predicted
    BY DEF Verified
  <2>2. IsFiniteSet(DOMAIN predicted)
    <3> HIDE DEF scored, accepted, overridden
    <3>1. QED
      BY PlacesCount DEF EvaluationTypeOK
  <2>3. QED
    BY <2>1, <2>2, FS_Subset
<1>3. accepted \subseteq scored /\ scored \subseteq Verified /\ overridden \subseteq Verified
  OBVIOUS
<1>4. overridden \subseteq scored
  <2>1. Range(<<>>) = {}
    BY DEF Range
  <2>2. QED
    BY <2>1
<1>5. scored \ accepted \subseteq overridden
  <2>1. SUFFICES ASSUME NEW k \in Verified, reviews[k] # <<>>, Last(reviews[k]) # "accept"
                 PROVE  Range(reviews[k]) \cap {"correct", "reject"} # {}
    OBVIOUS
  <2>2. reviews[k] \in Seq(Decisions)
    BY <1>1, <1>2
  <2>3. Last(reviews[k]) \in Decisions /\ Last(reviews[k]) \in Range(reviews[k])
    <3>1. Len(reviews[k]) \in DOMAIN reviews[k]
      BY <2>1, <2>2
    <3>2. QED
      BY <2>2, <3>1 DEF Last, Range
  <2>4. Last(reviews[k]) \in {"correct", "reject"}
    BY <2>1, <2>3 DEF Decisions
  <2>5. QED
    BY <2>3, <2>4
<1>6. Verified = {} => scored = {} /\ overridden = {}
  OBVIOUS
<1>7. CitationSupport = IF scored = {} THEN <<1, 1>> ELSE <<Cardinality(accepted), Cardinality(scored)>>
  BY DEF CitationSupport
<1>8. OverrideRate = IF Verified = {} THEN <<0, 1>> ELSE <<Cardinality(overridden), Cardinality(Verified)>>
  BY DEF OverrideRate
<1>9. accepted = scored => \A k \in Verified : reviews[k] # <<>> => Last(reviews[k]) = "accept"
  OBVIOUS
<1>10. RatesCohere <=>
         /\ CitationSupport[2] - CitationSupport[1] <= OverrideRate[1]
         /\ OverrideRate[1] <= Cardinality(scored)
         /\ CitationSupport[1] = CitationSupport[2] =>
              \A k \in Verified : reviews[k] # <<>> => Last(reviews[k]) = "accept"
  BY DEF RatesCohere
<1> HIDE DEF scored, accepted, overridden
<1>11. IsFiniteSet(scored) /\ IsFiniteSet(overridden)
  BY <1>2, <1>3, FS_Subset
<1>12. /\ Cardinality(scored) \in Nat /\ Cardinality(accepted) \in Nat
       /\ Cardinality(scored \ accepted) = Cardinality(scored) - Cardinality(accepted)
       /\ (Cardinality(scored) = Cardinality(accepted) => accepted = scored)
  BY <1>3, <1>11, CountApart, FS_Subset
<1>13. Cardinality(scored \ accepted) <= Cardinality(overridden)
  BY <1>5, <1>11, FS_Subset
<1>14. Cardinality(overridden) <= Cardinality(scored) /\ Cardinality(overridden) \in Nat
  BY <1>4, <1>11, FS_Subset, FS_CardinalityType
<1>15. scored = {} => overridden = {} /\ accepted = {}
  BY <1>3, <1>4
<1>16. OverrideRate[1] = Cardinality(overridden)
  BY <1>6, <1>8, FS_EmptySet
<1>17. CASE scored = {}
  <2>1. CitationSupport = <<1, 1>> /\ Cardinality(overridden) = 0
    BY <1>7, <1>15, <1>17, FS_EmptySet
  <2>2. QED
    BY <1>9, <1>10, <1>14, <1>15, <1>16, <1>17, <2>1
<1>18. CASE scored # {}
  <2>1. CitationSupport[1] = Cardinality(accepted) /\ CitationSupport[2] = Cardinality(scored)
    BY <1>7, <1>18
  <2>2. QED
    BY <1>9, <1>10, <1>12, <1>13, <1>14, <1>16, <2>1
<1>19. QED
  BY <1>17, <1>18

(* The evaluator leaves an item without a claim only when every claim of   *)
(* its jurisdiction answers for another, and its two rates agree.          *)
THEOREM EvaluatorSound == EvaluationSpec => []EvaluatorIsSound
<1>1. EvaluationTypeOK => EvaluatorIsSound
  BY EvaluatorAlwaysMaximal, RatesAlwaysCohere DEF EvaluatorIsSound
<1>2. QED
  BY <1>1, EvaluationTyped, PTL
(* The images of a set under a function that tells its elements apart are  *)
(* as many as its elements.                                                *)
LEMMA ImageCount ==
  ASSUME NEW S, IsFiniteSet(S), NEW f, \A x, y \in S : f[x] = f[y] => x = y
  PROVE  IsFiniteSet({f[x] : x \in S}) /\ Cardinality({f[x] : x \in S}) = Cardinality(S)
<1> DEFINE T == {f[x] : x \in S}
           g == [x \in S |-> f[x]]
<1>1. g \in [S -> T] /\ (\A x, y \in S : g[x] = g[y] => x = y) /\ \A t \in T : \E x \in S : g[x] = t
  OBVIOUS
<1>2. g \in Bijection(S, T)
  <2> HIDE DEF g, T
  <2>1. QED
    BY <1>1, Zenon DEF Bijection, Injection, Surjection, IsInjective
<1>3. ExistsBijection(S, T)
  BY <1>2, Zenon DEF ExistsBijection
<1> HIDE DEF T
<1>4. IsFiniteSet(T) /\ Cardinality(T) = Cardinality(S)
  BY <1>3, FS_Bijection
<1>5. QED
  BY <1>4 DEF T

(* Two sets without a common element are counted together.                 *)
LEMMA CountTogether ==
  ASSUME NEW S, IsFiniteSet(S), NEW T, IsFiniteSet(T), S \cap T = {}
  PROVE  /\ IsFiniteSet(S \cup T) /\ Cardinality(S \cup T) = Cardinality(S) + Cardinality(T)
         /\ Cardinality(S) \in Nat /\ Cardinality(T) \in Nat
<1>1. Cardinality(S \cap T) = 0
  BY FS_EmptySet
<1>2. Cardinality(S) \in Nat /\ Cardinality(T) \in Nat
  BY FS_CardinalityType
<1>3. /\ IsFiniteSet(S \cup T)
      /\ Cardinality(S \cup T) = Cardinality(S) + Cardinality(T) - Cardinality(S \cap T)
  BY FS_Union
<1>4. QED
  BY <1>1, <1>2, <1>3

(* The harness finds as many pairs of a key as there are items and         *)
(* predictions of it.                                                      *)
LEMMA PairsOfKey ==
  ASSUME EvaluationTypeOK, NEW m, m = HarnessMatching, NEW key
  PROVE  LET items == {i \in DOMAIN goldItems : GoldKey(goldItems[i]) = key}
             found == {k \in DOMAIN predicted : RecordKey(predicted[k]) = key}
         IN  Cardinality(items \ Missed(m)) = Min({Cardinality(items), Cardinality(found)})
<1> DEFINE items   == {i \in DOMAIN goldItems : GoldKey(goldItems[i]) = key}
           found   == {k \in DOMAIN predicted : RecordKey(predicted[k]) = key}
           matched == items \ Missed(m)
           paired  == {m[i] : i \in matched}
<1>1. PICK choice : ChoosesIn(choice) /\ Serves(m, choice)
  BY HarnessServes
<1>2. /\ DOMAIN m = DOMAIN goldItems /\ IsFiniteSet(DOMAIN goldItems)
      /\ DOMAIN predicted \subseteq Nat \ {0} /\ IsFiniteSet(DOMAIN predicted)
      /\ \A i \in DOMAIN m : m[i] \in Nat /\ (m[i] = 0 \/ m[i] \in Left(m, i))
      /\ \A i \in DOMAIN m : Left(m, i) \in SUBSET DOMAIN predicted
      /\ \A i, j \in DOMAIN m : m[i] = m[j] /\ m[i] # 0 => i = j
  BY <1>1, ServedApart
<1>3. \A i \in DOMAIN m : \/ m[i] = 0 /\ WithKey(i, Left(m, i)) = {}
                          \/ m[i] # 0 /\ m[i] \in WithKey(i, Left(m, i))
  BY HarnessServes
<1>4. IsFiniteSet(items) /\ IsFiniteSet(found) /\ IsFiniteSet(matched)
  <2>1. items \subseteq DOMAIN goldItems /\ found \subseteq DOMAIN predicted /\ matched \subseteq items
    OBVIOUS
  <2> HIDE DEF items, found, matched
  <2>2. QED
    BY <1>2, <2>1, FS_Subset
<1>5. \A i \in matched : i \in DOMAIN m /\ m[i] # 0
  BY <1>2 DEF Missed
<1>6. paired \subseteq found
  <2>1. SUFFICES ASSUME NEW i \in matched PROVE m[i] \in found
    OBVIOUS
  <2>2. i \in DOMAIN m /\ m[i] # 0 /\ GoldKey(goldItems[i]) = key
    BY <1>5
  <2>3. m[i] \in WithKey(i, Left(m, i))
    BY <1>3, <2>2
  <2>4. m[i] \in Left(m, i) /\ RecordKey(predicted[m[i]]) = key
    BY <2>2, <2>3 DEF WithKey
  <2>5. m[i] \in DOMAIN predicted
    BY <1>2, <2>2, <2>4
  <2>6. QED
    BY <2>4, <2>5
<1>7. Cardinality(paired) = Cardinality(matched)
  <2>1. \A i, j \in matched : m[i] = m[j] => i = j
    BY <1>2, <1>5
  <2> HIDE DEF matched
  <2>2. QED
    BY <1>4, <2>1, ImageCount
<1>8. ASSUME NEW i \in items, i \in Missed(m) PROVE found \subseteq paired
  <2>1. i \in DOMAIN m /\ m[i] = 0 /\ GoldKey(goldItems[i]) = key
    BY <1>2, <1>8 DEF Missed
  <2>2. WithKey(i, Left(m, i)) = {}
    BY <1>3, <2>1
  <2>3. SUFFICES ASSUME NEW k \in found PROVE k \in paired
    OBVIOUS
  <2>4. k \notin Left(m, i)
    BY <2>1, <2>2 DEF WithKey
  <2>5. k \in {m[j] : j \in {n \in DOMAIN m : n < i}}
    BY <2>4 DEF Left
  <2>6. PICK j \in DOMAIN m : m[j] = k
    BY <2>5
  <2>7. m[j] # 0
    BY <1>2, <2>6
  <2>8. RecordKey(predicted[m[j]]) = GoldKey(goldItems[j])
    BY <1>3, <2>6, <2>7 DEF WithKey
  <2>9. j \in items /\ j \notin Missed(m)
    BY <1>2, <2>6, <2>7, <2>8 DEF Missed
  <2>10. QED
    BY <2>6, <2>9
<1>9. matched \subseteq items /\ (items \cap Missed(m) = {} => matched = items)
  OBVIOUS
<1>10. items \cap Missed(m) # {} => found \subseteq paired
  BY <1>8
<1> HIDE DEF items, found, matched, paired
<1>11. /\ Cardinality(items) \in Nat /\ Cardinality(found) \in Nat
       /\ Cardinality(matched) <= Cardinality(items) /\ Cardinality(matched) <= Cardinality(found)
  <2>1. Cardinality(matched) <= Cardinality(items)
    BY <1>4, <1>9, FS_Subset
  <2>2. Cardinality(paired) <= Cardinality(found)
    BY <1>4, <1>6, FS_Subset
  <2>3. QED
    BY <1>4, <1>7, <2>1, <2>2, FS_CardinalityType
<1>12. Cardinality(matched) = Cardinality(items) \/ Cardinality(matched) = Cardinality(found)
  <2>1. CASE items \cap Missed(m) = {}
    BY <1>9, <2>1
  <2>2. CASE items \cap Missed(m) # {}
    <3>1. paired = found
      BY <1>6, <1>10, <2>2
    <3>2. QED
      BY <1>7, <3>1
  <2>3. QED
    BY <2>1, <2>2
<1>13. Cardinality(matched) = Min({Cardinality(items), Cardinality(found)})
  BY <1>11, <1>12, MinOfTwo
<1>14. QED
  BY <1>13 DEF items, found, matched
(* The counts of a row are those of the units of its label.                *)
LEMMA RowCountsUnits ==
  ASSUME EvaluationTypeOK, NEW m, m = HarnessMatching, NEW l, l # NoClaim
  PROVE  LET units == Units(m, Spurious(m))
         IN  /\ IndicatorRow(m, l) = Prf(units, l)
             /\ Prf(units, l).tp + Prf(units, l).fn = Cardinality({i \in DOMAIN goldItems : goldItems[i].ind = l})
<1> DEFINE units  == Units(m, Spurious(m))
           gold   == [i \in DOMAIN goldItems |->
                        [of |-> <<"gold", i>>, true |-> goldItems[i].ind,
                         pred |-> IF m[i] = 0 THEN NoClaim ELSE predicted[m[i]].ind]]
           claim  == [k \in DOMAIN predicted |->
                        [of |-> <<"claim", k>>, true |-> NoClaim, pred |-> predicted[k].ind]]
           MissedOf == {i \in Missed(m) : goldItems[i].ind = l}
           Of       == {i \in DOMAIN goldItems : goldItems[i].ind = l}
<1>1. PICK choice : ChoosesIn(choice) /\ Serves(m, choice)
  BY HarnessServes
<1>2. /\ DOMAIN m = DOMAIN goldItems /\ IsFiniteSet(DOMAIN goldItems)
      /\ IsFiniteSet(DOMAIN predicted)
  BY <1>1, ServedApart
<1>3. /\ \A i \in DOMAIN goldItems :
           /\ gold[i].of = <<"gold", i>> /\ gold[i].true = goldItems[i].ind
           /\ gold[i].pred = IF m[i] = 0 THEN NoClaim ELSE predicted[m[i]].ind
      /\ \A k \in DOMAIN predicted :
           claim[k].of = <<"claim", k>> /\ claim[k].true = NoClaim /\ claim[k].pred = predicted[k].ind
  OBVIOUS
<1>4. units = {gold[i] : i \in DOMAIN goldItems} \cup {claim[k] : k \in Spurious(m)}
  <2> DEFINE G(i) == [of |-> <<"gold", i>>, true |-> goldItems[i].ind,
                      pred |-> IF m[i] = 0 THEN NoClaim ELSE predicted[m[i]].ind]
             C(k) == [of |-> <<"claim", k>>, true |-> NoClaim, pred |-> predicted[k].ind]
  <2>1. Spurious(m) \subseteq DOMAIN predicted
    BY DEF Spurious, Unused
  <2>2. \A k \in Spurious(m) : claim[k] = C(k)
    BY <2>1
  <2>3. \A i \in DOMAIN goldItems : gold[i] = G(i)
    OBVIOUS
  <2>4. units = {G(i) : i \in DOMAIN goldItems} \cup {C(k) : k \in Spurious(m)}
    BY DEF Units
  <2> HIDE DEF gold, claim, units, G, C
  <2>5. QED
    BY <2>2, <2>3, <2>4
<1>5. /\ \A i, j \in DOMAIN goldItems : gold[i] = gold[j] => i = j
      /\ \A k, n \in DOMAIN predicted : claim[k] = claim[n] => k = n
      /\ \A i \in DOMAIN goldItems, k \in DOMAIN predicted : gold[i] # claim[k]
  <2>1. /\ \A i, j : <<"gold", i>> = <<"gold", j>> => i = j
        /\ \A k, n : <<"claim", k>> = <<"claim", n>> => k = n
        /\ \A i, k : <<"gold", i>> # <<"claim", k>>
    OBVIOUS
  <2> HIDE DEF gold, claim
  <2>2. ASSUME NEW i \in DOMAIN goldItems, NEW j \in DOMAIN goldItems, gold[i] = gold[j] PROVE i = j
    <3>1. gold[i].of = <<"gold", i>> /\ gold[j].of = <<"gold", j>>
      BY <1>3
    <3>2. QED
      BY <2>1, <2>2, <3>1
  <2>3. ASSUME NEW k \in DOMAIN predicted, NEW n \in DOMAIN predicted, claim[k] = claim[n] PROVE k = n
    <3>1. claim[k].of = <<"claim", k>> /\ claim[n].of = <<"claim", n>>
      BY <1>3
    <3>2. QED
      BY <2>1, <2>3, <3>1
  <2>4. ASSUME NEW i \in DOMAIN goldItems, NEW k \in DOMAIN predicted PROVE gold[i] # claim[k]
    <3>1. gold[i].of = <<"gold", i>> /\ claim[k].of = <<"claim", k>>
      BY <1>3
    <3>2. QED
      BY <2>1, <3>1
  <2>5. QED
    BY <2>2, <2>3, <2>4
<1> HIDE DEF gold, claim, units
<1>6. /\ Right(m, l) \subseteq DOMAIN goldItems /\ Wrong(m, l) \subseteq DOMAIN goldItems
      /\ Lost(m, l) \subseteq DOMAIN goldItems /\ MissedOf \subseteq DOMAIN goldItems
      /\ Extra(m, l) \subseteq Spurious(m) /\ Spurious(m) \subseteq DOMAIN predicted
  BY <1>2 DEF Right, Wrong, Lost, Extra, Matched, Missed, Spurious, Unused
<1>7. IsFiniteSet(Right(m, l)) /\ IsFiniteSet(Wrong(m, l)) /\ IsFiniteSet(Lost(m, l))
      /\ IsFiniteSet(MissedOf) /\ IsFiniteSet(Extra(m, l))
  <2>1. Extra(m, l) \subseteq DOMAIN predicted
    BY <1>6
  <2>2. QED
    BY <1>2, <1>6, <2>1, FS_Subset
<1>8. \A i \in DOMAIN goldItems :
        /\ i \in Right(m, l) <=> gold[i].true = l /\ gold[i].pred = l
        /\ i \in Wrong(m, l) <=> gold[i].true # l /\ gold[i].pred = l
        /\ i \in Lost(m, l) \cup MissedOf <=> gold[i].true = l /\ gold[i].pred # l
  BY <1>2, <1>3 DEF Right, Wrong, Lost, Matched, Missed
<1>9. \A k \in Spurious(m) :
        /\ claim[k].true # l
        /\ k \in Extra(m, l) <=> claim[k].pred = l
  BY <1>3, <1>6 DEF Extra
<1>10. {u \in units : u.true = l /\ u.pred = l} = {gold[i] : i \in Right(m, l)}
  BY <1>4, <1>6, <1>8, <1>9
<1>11. {u \in units : u.true # l /\ u.pred = l} = {gold[i] : i \in Wrong(m, l)} \cup {claim[k] : k \in Extra(m, l)}
  BY <1>4, <1>6, <1>8, <1>9
<1>12. {u \in units : u.true = l /\ u.pred # l} = {gold[i] : i \in Lost(m, l) \cup MissedOf}
  BY <1>4, <1>6, <1>8, <1>9
<1>13. Cardinality({u \in units : u.true = l /\ u.pred = l}) = Cardinality(Right(m, l))
  <2>1. \A i, j \in Right(m, l) : gold[i] = gold[j] => i = j
    BY <1>5, <1>6
  <2>2. QED
    BY <1>7, <1>10, <2>1, ImageCount
<1>14. Cardinality({u \in units : u.true # l /\ u.pred = l}) = Cardinality(Wrong(m, l)) + Cardinality(Extra(m, l))
  <2> DEFINE G == {gold[i] : i \in Wrong(m, l)}
             C == {claim[k] : k \in Extra(m, l)}
  <2>1. \A i, j \in Wrong(m, l) : gold[i] = gold[j] => i = j
    BY <1>5, <1>6
  <2>2. \A i, j \in Extra(m, l) : claim[i] = claim[j] => i = j
    BY <1>5, <1>6
  <2>3. IsFiniteSet(G) /\ Cardinality(G) = Cardinality(Wrong(m, l))
    BY <1>7, <2>1, ImageCount
  <2>4. IsFiniteSet(C) /\ Cardinality(C) = Cardinality(Extra(m, l))
    BY <1>7, <2>2, ImageCount
  <2>5. G \cap C = {}
    BY <1>5, <1>6
  <2> HIDE DEF G, C
  <2>6. Cardinality(G \cup C) = Cardinality(G) + Cardinality(C)
    BY <2>3, <2>4, <2>5, CountTogether
  <2>7. QED
    BY <1>11, <2>3, <2>4, <2>6 DEF G, C
<1>15. Lost(m, l) \cap MissedOf = {} /\ Right(m, l) \cap (Lost(m, l) \cup MissedOf) = {}
       /\ Right(m, l) \cup (Lost(m, l) \cup MissedOf) = Of
  BY <1>2 DEF Right, Lost, Matched, Missed
<1> HIDE DEF MissedOf, Of
<1>16. /\ IsFiniteSet(Lost(m, l) \cup MissedOf)
       /\ Cardinality(Lost(m, l) \cup MissedOf) = Cardinality(Lost(m, l)) + Cardinality(MissedOf)
  BY <1>7, <1>15, CountTogether
<1>17. Cardinality({u \in units : u.true = l /\ u.pred # l}) = Cardinality(Lost(m, l) \cup MissedOf)
  <2>1. \A i, j \in Lost(m, l) \cup MissedOf : gold[i] = gold[j] => i = j
    BY <1>5, <1>6
  <2>2. QED
    BY <1>12, <1>16, <2>1, ImageCount
<1>18. Cardinality(Of) = Cardinality(Right(m, l)) + Cardinality(Lost(m, l) \cup MissedOf)
  BY <1>7, <1>15, <1>16, CountTogether
<1>19. Prf(units, l) = [tp |-> Cardinality(Right(m, l)),
                        fp |-> Cardinality(Wrong(m, l)) + Cardinality(Extra(m, l)),
                        fn |-> Cardinality(Lost(m, l)) + Cardinality(MissedOf)]
  BY <1>13, <1>14, <1>16, <1>17, Zenon DEF Prf
<1>20. IndicatorRow(m, l) = Prf(units, l)
  BY <1>19, Zenon DEF IndicatorRow, MissedOf
<1>21. Prf(units, l).tp + Prf(units, l).fn = Cardinality(Of)
  BY <1>16, <1>18, <1>19
<1>22. QED
  BY <1>20, <1>21 DEF units, Of

(* The harness finds as many pairs of a key as there are items and         *)
(* predictions of it, uses none twice, and its rows count the units.       *)
THEOREM HarnessExact == EvaluationSpec => []HarnessIsExact
<1>1. ASSUME EvaluationTypeOK PROVE HarnessIsExact
  <2>1. PICK m : m = HarnessMatching
    OBVIOUS
  <2> DEFINE units == Units(m, Spurious(m))
  <2>2. PICK choice : ChoosesIn(choice) /\ Serves(m, choice)
    BY <1>1, <2>1, HarnessServes
  <2>3. DOMAIN m = DOMAIN goldItems /\ \A i, j \in DOMAIN m : m[i] = m[j] /\ m[i] # 0 => i = j
    BY <1>1, <2>2, ServedApart
  <2>4. \A key \in {GoldKey(g) : g \in Range(goldItems)} :
          LET items == {i \in DOMAIN goldItems : GoldKey(goldItems[i]) = key}
              found == {k \in DOMAIN predicted : RecordKey(predicted[k]) = key}
          IN  Cardinality(items \ Missed(m)) = Min({Cardinality(items), Cardinality(found)})
    BY <1>1, <2>1, PairsOfKey
  <2>5. \A l \in Labels(units) :
          /\ IndicatorRow(m, l) = Prf(units, l)
          /\ Prf(units, l).tp + Prf(units, l).fn = Cardinality({i \in DOMAIN goldItems : goldItems[i].ind = l})
    <3>1. SUFFICES ASSUME NEW l \in Labels(units)
                   PROVE  /\ IndicatorRow(m, l) = Prf(units, l)
                          /\ Prf(units, l).tp + Prf(units, l).fn
                               = Cardinality({i \in DOMAIN goldItems : goldItems[i].ind = l})
      BY Zenon
    <3>2. l # NoClaim
      BY DEF Labels
    <3>3. QED
      BY <1>1, <2>1, <3>2, RowCountsUnits
  <2>6. Agreeing(m) \subseteq DOMAIN goldItems \ Missed(m)
    BY <2>3 DEF Agreeing, Matched
  <2>7. \A i \in Missed(m) : goldItems[i].band # "0" => i \in FalseZeros(m)
    BY <2>3 DEF FalseZeros, Missed
  <2>8. ASSUME NEW k \in DOMAIN predicted, predicted[k].new, NEW u \in units
        PROVE  u.of # <<"claim", k>>
    <3>1. k \notin Spurious(m)
      BY <2>8 DEF Spurious
    <3>2. (\E i : u.of = <<"gold", i>>) \/ \E n \in Spurious(m) : u.of = <<"claim", n>>
      BY DEF Units
    <3>3. QED
      BY <3>1, <3>2
  <2> HIDE DEF units
  <2>9. QED
    BY <2>1, <2>3, <2>4, <2>5, <2>6, <2>7, <2>8, Zenon DEF HarnessIsExact, units
<1>2. QED
  BY <1>1, EvaluationTyped, PTL

-----------------------------------------------------------------------------
(* A list stays one with an element more.                                  *)
LEMMA ListAppend ==
  ASSUME NEW s, IsList(s), NEW x
  PROVE  /\ IsList(Append(s, x)) /\ Len(s) \in Nat /\ DOMAIN s = 1..Len(s)
         /\ DOMAIN Append(s, x) = 1..(Len(s) + 1)
         /\ \A n \in 1..Len(s) : Append(s, x)[n] = s[n]
         /\ Append(s, x)[Len(s) + 1] = x
<1> DEFINE T == {s[n] : n \in DOMAIN s} \cup {x}
           a == Append(s, x)
           U == {a[n] : n \in DOMAIN a}
<1>1. s \in Seq(T)
  BY DEF IsList
<1>2. /\ a \in Seq(T) /\ Len(s) \in Nat /\ DOMAIN s = 1..Len(s)
      /\ DOMAIN a = 1..(Len(s) + 1) /\ Len(a) = Len(s) + 1
      /\ \A n \in 1..Len(s) : a[n] = s[n]
      /\ a[Len(s) + 1] = x
  BY <1>1
<1>3. a \in [1..Len(a) -> U]
  <2>1. a \in [1..Len(a) -> T]
    BY <1>2, LenProperties
  <2> HIDE DEF a, T
  <2>2. \A n \in 1..Len(a) : a[n] \in U
    BY <2>1
  <2>3. QED
    BY <2>1, <2>2
<1>4. a \in Seq(U)
  BY <1>3, <1>2, SeqDef
<1>5. QED
  BY <1>2, <1>4 DEF IsList

(* A chosen label is one that was drawn, and none outvotes it.             *)
LEMMA ModalWins ==
  ASSUME NEW T, NEW samples \in Seq(T), samples # <<>>
  PROVE  /\ \E k \in DOMAIN samples : Modal(samples) = samples[k]
         /\ DOMAIN Votes(samples) = {samples[k].ind : k \in DOMAIN samples}
         /\ Modal(samples).ind \in DOMAIN Votes(samples)
         /\ \A i \in DOMAIN Votes(samples) : Votes(samples)[i] <= Votes(samples)[Modal(samples).ind]
<1> DEFINE votes == Votes(samples)
           top == {k \in DOMAIN samples : \A i \in DOMAIN votes : votes[samples[k].ind] >= votes[i]}
           counts == {votes[i] : i \in DOMAIN votes}
           N == Len(samples)
<1>1. N \in Nat /\ DOMAIN samples = 1..N /\ 1 \in DOMAIN samples
  BY EmptySeq
<1>2. DOMAIN votes = {samples[k].ind : k \in DOMAIN samples}
  BY DEF Votes, Range
<1>3. \A i \in DOMAIN votes : votes[i] \in 0..N
  <2> TAKE i \in DOMAIN votes
  <2>1. VotersFor(samples, i) \subseteq 1..N
    BY <1>1 DEF VotersFor
  <2>2. IsFiniteSet(1..N) /\ Cardinality(1..N) = N
    BY <1>1, FS_Interval
  <2>3. Cardinality(VotersFor(samples, i)) \in Nat /\ Cardinality(VotersFor(samples, i)) <= N
    BY <2>1, <2>2, FS_Subset, FS_CardinalityType
  <2>4. votes[i] = Cardinality(VotersFor(samples, i))
    BY DEF Votes
  <2>5. QED
    BY <2>3, <2>4, <1>1
<1> HIDE DEF votes, N
<1>4. counts \in SUBSET (0..N) /\ counts # {}
  BY <1>1, <1>2, <1>3
<1>5. PICK m \in counts : \A c \in counts : c <= m
  BY <1>1, <1>4, MaxIn, Zenon
<1>6. PICK k \in DOMAIN samples : votes[samples[k].ind] = m
  BY <1>5, <1>2
<1>7. \A i \in DOMAIN votes : votes[i] <= m
  BY <1>5
<1>8. k \in top
  BY <1>6, <1>7, <1>3, <1>1, <1>4
<1>9. top \in SUBSET Nat /\ top # {}
  BY <1>8, <1>1
<1>10. Min(top) \in top
  BY <1>9, MinIn, Zenon
<1>11. Modal(samples) = samples[Min(top)]
  BY Zenon DEF Modal, votes
<1>12. PICK t \in top : Modal(samples) = samples[t]
  BY <1>10, <1>11
<1>13. /\ t \in DOMAIN samples /\ samples[t].ind \in DOMAIN votes
       /\ \A i \in DOMAIN votes : votes[samples[t].ind] >= votes[i]
  BY <1>12, <1>2
<1>14. \A i \in DOMAIN votes : votes[i] <= votes[samples[t].ind]
  BY <1>13, <1>3, <1>1
<1>15. QED
  BY <1>12, <1>13, <1>14, <1>2 DEF votes

-----------------------------------------------------------------------------
(* The clauses of the hits looked at, and those of the claims saved.       *)
Looked  == {offered[k].clause : k \in 1..(pos - 1)}
Claimed == {claims[k].clause : k \in DOMAIN claims}

(* What is in hand is a stored clause that was not looked at before; each  *)
(* clause looked at has one outcome, and each claim was warranted when it  *)
(* was built, from a list of hits that does not change.                    *)
ClassificationInv ==
  /\ offered \in HitLists /\ pos \in 1..(Len(offered) + 1)
  /\ drawn \in Seq(Answers \cup {NoAnswer}) /\ Len(drawn) <= SampleCount
  /\ drawn # <<>> => pos <= Len(offered) /\ Hit.clause \in Stored /\ Hit.clause \notin Looked
  /\ taken = Looked \cup (IF drawn = <<>> THEN {} ELSE {Hit.clause})
  /\ IsList(claims) /\ Looked = Claimed \cup errors \cup missing
  /\ errors \cap missing = {} /\ Claimed \cap (errors \cup missing) = {}
  /\ \A j, k \in DOMAIN claims : claims[j].clause = claims[k].clause => j = k
  /\ \A k \in DOMAIN claims : Warranted(claims[k])
  /\ progress \in {"run", "done", "failed"}
  /\ progress = "done" => pos = Len(offered) + 1

LEMMA HitsAreListed ==
  ASSUME offered \in HitLists
  PROVE  Len(offered) \in Nat /\ DOMAIN offered = 1..Len(offered)
BY ClassificationAssumption DEF IsList

(* The pillar of the first hit of a clause not looked at before.           *)
LEMMA HitIsFirst ==
  ASSUME offered \in HitLists, pos \in 1..Len(offered), Hit.clause \notin Looked
  PROVE  FirstPillar(Hit.clause) = Hit.pillar
<1> DEFINE of == {k \in DOMAIN offered : offered[k].clause = Hit.clause}
<1>1. Len(offered) \in Nat /\ DOMAIN offered = 1..Len(offered)
  BY HitsAreListed
<1>2. of \in SUBSET Nat /\ pos \in of
  BY <1>1 DEF Hit
<1>3. Min(of) \in of /\ \A k \in of : Min(of) <= k
  BY <1>2, MinIn, Zenon
<1>4. \A k \in 1..(pos - 1) : k \notin of
  BY <1>1 DEF Looked
<1> HIDE DEF of
<1>5. Min(of) = pos
  <2>1. Min(of) \in 1..Len(offered)
    BY <1>3, <1>1 DEF of
  <2>2. QED
    BY <1>1, <1>2, <1>3, <1>4, <2>1
<1>6. QED
  BY <1>5 DEF FirstPillar, Hit, of

(* A claim made of valid samples is warranted.                             *)
LEMMA ClaimIsWarranted ==
  ASSUME ClassificationInv, pos \in 1..Len(offered), Hit.clause \notin Looked, Classified
  PROVE  /\ Warranted(ClaimOf(ValidSamples)) /\ ClaimOf(ValidSamples).clause = Hit.clause
<1> DEFINE samples == ValidSamples
           c == ClaimOf(samples)
           modal == Modal(samples)
<1>1. /\ drawn \in Seq(Answers \cup {NoAnswer}) /\ samples # <<>> /\ c.spans # <<>>
  BY DEF ClassificationInv, Classified
<1>2. /\ samples \in Seq(Answers \cup {NoAnswer})
      /\ \A k \in DOMAIN samples : samples[k] \in Valid(Hit.pillar)
  <2>1. samples = Kept(drawn, Valid(Hit.pillar))
    BY DEF ValidSamples
  <2>2. QED
    BY <1>1, <2>1, KeptProperties
<1> HIDE DEF samples
<1>3. \A k \in DOMAIN samples : samples[k] \in Answers /\ samples[k].ind \in Indicators[Hit.pillar]
  BY <1>2 DEF Valid
<1>4. /\ \E k \in DOMAIN samples : modal = samples[k]
      /\ DOMAIN Votes(samples) = {samples[k].ind : k \in DOMAIN samples}
      /\ modal.ind \in DOMAIN Votes(samples)
      /\ \A i \in DOMAIN Votes(samples) : Votes(samples)[i] <= Votes(samples)[modal.ind]
  BY <1>1, <1>2, ModalWins, Zenon
<1> HIDE DEF modal
<1>5. modal \in Answers /\ IsList(modal.evidence) /\ IsList(modal.members)
  BY <1>4, <1>3, ClassificationAssumption
<1>6. c = [clause |-> Hit.clause, pillar |-> Hit.pillar, ind |-> modal.ind,
           spans |-> Spans(Hit.clause, modal.evidence),
           regime |-> RegimeFrom(Hit.clause, modal.members), votes |-> Votes(samples)]
  BY Zenon DEF ClaimOf, modal
<1>7. {s.element : s \in Range(Spans(Hit.clause, modal.evidence))} \subseteq Stored
  <2> DEFINE ids == modal.evidence
             known == Kept(ids, Stored)
             SpanOf(k) == [span |-> <<DocumentOf[known[k]], SizeOf[known[k]]>>, element |-> known[k],
                           primary |-> known[k] = Hit.clause]
  <2>1. \A k \in DOMAIN known : known[k] \in Stored
    <3>1. ids \in Seq({ids[n] : n \in DOMAIN ids})
      BY <1>5 DEF IsList
    <3>2. QED
      BY <3>1, KeptProperties
  <2>2. Spans(Hit.clause, ids) = [k \in DOMAIN known |-> SpanOf(k)]
    BY Zenon DEF Spans
  <2>3. \A k \in DOMAIN known : SpanOf(k).element = known[k]
    OBVIOUS
  <2> HIDE DEF known, SpanOf
  <2>4. QED
    BY <2>1, <2>2, <2>3 DEF Range
<1>8. RegimeFrom(Hit.clause, modal.members).members[1] = Hit.clause
  <2> DEFINE ids == modal.members
             T == {ids[n] : n \in DOMAIN ids} \cup {Hit.clause}
             kept == Kept(ids, Stored)
             whole == <<Hit.clause>> \o kept
  <2>1. ids \in Seq(T)
    BY <1>5 DEF IsList
  <2>2. kept \in Seq(T) /\ Hit.clause \in T
    BY <2>1, KeptProperties
  <2> HIDE DEF kept, T
  <2>3. whole \in Seq(T) /\ whole # <<>> /\ whole[1] = Hit.clause
    BY <2>2
  <2> HIDE DEF whole
  <2>4. WithoutRepeats(whole)[1] = Hit.clause
    BY <2>3, FirstStaysFirst
  <2>5. QED
    BY <2>4 DEF RegimeFrom, whole, kept
<1>9. FirstPillar(Hit.clause) = Hit.pillar
  BY HitIsFirst DEF ClassificationInv
<1>10. /\ c.clause = Hit.clause /\ c.pillar = Hit.pillar /\ c.ind = modal.ind
       /\ c.spans = Spans(Hit.clause, modal.evidence)
       /\ c.regime = RegimeFrom(Hit.clause, modal.members) /\ c.votes = Votes(samples)
  BY <1>6
<1> HIDE DEF c
<1>11. \A i \in DOMAIN c.votes : i \in Indicators[c.pillar] /\ c.votes[i] <= c.votes[c.ind]
  BY <1>3, <1>4, <1>10
<1>12. c.ind \in Indicators[c.pillar]
  BY <1>4, <1>10, <1>11
<1>13. Warranted(c)
  BY <1>1, <1>7, <1>8, <1>9, <1>10, <1>11, <1>12 DEF Warranted
<1>14. QED
  BY <1>13, <1>10 DEF c, samples

(* The next hit: one more clause is looked at.                             *)
LEMMA LookedGrows ==
  ASSUME ClassificationInv, pos \in 1..Len(offered), pos' = pos + 1, UNCHANGED offered
  PROVE  Looked' = Looked \cup {Hit.clause} /\ pos' \in 1..(Len(offered) + 1) /\ DOMAIN offered = 1..Len(offered)
<1>1. Len(offered) \in Nat /\ DOMAIN offered = 1..Len(offered)
  BY HitsAreListed DEF ClassificationInv
<1>2. 1..(pos' - 1) = (1..(pos - 1)) \cup {pos}
  BY <1>1
<1>3. QED
  BY <1>1, <1>2 DEF Looked, Hit
LEMMA ClassificationInitInv ==
  ASSUME ClassificationInit
  PROVE  ClassificationInv
<1>1. Len(offered) \in Nat
  BY HitsAreListed DEF ClassificationInit
<1>2. <<>> \in Seq(Answers \cup {NoAnswer}) /\ Len(<<>>) = 0 /\ IsList(<<>>) /\ DOMAIN <<>> = {}
  BY DEF IsList
<1>3. Looked = {} /\ Claimed = {}
  BY <1>1, <1>2 DEF ClassificationInit, Looked, Claimed
<1>4. QED
  BY <1>1, <1>2, <1>3, ClassificationAssumption DEF ClassificationInit, ClassificationInv

LEMMA ClassificationStep ==
  ASSUME ClassificationInv, [ClassificationNext]_classificationVars
  PROVE  ClassificationInv'
<1>0. Len(offered) \in Nat /\ <<>> \in Seq(Answers \cup {NoAnswer}) /\ Len(<<>>) = 0
  BY HitsAreListed DEF ClassificationInv
<1>a. /\ offered \in HitLists /\ pos \in 1..(Len(offered) + 1)
      /\ drawn \in Seq(Answers \cup {NoAnswer}) /\ Len(drawn) <= SampleCount
  BY DEF ClassificationInv
<1>b. ASSUME offered' = offered
      PROVE  \A c : Warranted(c)' <=> Warranted(c)
  BY <1>b DEF Warranted, FirstPillar
<1>1. CASE SkipTaken
  <2>1. /\ pos \in 1..Len(offered) /\ pos' = pos + 1 /\ UNCHANGED offered /\ drawn' = <<>>
        /\ Hit.clause \in Looked
    BY <1>1, <1>0 DEF SkipTaken, Advance, ClassificationInv
  <2>2. Looked' = Looked /\ pos' \in 1..(Len(offered) + 1)
    BY <2>1, LookedGrows
  <2>3. Claimed' = Claimed
    BY <1>1 DEF SkipTaken, Claimed
  <2>4. QED
    BY <1>0, <1>1, <1>b, <2>1, <2>2, <2>3 DEF SkipTaken, Advance, ClassificationInv
<1>2. CASE SkipMissing
  <2>1. /\ pos \in 1..Len(offered) /\ pos' = pos + 1 /\ UNCHANGED offered /\ drawn' = <<>>
        /\ Hit.clause \notin taken
    BY <1>2, <1>0 DEF SkipMissing, Advance, ClassificationInv
  <2>2. Looked' = Looked \cup {Hit.clause} /\ pos' \in 1..(Len(offered) + 1)
    BY <2>1, LookedGrows
  <2>3. Claimed' = Claimed
    BY <1>2 DEF SkipMissing, Claimed
  <2>4. drawn = <<>> /\ taken = Looked
    BY <1>2, <2>1 DEF SkipMissing, ClassificationInv
  <2>5. QED
    BY <1>0, <1>2, <1>b, <2>1, <2>2, <2>3, <2>4 DEF SkipMissing, Advance, ClassificationInv
<1>3. CASE SkipError
  <2>1. /\ pos \in 1..Len(offered) /\ pos' = pos + 1 /\ UNCHANGED offered /\ drawn' = <<>>
        /\ drawn # <<>>
    BY <1>3, <1>0, ClassificationAssumption DEF SkipError, Sampled, Advance, ClassificationInv
  <2>2. Looked' = Looked \cup {Hit.clause} /\ pos' \in 1..(Len(offered) + 1)
    BY <2>1, LookedGrows
  <2>3. Claimed' = Claimed
    BY <1>3 DEF SkipError, Claimed
  <2>4. Hit.clause \notin Looked /\ taken = Looked \cup {Hit.clause}
    BY <2>1 DEF ClassificationInv
  <2>5. QED
    BY <1>0, <1>3, <1>b, <2>1, <2>2, <2>3, <2>4 DEF SkipError, Sampled, Advance, ClassificationInv
<1>4. CASE Save
  <2> DEFINE new == ClaimOf(ValidSamples)
  <2>1. /\ pos \in 1..Len(offered) /\ pos' = pos + 1 /\ UNCHANGED offered /\ drawn' = <<>>
        /\ drawn # <<>> /\ claims' = Append(claims, new) /\ Classified
        /\ UNCHANGED <<taken, missing, errors, progress>> /\ progress = "run"
    BY <1>4, <1>0, ClassificationAssumption DEF Save, Sampled, Advance, ClassificationInv
  <2>2. Looked' = Looked \cup {Hit.clause} /\ pos' \in 1..(Len(offered) + 1)
    BY <2>1, LookedGrows
  <2>3. Hit.clause \notin Looked /\ taken = Looked \cup {Hit.clause} /\ IsList(claims)
    BY <2>1 DEF ClassificationInv
  <2>4. Warranted(new) /\ new.clause = Hit.clause
    BY <2>1, <2>3, ClaimIsWarranted, Zenon
  <2> HIDE DEF new
  <2>5. /\ IsList(claims') /\ Len(claims) \in Nat /\ DOMAIN claims = 1..Len(claims)
        /\ DOMAIN claims' = 1..(Len(claims) + 1)
        /\ \A n \in 1..Len(claims) : claims'[n] = claims[n]
        /\ claims'[Len(claims) + 1] = new
    BY <2>1, <2>3, ListAppend
  <2>6. Claimed' = Claimed \cup {Hit.clause}
    BY <2>4, <2>5 DEF Claimed
  <2>7. (\A k \in DOMAIN claims : Warranted(claims[k]))'
    <3>1. \A k \in DOMAIN claims : Warranted(claims[k])
      BY DEF ClassificationInv
    <3>2. \A k \in DOMAIN claims' : claims'[k] = new \/ (k \in DOMAIN claims /\ claims'[k] = claims[k])
      <4> TAKE k \in DOMAIN claims'
      <4>1. k = Len(claims) + 1 \/ k \in 1..Len(claims)
        BY <2>5
      <4>2. QED
        BY <4>1, <2>5, Zenon
    <3>3. ASSUME NEW k \in DOMAIN claims'
          PROVE  Warranted(claims[k])'
      <4>1. CASE claims'[k] = new
        BY <4>1, <2>1, <2>4 DEF Warranted, FirstPillar
      <4>2. CASE k \in DOMAIN claims /\ claims'[k] = claims[k]
        BY <4>2, <2>1, <3>1 DEF Warranted, FirstPillar
      <4>3. QED
        BY <4>1, <4>2, <3>2
    <3>4. QED
      BY <3>3, Zenon
  <2>8. \A j, k \in DOMAIN claims' : claims'[j].clause = claims'[k].clause => j = k
    <3>1. \A k \in DOMAIN claims : claims[k].clause # Hit.clause
      BY <2>3 DEF ClassificationInv, Claimed
    <3>2. \A j, k \in DOMAIN claims : claims[j].clause = claims[k].clause => j = k
      BY DEF ClassificationInv
    <3>3. QED
      BY <2>4, <2>5, <3>1, <3>2
  <2>9. /\ Looked' = Claimed' \cup errors \cup missing /\ errors \cap missing = {}
        /\ Claimed' \cap (errors \cup missing) = {}
    BY <2>2, <2>3, <2>6 DEF ClassificationInv
  <2>10. QED
    BY <1>0, <1>a, <2>1, <2>2, <2>3, <2>5, <2>7, <2>8, <2>9, ClassificationAssumption DEF ClassificationInv
<1>5. CASE SaveFails
  <2>1. Looked' = Looked /\ Claimed' = Claimed /\ Hit' = Hit
    BY <1>5 DEF SaveFails, Looked, Claimed, Hit
  <2>2. QED
    BY <1>5, <1>b, <2>1 DEF SaveFails, ClassificationInv
<1>6. CASE End
  <2>1. Looked' = Looked /\ Claimed' = Claimed /\ Hit' = Hit /\ pos = Len(offered) + 1
    BY <1>6, <1>0, <1>a DEF End, Looked, Claimed, Hit
  <2>2. QED
    BY <1>6, <1>b, <2>1 DEF End, ClassificationInv
<1>7. ASSUME NEW a \in Answers \cup {NoAnswer}, Sample(a)
      PROVE  ClassificationInv'
  <2>1. Looked' = Looked /\ Claimed' = Claimed /\ Hit' = Hit
    BY <1>7 DEF Sample, Looked, Claimed, Hit
  <2>2. /\ drawn' \in Seq(Answers \cup {NoAnswer}) /\ Len(drawn') <= SampleCount /\ drawn' # <<>>
    BY <1>7, <1>a, ClassificationAssumption DEF Sample
  <2>3. Hit.clause \notin Looked /\ taken' = Looked \cup {Hit.clause}
    <3>1. CASE drawn = <<>>
      BY <1>7, <3>1 DEF Sample, ClassificationInv
    <3>2. CASE drawn # <<>>
      BY <1>7, <3>2 DEF Sample, ClassificationInv
    <3>3. QED
      BY <3>1, <3>2
  <2>4. QED
    BY <1>7, <1>a, <1>b, <2>1, <2>2, <2>3 DEF Sample, ClassificationInv
<1>8. CASE UNCHANGED classificationVars
  <2>1. Looked' = Looked /\ Claimed' = Claimed /\ Hit' = Hit
    BY <1>8 DEF classificationVars, Looked, Claimed, Hit
  <2>2. QED
    BY <1>8, <1>b, <2>1 DEF classificationVars, ClassificationInv
<1>9. QED
  BY <1>1, <1>2, <1>3, <1>4, <1>5, <1>6, <1>7, <1>8 DEF ClassificationNext

LEMMA ClassificationSound ==
  ASSUME ClassificationInv
  PROVE  ClassificationTypeOK /\ ClaimsAreWarranted
<1>1. Len(offered) \in Nat /\ DOMAIN offered = 1..Len(offered)
  BY HitsAreListed DEF ClassificationInv
<1>2. /\ Looked \subseteq {h.clause : h \in Range(offered)}
      /\ pos <= Len(offered) => Hit.clause \in {h.clause : h \in Range(offered)}
  BY <1>1 DEF Looked, Hit, Range, ClassificationInv
<1>3. {c.clause : c \in Range(claims)} = Claimed
  BY DEF Claimed, Range
<1>4. ClassificationTypeOK
  BY <1>1, <1>2, <1>3 DEF ClassificationTypeOK, ClassificationInv
<1>5. progress = "done" => {h.clause : h \in Range(offered)} = Looked
  BY <1>1 DEF Looked, Range, ClassificationInv
<1>6. \A k \in DOMAIN claims : claims[k].clause \in Claimed
  BY DEF Claimed
<1>7. QED
  BY <1>3, <1>4, <1>5, <1>6 DEF ClaimsAreWarranted, ClassificationInv

(* Whatever hits are offered and however the model answers, the variables  *)
(* of the classifying stage keep their types.                              *)
THEOREM ClassificationTyped == ClassificationSpec => []ClassificationTypeOK
<1>1. ClassificationInit => ClassificationInv
  BY ClassificationInitInv
<1>2. ClassificationInv /\ [ClassificationNext]_classificationVars => ClassificationInv'
  BY ClassificationStep
<1>3. ClassificationInv => ClassificationTypeOK
  BY ClassificationSound
<1>4. QED
  BY <1>1, <1>2, <1>3, PTL DEF ClassificationSpec

(* Every claim saved carries a label of the pillar that retrieved its      *)
(* clause first, which no other label outvotes, and stored evidence, and   *)
(* each clause looked at has exactly one outcome.                          *)
THEOREM Warrants == ClassificationSpec => []ClaimsAreWarranted
<1>1. ClassificationInit => ClassificationInv
  BY ClassificationInitInv
<1>2. ClassificationInv /\ [ClassificationNext]_classificationVars => ClassificationInv'
  BY ClassificationStep
<1>3. ClassificationInv => ClaimsAreWarranted
  BY ClassificationSound
<1>4. QED
  BY <1>1, <1>2, <1>3, PTL DEF ClassificationSpec
=============================================================================
