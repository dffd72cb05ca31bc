--------------------------- MODULE Recommendations ---------------------------
(***************************************************************************)
(* Where a recommendation is kept and how it is asked for: each run stores *)
(* the coverage rows of its cells and then a recommendation for each of    *)
(* its verified claims, while the API answers from the claim's stored      *)
(* recommendation, or computes one from the stored claim and the stored    *)
(* coverage row.                                                           *)
(*                                                                         *)
(* All runs write the same rows: a claim's id is its clause and indicator, *)
(* a coverage row's key the indicator (of one jurisdiction).  Saving a     *)
(* claim anew keeps the recommendation of its row.  What a text scores     *)
(* (Scoring) is a constant here.                                           *)
(***************************************************************************)
EXTENDS Naturals, Sequences

CONSTANTS
  ScoredClaims, IndicatorOf,
  PillarIds,
  BandOf,       (* BandOf[c][x][p]: of claim c with text x by p's rubric   *)
  Findings,     (* what runs may bring to coverage_node, see Finding       *)
  Scorers,      (* invocations under way                                   *)
  Missing,      (* no row, no recommendation                               *)
  MaxScorings   (* bound on the runs                                       *)

(* cells: [pillar, indicator] of each indicator of each pillar, in order;  *)
(* found: the [text, pillar] of each claim; verified: those whose report   *)
(* passed; counted: those that coverage counts.  A claim's indicator is    *)
(* one of its pillar's, which is one of the run's (ClaimsAreWarranted of   *)
(* Classification).                                                        *)
Finding(f) ==
  /\ f.cells \in Seq([pillar : PillarIds, indicator : {IndicatorOf[c] : c \in ScoredClaims}])
  /\ DOMAIN f.found \subseteq ScoredClaims
  /\ f.counted \subseteq f.verified /\ f.verified \subseteq DOMAIN f.found
  /\ \A c \in DOMAIN f.found : \E n \in DOMAIN f.cells :
       f.cells[n] = [pillar |-> f.found[c].pillar, indicator |-> IndicatorOf[c]]

ASSUME RecommendationsAssumption ==
  /\ \A f \in Findings : Finding(f)
  /\ \A f \in Findings : \A c \in DOMAIN f.found : f.found[c] # Missing /\ f.found[c].pillar \in PillarIds
        /\ f.found[c].text \in DOMAIN BandOf[c]
  /\ \A c \in ScoredClaims : \A x \in DOMAIN BandOf[c] : \A p \in PillarIds :
       BandOf[c][x][p] \notin {Missing, "null"}
  /\ Missing # "null" /\ \A S \in SUBSET ScoredClaims : S # Missing
  /\ MaxScorings \in Nat

VARIABLES
  claimRows,      (* [text, pillar] of a claim                             *)
  coverageRows,   (* verified_claim_ids of an indicator                    *)
  bandRows,       (* recommended_band of a claim                           *)
  scoring,        (* what each invocation is about and has left to save    *)
  alone,          (* history: none has begun since it began, none was      *)
                  (* under way then                                        *)
  everCounted,    (* history: claims that some coverage row has counted    *)
  scorings        (* runs begun                                            *)

recommendationVars == <<claimRows, coverageRows, bandRows, scoring, alone, everCounted, scorings>>

CoveredIndicators == {IndicatorOf[c] : c \in ScoredClaims}

Idle == [step |-> "idle", finding |-> Missing, left |-> {}]

RecommendationsInit ==
  /\ claimRows = [c \in ScoredClaims |-> Missing]
  /\ coverageRows = [i \in CoveredIndicators |-> Missing]
  /\ bandRows = [c \in ScoredClaims |-> Missing]
  /\ scoring = [w \in Scorers |-> Idle]
  /\ alone = [w \in Scorers |-> FALSE] /\ everCounted = {} /\ scorings = 0

-----------------------------------------------------------------------------
(* The verified_claim_ids that coverage_node records for an indicator.     *)
Counted(f, i) == {c \in f.counted : IndicatorOf[c] = i}

(* Mutant: evidence for the indicator is enough.                           *)
RecommendFound(c, text, pillar, claims) == IF claims # {} THEN BandOf[c][text][pillar] ELSE "null"

(* recommend_band: no band unless evidence was found and this claim is     *)
(* part of it.                                                             *)
Recommend(c, text, pillar, claims) == IF c \in claims THEN BandOf[c][text][pillar] ELSE "null"

(* The claims of recommend_all, each once per cell of its indicator.       *)
ToRecommend(f) ==
  {x \in (DOMAIN f.cells) \X f.verified : IndicatorOf[x[2]] = f.cells[x[1]].indicator}

(* materialise_layer2_for_claim on what the store has.                     *)
Computed(c) ==
  IF claimRows[c] = Missing \/ coverageRows[IndicatorOf[c]] = Missing THEN Missing
  ELSE Recommend(c, claimRows[c].text, claimRows[c].pillar, coverageRows[IndicatorOf[c]])

(* get_claim: the stored one, else the computed one.                       *)
Shown(c) == IF bandRows[c] # Missing THEN bandRows[c] ELSE Computed(c)

-----------------------------------------------------------------------------
GoOn(w, step, left) ==
  scoring' = [scoring EXCEPT ![w] = [step |-> step, finding |-> scoring[w].finding, left |-> left]]

(* A run that has saved its claims comes to coverage_node.                 *)
BeginScoring(w, f) ==
  /\ scoring[w].step \in {"idle", "done"} /\ scorings < MaxScorings
  /\ scoring' = [scoring EXCEPT ![w] = [step |-> "coverage", finding |-> f, left |-> DOMAIN f.cells]]
  /\ claimRows' = [c \in ScoredClaims |-> IF c \in DOMAIN f.found THEN f.found[c] ELSE claimRows[c]]
  /\ alone' = [v \in Scorers |->
                 v = w /\ \A u \in Scorers \ {w} : scoring[u].step \in {"idle", "done"}]
  /\ scorings' = scorings + 1
  /\ UNCHANGED <<coverageRows, bandRows, everCounted>>

(* save_coverage, cell by cell; then layer2_node has all recommendations.  *)
SaveCoverage(w) ==
  LET f == scoring[w].finding
  IN  /\ scoring[w].step = "coverage"
      /\ \/ \E n \in scoring[w].left :
              LET i == f.cells[n].indicator
              IN  /\ \A m \in scoring[w].left : n <= m
                  /\ coverageRows' = [coverageRows EXCEPT ![i] = Counted(f, i)]
                  /\ everCounted' = everCounted \cup Counted(f, i)
                  /\ GoOn(w, "coverage", scoring[w].left \ {n})
         \/ /\ scoring[w].left = {}
            /\ GoOn(w, "layer2", ToRecommend(f))
            /\ UNCHANGED <<coverageRows, everCounted>>
      /\ UNCHANGED <<claimRows, bandRows, alone, scorings>>

(* save_layer2_recommendation, cell by cell, with the run's own record.    *)
SaveRecommendation(w) ==
  LET f == scoring[w].finding
  IN  /\ scoring[w].step = "layer2"
      /\ \/ \E x \in scoring[w].left :
              LET c == x[2]
              IN  /\ \A y \in scoring[w].left : x[1] <= y[1]
                  /\ bandRows' = [bandRows EXCEPT ![c] =
                       Recommend(c, f.found[c].text, f.cells[x[1]].pillar, Counted(f, IndicatorOf[c]))]
                  /\ GoOn(w, "layer2", scoring[w].left \ {x})
         \/ /\ scoring[w].left = {}
            /\ GoOn(w, "done", {})
            /\ UNCHANGED bandRows
      /\ UNCHANGED <<claimRows, coverageRows, alone, everCounted, scorings>>

(* A save fails, or the process ends.                                      *)
StopScoring(w) ==
  /\ scoring[w].step \in {"coverage", "layer2"}
  /\ scoring' = [scoring EXCEPT ![w] = Idle]
  /\ UNCHANGED <<claimRows, coverageRows, bandRows, alone, everCounted, scorings>>

RecommendationsNext ==
  \E w \in Scorers :
    \/ \E f \in Findings : BeginScoring(w, f)
    \/ SaveCoverage(w) \/ SaveRecommendation(w) \/ StopScoring(w)

RecommendationsSpec == RecommendationsInit /\ [][RecommendationsNext]_recommendationVars

-----------------------------------------------------------------------------
(* The pillars that a run has a claim's indicator under are the claim's.   *)
Unshared(f, c) ==
  \A n \in DOMAIN f.cells :
    f.cells[n].indicator = IndicatorOf[c] => f.cells[n].pillar = f.found[c].pillar

(* After a run that nothing overlapped, the API shows for each of its      *)
(* verified claims whose indicator no other pillar of the run has what it  *)
(* would compute from the rows that are there, whatever stopped runs have  *)
(* left; and whichever way runs overlap, it shows a band for no claim that *)
(* coverage has never counted (recommend_all, get_claim).                  *)
RoutesAgree ==
  /\ \A w \in Scorers : scoring[w].step = "done" /\ alone[w] =>
       \A c \in scoring[w].finding.verified :
         Unshared(scoring[w].finding, c) => bandRows[c] = Computed(c) /\ Shown(c) # Missing
  /\ \A c \in ScoredClaims : Shown(c) \notin {Missing, "null"} => c \in everCounted
=============================================================================
