------------------------------ MODULE Scoring ------------------------------
(***************************************************************************)
(* The score band recommended for a verified claim: points per band from   *)
(* an indicator's rubric, keywords, cues and clause pattern, overruled by  *)
(* the closest few-shot example if it is close enough.                     *)
(*                                                                         *)
(* A text is the set of its words, which is what the rubric and the        *)
(* examples are compared with.  A keyword or a cue occurs in it as a       *)
(* substring: in one of its spellings, each the words that show it.        *)
(* Points are in quarters.                                                 *)
(***************************************************************************)
EXTENDS Filter, Integers, SequencesExt, FiniteSetsExt

CONSTANTS
  Vocabulary,
  Rubric,            (* scoring_criteria: the words describing a band      *)
  Keywords, Cues,    (* positive_keywords, negative_cues                   *)
  Spellings,         (* of a keyword or cue: sets of words                 *)
  Examples,          (* few_shot_examples: [band, words]                   *)
  MaxShots           (* bound on the examples of an indicator              *)

Bands == <<"0", "0.5", "1">>

ASSUME ScoringAssumption ==
  /\ IsFiniteSet(Vocabulary) /\ IsFiniteSet(Keywords) /\ IsFiniteSet(Cues)
  /\ Rubric \in [Range(Bands) -> SUBSET Vocabulary]
  /\ Examples \subseteq [band : Range(Bands), words : (SUBSET Vocabulary) \ {{}}]
  /\ MaxShots \in Nat

VARIABLES
  tokens,       (* the words of the claim                                  *)
  sharesPattern, conditional,      (* clause_pattern: of the indicator,    *)
                                   (* CONDITIONAL_REGIME                   *)
  shots         (* the indicator's examples that have a band and words     *)

scoringVars == <<tokens, sharesPattern, conditional, shots>>

ScoringTypeOK ==
  /\ tokens \in SUBSET Vocabulary /\ tokens # {}
  /\ {sharesPattern, conditional} \subseteq BOOLEAN /\ shots \in Seq(Examples)

ScoringInit ==
  /\ tokens \in (SUBSET Vocabulary) \ {{}}
  /\ sharesPattern \in BOOLEAN /\ conditional \in BOOLEAN /\ shots = <<>>

-----------------------------------------------------------------------------
(* `kw in text`, `cue in text`                                             *)
Occurring(phrases) == {k \in phrases : \E spelling \in Spellings[k] : spelling \subseteq tokens}

If(condition, points) == IF condition THEN points ELSE 0

(* Mutant: a keyword speaks for the two upper bands only.                  *)
ScoresUpper ==
  LET cues == Cardinality(Occurring(Cues))
  IN  [b \in Range(Bands) |->
         4 * Cardinality(tokens \cap Rubric[b]) + If(b # "0", Cardinality(Occurring(Keywords)))
           + If(b = "0.5", cues + If(sharesPattern, 2) + If(conditional, 3))
           - If(b = "1", 2 * cues + If(conditional, 1))]

(* score_bands_from_criteria                                               *)
Scores ==
  LET cues == Cardinality(Occurring(Cues))
  IN  [b \in Range(Bands) |->
         4 * Cardinality(tokens \cap Rubric[b]) + Cardinality(Occurring(Keywords))
           + If(b = "0.5", cues + If(sharesPattern, 2) + If(conditional, 3))
           - If(b = "1", 2 * cues + If(conditional, 1))]

(* The overlap with an example is Shared / Joined (Jaccard).               *)
Shared(k) == Cardinality(tokens \cap shots[k].words)
Joined(k) == Cardinality(tokens \cup shots[k].words)

Nearer(j, k)   == Shared(j) * Joined(k) > Shared(k) * Joined(j)
NearEnough(k)  == 20 * Shared(k) >= 3 * Joined(k)

(* The first of the closest examples, if its overlap is 0.15 at least.     *)
Decides(k) ==
  /\ NearEnough(k)
  /\ \A j \in DOMAIN shots : ~Nearer(j, k) /\ (j < k => Nearer(k, j))

Deciding == {k \in DOMAIN shots : Decides(k)}

(* score_from_few_shots                                                    *)
FewShotBand == IF Deciding = {} THEN "none" ELSE shots[CHOOSE k \in Deciding : TRUE].band

(* Equal points rank in the order of the bands.                            *)
Ahead(scores, i, j) ==
  \/ scores[Bands[i]] > scores[Bands[j]]
  \/ scores[Bands[i]] = scores[Bands[j]] /\ i < j

Leader(scores, places) == CHOOSE i \in places : \A j \in places \ {i} : Ahead(scores, i, j)

(* pick_band: an example decides; otherwise the leader, if it has points   *)
(* and half a point's lead, and else the middle.                           *)
PickBand(scores, example) ==
  LET top    == Leader(scores, 1..3)
      second == Leader(scores, (1..3) \ {top})
  IN  IF example # "none" THEN example
      ELSE IF scores[Bands[top]] <= 0 \/ scores[Bands[top]] - scores[Bands[second]] < 2
        THEN "0.5" ELSE Bands[top]

Band == PickBand(Scores, FewShotBand)

-----------------------------------------------------------------------------
(* The same claim with one word more, the same indicator with one example. *)
AddWord(w) ==
  /\ w \notin tokens
  /\ tokens' = tokens \cup {w}
  /\ UNCHANGED <<sharesPattern, conditional, shots>>

AddShot(s) ==
  /\ Len(shots) < MaxShots
  /\ shots' = Append(shots, s)
  /\ UNCHANGED <<tokens, sharesPattern, conditional>>

ScoringNext ==
  \/ \E w \in Vocabulary : AddWord(w)
  \/ \E s \in Examples : AddShot(s)

ScoringSpec == ScoringInit /\ [][ScoringNext]_scoringVars

-----------------------------------------------------------------------------
(* Where no example decides, a further word moves the band to the middle,  *)
(* to a band it describes, or, if it completes a cue, to 0 - never up      *)
(* because of a keyword.                                                   *)
WordMoves(w) ==
  Deciding = {} /\ Deciding' = {} =>
    Band' \in {Band, "0.5"} \cup {b \in Range(Bands) : w \in Rubric[b]}
              \cup {b \in {"0"} : Occurring(Cues)' # Occurring(Cues)}

(* Where one does, a word that only it has leaves it to decide; and a word *)
(* that no example has lets none decide that would not without it.         *)
WordDecides(w) ==
  LET having == {k \in DOMAIN shots : w \in shots[k].words}
  IN  /\ Deciding # {} /\ having = Deciding => Band' = Band
      /\ Deciding = {} /\ having = {} => Deciding' = {}

(* The band moves only the way of what is found: with a word as above, and *)
(* with an example to that example's band or nowhere, whatever it is near  *)
(* to (score_bands_from_criteria, score_from_few_shots, pick_band).        *)
BandStep ==
  /\ \A w \in tokens' \ tokens : WordMoves(w) /\ WordDecides(w)
  /\ shots' # shots => Band' \in {Band, Last(shots').band}

BandFollowsFindings == [][BandStep]_scoringVars
=============================================================================
