------------------------------ MODULE Verdicts ------------------------------
(***************************************************************************)
(* The vocabulary every other module shares: the four verification gates,  *)
(* the verdict a vector of gate results stands for, and the two statuses   *)
(* of a claim (its Layer-1 status in the repository and the verdict of its *)
(* verification report).                                                   *)
(*                                                                         *)
(* The code derives a verdict from gate results in three places, written   *)
(* three times; the three are kept apart here so that their agreement is a *)
(* theorem (StoresProofs) and not a modelling decision.                    *)
(***************************************************************************)

DeterministicGates == {"span_existence", "verbatim_match"}
ModelGates         == {"entailment", "self_consistency"}
Gates              == DeterministicGates \cup ModelGates

Verdict == {"verified", "flagged", "rejected"}

(* Gate results: a function from the gates that were run to "it passed".   *)
GateVector == [Gates -> BOOLEAN]
PartialGateVector == UNION {[S -> BOOLEAN] : S \in SUBSET Gates}

Holds(g, gate) == gate \in DOMAIN g /\ g[gate]

(***************************************************************************)
(* rie_domain.derive_status: a deterministic gate that is missing or       *)
(* failed rejects, otherwise a model gate that is missing or failed flags. *)
(***************************************************************************)
DeriveStatus(g) ==
  IF \E d \in DeterministicGates : ~Holds(g, d) THEN "rejected"
  ELSE IF \E m \in ModelGates : ~Holds(g, m) THEN "flagged"
  ELSE "verified"

(***************************************************************************)
(* The repository's private mirror of it, which looks at the gates in a    *)
(* fixed order, returns early on the first missing one and only after a    *)
(* whole tier looks at the failures it collected.                          *)
(***************************************************************************)
DeriveStatusInline(g) ==
  IF "span_existence" \notin DOMAIN g THEN "rejected"
  ELSE IF "verbatim_match" \notin DOMAIN g THEN "rejected"
  ELSE IF ~g["span_existence"] \/ ~g["verbatim_match"] THEN "rejected"
  ELSE IF "entailment" \notin DOMAIN g THEN "flagged"
  ELSE IF "self_consistency" \notin DOMAIN g THEN "flagged"
  ELSE IF ~g["entailment"] \/ ~g["self_consistency"] THEN "flagged"
  ELSE "verified"

(* VerificationService.verify, on the four results it has just computed.   *)
VerifyStatus(g) ==
  LET deterministicFailed == ~(g["span_existence"] /\ g["verbatim_match"])
      modelFailed         == ~(g["entailment"] /\ g["self_consistency"])
  IN  IF deterministicFailed THEN "rejected"
      ELSE IF modelFailed THEN "flagged"
      ELSE "verified"

(* An objection raised after the four gates (adversarial panel, KG         *)
(* grounding, confidence screen) turns "verified" into "flagged" and       *)
(* leaves every other verdict alone.                                       *)
Demote(verdict, objection) ==
  IF objection /\ verdict = "verified" THEN "flagged" ELSE verdict

(***************************************************************************)
(* Layer-1 status of a claim row; "absent" is a row that does not exist.   *)
(***************************************************************************)
RowStatus == {"absent", "pending", "flagged", "verified", "rejected"}

CoverageState == {"evidence_found", "no_evidence", "insufficient"}
=============================================================================
