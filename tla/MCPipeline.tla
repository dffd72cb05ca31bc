----------------------------- MODULE MCPipeline -----------------------------
(***************************************************************************)
(* Small instances of Pipeline for TLC, and two statements of the          *)
(* repository's documents that its code does not satisfy.                  *)
(***************************************************************************)
EXTENDS Pipeline, TLC

CONSTANTS c1, c2, r1, r2, w1, w2, ind, pillar

MCIndicatorOf == [c \in Claims |-> ind]
MCPillarOf    == [c \in Claims |-> pillar]

Symmetric == Permutations(Claims) \cup Permutations(Runs) \cup Permutations(Workers)

(* systemArchitecture.md:203, "evidence_found -- >=1 verified claim": an   *)
(* indicator with a gate-verified claim is evaluated to evidence_found.    *)
EvidenceFoundWhenVerified ==
  \A w \in Workers, c \in Claims :
    pc[w] = "layer2" /\ c \in WithVerdict(w, "verified") =>
      inv[w].cells[IndicatorOf[c]] = "evidence_found"

(* systemArchitecture.md:120, "State persists to disk; a crash resumes     *)
(* without re-work": a question that is open when the process dies can     *)
(* still be answered after the restart.                                    *)
QuestionSurvivesCrash ==
  [][\A r \in Runs : thread[r].at = "paused" /\ crashes' # crashes =>
       thread'[r].at = "paused"]_vars
=============================================================================
