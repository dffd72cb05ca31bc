--------------------------- MODULE ClaimLifecycle ---------------------------
(***************************************************************************)
(* What the engine promises about one stored claim, whatever pipelines,    *)
(* reviewers, crashes and restarts do: a claim is recorded, judged, perhaps *)
(* recorded again by a later run, and it is shown as "verified" only on the *)
(* strength of a report in which every gate passed and nothing objected    *)
(* (it is then attested) or of a reviewer's explicit approval.  Pipeline   *)
(* is shown to implement this specification.                               *)
(***************************************************************************)
EXTENDS Verdicts

CONSTANT Claims

VARIABLES
  status,     (* status[c]: Layer-1 status of the stored claim             *)
  attested,   (* claims some run has verified by its gates                 *)
  approved    (* claims some reviewer has asked to accept                  *)

vars == <<status, attested, approved>>

TypeOK ==
  /\ status \in [Claims -> RowStatus]
  /\ attested \subseteq Claims
  /\ approved \subseteq Claims

Init ==
  /\ status = [c \in Claims |-> "absent"]
  /\ attested = {}
  /\ approved = {}

(* A classifier produced the claim, for the first time or again.           *)
Record(c) ==
  /\ status' = [status EXCEPT ![c] = "pending"]
  /\ UNCHANGED <<attested, approved>>

(* A verification report reached the store.                                *)
Judge(c, verdict) ==
  /\ status[c] # "absent"
  /\ status' = [status EXCEPT ![c] = verdict]
  /\ attested' = IF verdict = "verified" THEN attested \cup {c} ELSE attested
  /\ UNCHANGED approved

(* A reviewer answered; nothing is promoted yet.                           *)
Approve(S) ==
  /\ approved' = approved \cup S
  /\ UNCHANGED <<status, attested>>

(* The answer is carried out.                                              *)
Promote(c) ==
  /\ c \in approved
  /\ status[c] # "absent"
  /\ status' = [status EXCEPT ![c] = "verified"]
  /\ UNCHANGED <<attested, approved>>

Next ==
  \/ \E c \in Claims : Record(c) \/ Promote(c)
  \/ \E c \in Claims, v \in Verdict : Judge(c, v)
  \/ \E S \in SUBSET Claims : Approve(S)

Spec == Init /\ [][Next]_vars

(* Nothing is "verified" without a warrant: gates or a reviewer.           *)
Warranted == \A c \in Claims : status[c] = "verified" => c \in attested \cup approved
=============================================================================
