------------------------------ MODULE GateStore ------------------------------
(***************************************************************************)
(* The verification rows of one claim: what several invocations of         *)
(* verify_node write, and what the review queue and the API read back.     *)
(*                                                                         *)
(* A report is stored as four rows, in one transaction, together with the  *)
(* claim's status.  Each row carries the time its gate was started, not    *)
(* the time it was stored; latest_verification takes, gate by gate, the    *)
(* row with the latest of these times and derives a verdict from the four. *)
(* Verifiers take minutes (model calls), so two reports of one claim can   *)
(* be computed and stored in any interleaving, and the confidence screen   *)
(* stores a report a second time with its old times.                       *)
(***************************************************************************)
EXTENDS Verdicts, Naturals, Sequences, FiniteSets

CONSTANTS
  Verifiers,    (* invocations that verify the claim                       *)
  GateOrder,    (* the gates in the order verify runs them                 *)
  MaxReports    (* bound on the reports that are computed                  *)

ASSUME OrderAssumption ==
  /\ GateOrder \in Seq(Gates) /\ {GateOrder[i] : i \in DOMAIN GateOrder} = Gates
  /\ Len(GateOrder) = Cardinality(Gates)
ASSUME BoundAssumption == MaxReports \in Nat

VARIABLES
  clock,     (* time: the number of gates started                          *)
  pc,        (* pc[v]: "idle", "gates", "store", "screen"                  *)
  results,   (* results[v]: the gates v has run, with start times          *)
  verdict,   (* verdict[v]: status of v's report                           *)
  saved,     (* the stored reports, four rows each, in order of storing    *)
  row,       (* layer1_status of the claim                                 *)
  overlapped,  (* history: two verifiers have been at work at once         *)
  reports    (* reports started                                            *)

vars == <<clock, pc, results, verdict, saved, row, overlapped, reports>>

-----------------------------------------------------------------------------
GateResult == [passed : BOOLEAN, at : Nat]

TypeOK ==
  /\ clock \in Nat
  /\ pc \in [Verifiers -> {"idle", "gates", "store", "screen"}]
  /\ results = [v \in Verifiers |-> results[v]]
  /\ \A v \in Verifiers :
       /\ DOMAIN results[v] \subseteq Gates /\ results[v] \in [DOMAIN results[v] -> GateResult]
       /\ pc[v] \in {"store", "screen"} => DOMAIN results[v] = Gates /\ verdict[v] \in Verdict
  /\ verdict \in [Verifiers -> Verdict \cup {"none"}]
  /\ saved \in Seq([Gates -> GateResult])
  /\ row \in Verdict \cup {"pending"}
  /\ overlapped \in BOOLEAN
  /\ reports \in 0..MaxReports

Init ==
  /\ clock = 0
  /\ pc = [v \in Verifiers |-> "idle"]
  /\ results = [v \in Verifiers |-> [g \in {} |-> TRUE]]
  /\ verdict = [v \in Verifiers |-> "none"]
  /\ saved = <<>> /\ row = "pending" /\ overlapped = FALSE /\ reports = 0

-----------------------------------------------------------------------------
Passed(g) == [gate \in DOMAIN g |-> g[gate].passed]

(* Mutant: the row stored last wins.                                       *)
LatestByStorage(gate) == saved[Len(saved)][gate]

(* The row of a gate with the latest start time.                           *)
Latest(gate) ==
  LET rows == {saved[i][gate] : i \in DOMAIN saved}
  IN  CHOOSE r \in rows : \A q \in rows : q.at <= r.at

(* Mutant: the oldest row of each gate.                                    *)
ReadBackOldest ==
  [gate \in Gates |->
    LET rows == {saved[i][gate] : i \in DOMAIN saved}
    IN  CHOOSE r \in rows : \A q \in rows : r.at <= q.at]

(* latest_verification: the four gates it puts together.                   *)
ReadBack == [gate \in Gates |-> Latest(gate)]

(* The status latest_verification reports; without rows there is none.     *)
ReadBackStatus ==
  IF saved = <<>> THEN "none" ELSE DeriveStatusInline(Passed(ReadBack))

-----------------------------------------------------------------------------
(* verify is entered by an invocation that has classified the claim, which *)
(* reset its status.                                                       *)
Begin(v) ==
  /\ pc[v] = "idle" /\ reports < MaxReports
  /\ pc' = [pc EXCEPT ![v] = "gates"]
  /\ results' = [results EXCEPT ![v] = [g \in {} |-> TRUE]]
  /\ row' = "pending"
  /\ overlapped' = (overlapped \/ \E u \in Verifiers : pc[u] # "idle")
  /\ reports' = reports + 1
  /\ UNCHANGED <<clock, verdict, saved>>

(* The next gate is started, and comes to its result.                      *)
RunGate(v, passed) ==
  LET gate == GateOrder[Cardinality(DOMAIN results[v]) + 1]
  IN  /\ pc[v] = "gates" /\ DOMAIN results[v] # Gates
      /\ clock' = clock + 1
      /\ results' = [results EXCEPT ![v] =
           [g \in DOMAIN @ \cup {gate} |->
              IF g = gate THEN [passed |-> passed, at |-> clock] ELSE @[g]]]
      /\ UNCHANGED <<pc, verdict, saved, row, overlapped, reports>>

(* Mutant: a report that is not verified leaves the claim pending.         *)
DecidePending(v, objection) ==
  /\ pc[v] = "gates" /\ DOMAIN results[v] = Gates
  /\ LET status == Demote(VerifyStatus(Passed(results[v])), objection)
     IN  verdict' = [verdict EXCEPT ![v] = IF status = "flagged" THEN "pending" ELSE status]
  /\ pc' = [pc EXCEPT ![v] = "store"]
  /\ UNCHANGED <<clock, results, saved, row, overlapped, reports>>

(* The status is fixed; an advisory check may have objected.               *)
Decide(v, objection) ==
  /\ pc[v] = "gates" /\ DOMAIN results[v] = Gates
  /\ verdict' = [verdict EXCEPT ![v] = Demote(VerifyStatus(Passed(results[v])), objection)]
  /\ pc' = [pc EXCEPT ![v] = "store"]
  /\ UNCHANGED <<clock, results, saved, row, overlapped, reports>>

(* save_verification.                                                      *)
Store(v) ==
  /\ pc[v] = "store"
  /\ saved' = Append(saved, results[v])
  /\ row' = verdict[v]
  /\ pc' = [pc EXCEPT ![v] = "screen"]
  /\ UNCHANGED <<clock, results, verdict, overlapped, reports>>

(* _apply_confidence_screening: a verified report may be demoted and       *)
(* stored again.                                                           *)
Screen(v, useless) ==
  /\ pc[v] = "screen"
  /\ pc' = [pc EXCEPT ![v] = "idle"]
  /\ IF useless /\ verdict[v] = "verified"
       THEN /\ verdict' = [verdict EXCEPT ![v] = "flagged"]
            /\ saved' = Append(saved, results[v]) /\ row' = "flagged"
       ELSE UNCHANGED <<verdict, saved, row>>
  /\ UNCHANGED <<clock, results, overlapped, reports>>

Next ==
  \E v \in Verifiers :
    \/ Begin(v)
    \/ \E passed \in BOOLEAN : RunGate(v, passed)
    \/ \E objection \in BOOLEAN : Decide(v, objection)
    \/ Store(v)
    \/ \E useless \in BOOLEAN : Screen(v, useless)

Spec == Init /\ [][Next]_vars

-----------------------------------------------------------------------------
(***************************************************************************)
(* Properties of every interleaving of verifiers.                          *)
(***************************************************************************)

(* What is read back never goes back in time: once a result of a gate has  *)
(* been read, no older result of that gate is ever read again, although    *)
(* older reports may be stored later, and again (order_by ran_at).         *)
NeverReadsOlder ==
  [][saved # <<>> => \A gate \in Gates : Latest(gate)'.at >= Latest(gate).at]_vars

(* "verified" is read back only when the newest stored result of each gate *)
(* passed; so a failed gate that was started after every other run of it   *)
(* withholds the claim whatever the order of storing.  (save_verification, *)
(* latest_verification)                                                    *)
NewestFailureWithholds ==
  ReadBackStatus = "verified" =>
    \A i \in DOMAIN saved, gate \in Gates :
      ~saved[i][gate].passed =>
        \E j \in DOMAIN saved : saved[j][gate].passed /\ saved[j][gate].at > saved[i][gate].at

(* As long as verifiers have taken turns, the verdict read back is that of *)
(* the gates of the last report, and the claim's status is that verdict    *)
(* or, where something objected after the gates, its demotion; until the   *)
(* next report is stored the status is pending.  There the storing of a    *)
(* report is the atomic step that Pipeline makes of it (VerifyClaim and    *)
(* ScreenClaim, with ReadBackStatus for gateLog).                          *)
StatusFollowsGates ==
  saved # <<>> /\ ~overlapped =>
    /\ ReadBack = saved[Len(saved)]
    /\ row \in {"pending"} \cup {Demote(ReadBackStatus, o) : o \in BOOLEAN}
    /\ \A v \in Verifiers : pc[v] = "screen" => row = verdict[v]
    /\ (\A v \in Verifiers : pc[v] = "idle") => \E v \in Verifiers : row = verdict[v]

(* Both, of every state and with its types: what is read back is of the    *)
(* newest results, and the claim's status goes with it while verifiers     *)
(* take turns.                                                             *)
ReadBackIsNewest == TypeOK /\ NewestFailureWithholds /\ StatusFollowsGates
=============================================================================
