------------------------------ MODULE Pipeline ------------------------------
(***************************************************************************)
(* The pipeline as the API runs it: invocations of the LangGraph (one per  *)
(* POST /v1/runs and per POST /v1/runs/{id}/resume) executed by a pool of  *)
(* request threads, the checkpointed threads they share by run id, and the *)
(* one repository all of them write.  Nodes are executed loop iteration by *)
(* loop iteration, because every repository call is a transaction of its   *)
(* own and another invocation may run between any two.                     *)
(*                                                                         *)
(* A claim is identified by its claim id, a hash of document, clause and   *)
(* indicator, so a later run over the same corpus meets the same claims.   *)
(***************************************************************************)
EXTENDS Verdicts, Naturals

CONSTANTS
  Workers,      (* request threads that can run the graph                  *)
  Runs,         (* run ids, which are the LangGraph thread ids             *)
  NoRun,        (* the run of an idle worker                               *)
  Claims,
  Indicators,
  IndicatorOf,  (* indicator a claim is about                              *)
  Pillars,
  PillarOf,     (* pillar of a claim                                       *)
  HitlModes,    (* values of enable_hitl callers use: a subset of BOOLEAN  *)
  Decisions,    (* decisions reviewers record through POST /v1/reviews     *)
  MaxPosts, MaxResumes, MaxCrashes    (* bounds on the environment         *)

ASSUME IndicatorAssumption == IndicatorOf \in [Claims -> Indicators]
ASSUME PillarAssumption == PillarOf \in [Claims -> Pillars]
ASSUME RunAssumption == NoRun \notin Runs
ASSUME ModeAssumption == HitlModes \subseteq BOOLEAN
ASSUME BoundAssumption == {MaxPosts, MaxResumes, MaxCrashes} \subseteq Nat

VARIABLES
  pc,         (* pc[w]: the node worker w is in                            *)
  inv,        (* inv[w]: the graph state of the invocation w executes      *)
  thread,     (* thread[r]: the checkpoint of run r                        *)
  row,        (* row[c]: layer1_status of the claim row                    *)
  gateLog,    (* gateLog[c]: verdict of the latest stored gate results     *)
  layer2,     (* layer2[c]: the stored score-band recommendation           *)
  coverage,   (* coverage[i]: the stored coverage row                      *)
  reviews,    (* review records submitted through the API                  *)
  attested,   (* history: claims for which a "verified" report was stored  *)
  approved,   (* history: claims some resume request accepted              *)
  posts, resumes, crashes

store   == <<row, gateLog, layer2, coverage>>
history == <<attested, approved>>
bounds  == <<posts, resumes, crashes>>
vars    == <<pc, inv, thread, store, reviews, history, bounds>>

-----------------------------------------------------------------------------
Node == {"prepare", "classify", "verify", "screen", "review", "apply",
         "coverage", "layer2"}
PC == Node \cup {"idle", "reply"}

NoneOr(S) == S \cup {"none"}

Reply == {"none", "running", "completed", "failed", "schema_error"}

(* The graph state of one invocation (RieState), and the request it serves. *)
Invocation == [
  run      : Runs \cup {NoRun},
  resumed  : BOOLEAN,                           \* serves a resume request
  hitl     : BOOLEAN,                           \* the graph has the review node
  todo     : SUBSET Claims,                     \* rest of the current loop
  claims   : [Claims -> NoneOr({"pending", "verified"})],
  reports  : [Claims -> NoneOr(Verdict)],
  asked    : SUBSET Claims,                     \* the question a resume answers
  accepts  : SUBSET Claims,                     \* "accept" entries of the payload
  cells    : [Indicators -> NoneOr(CoverageState)],
  recs     : SUBSET Claims,                     \* layer2_recommendations
  errors   : BOOLEAN,
  degraded : BOOLEAN,
  reply    : Reply ]                            \* status of the last answer

Fresh == [
  run |-> NoRun, resumed |-> FALSE, hitl |-> FALSE, todo |-> {},
  claims |-> [c \in Claims |-> "none"], reports |-> [c \in Claims |-> "none"],
  asked |-> {}, accepts |-> {}, cells |-> [i \in Indicators |-> "none"], recs |-> {},
  errors |-> FALSE, degraded |-> FALSE, reply |-> "none" ]

(* A checkpoint.  "paused" is a thread with a pending interrupt, whose     *)
(* payload lists the claims it asks about.                                 *)
Checkpoint == [
  at       : {"none", "midway", "paused", "done"},
  claims   : [Claims -> NoneOr({"pending", "verified"})],
  reports  : [Claims -> NoneOr(Verdict)],
  asked    : SUBSET Claims,
  recs     : SUBSET Claims,
  errors   : BOOLEAN,
  degraded : BOOLEAN ]

NoCheckpoint == [
  at |-> "none", claims |-> Fresh.claims, reports |-> Fresh.reports,
  asked |-> {}, recs |-> {}, errors |-> FALSE, degraded |-> FALSE ]

TypeOK ==
  /\ pc \in [Workers -> PC]
  /\ inv \in [Workers -> Invocation]
  /\ thread \in [Runs -> Checkpoint]
  /\ row \in [Claims -> RowStatus]
  /\ gateLog \in [Claims -> NoneOr(Verdict)]
  /\ layer2 \in [Claims -> {"none", "null", "band"}]
  /\ coverage \in [Indicators -> NoneOr(CoverageState)]
  /\ reviews \subseteq Claims \X Decisions
  /\ attested \subseteq Claims
  /\ approved \subseteq Claims
  /\ posts \in 0..MaxPosts /\ resumes \in 0..MaxResumes /\ crashes \in 0..MaxCrashes

Init ==
  /\ pc = [w \in Workers |-> "idle"]
  /\ inv = [w \in Workers |-> Fresh]
  /\ thread = [r \in Runs |-> NoCheckpoint]
  /\ row = [c \in Claims |-> "absent"]
  /\ gateLog = [c \in Claims |-> "none"]
  /\ layer2 = [c \in Claims |-> "none"]
  /\ coverage = [i \in Indicators |-> "none"]
  /\ reviews = {} /\ attested = {} /\ approved = {}
  /\ posts = 0 /\ resumes = 0 /\ crashes = 0

-----------------------------------------------------------------------------
Produced(w) == {c \in Claims : inv[w].claims[c] # "none"}
WithVerdict(w, v) == {c \in Produced(w) : inv[w].reports[c] = v}

(* The claims review_node asks about, for an invocation and for the        *)
(* checkpoint it is resumed from.                                          *)
NeedsReview(state) ==
  {c \in Claims : /\ state.claims[c] \notin {"none", "verified"}
                  /\ state.reports[c] = "flagged"}

(* _resolve_checkpointer: the graph with the review node gets the memory   *)
(* saver, the other one none.  build_postgres_checkpointer cannot return   *)
(* a saver: from_conn_string makes a context manager, on which setup()     *)
(* raises, so that it logs a warning and returns None.                     *)
HasSaver(w) == inv[w].hitl

(* The invocation's state becomes `state`.                                 *)
Become(w, state) == inv' = [inv EXCEPT ![w] = state]

Goto(w, node) == pc' = [pc EXCEPT ![w] = node]

(* The checkpoint LangGraph writes when worker w finishes a node.          *)
Save(w, at) ==
  thread' = IF HasSaver(w)
              THEN [thread EXCEPT ![inv[w].run] =
                      [at |-> at, claims |-> inv'[w].claims,
                       reports |-> inv'[w].reports,
                       asked |-> IF at = "paused" THEN NeedsReview(inv'[w]) ELSE {},
                       recs |-> inv'[w].recs,
                       errors |-> inv'[w].errors, degraded |-> inv'[w].degraded]]
              ELSE thread

-----------------------------------------------------------------------------
(* POST /v1/runs.  The initial state overwrites every channel it names;    *)
(* the two it does not name, ingest_degraded and layer2_recommendations,   *)
(* keep what the thread of that run id holds.                              *)
Post(w, r, hitl) ==
  /\ pc[w] = "idle" /\ posts < MaxPosts
  /\ Goto(w, "prepare")
  /\ LET kept == IF hitl THEN thread[r] ELSE NoCheckpoint
     IN Become(w, [Fresh EXCEPT !.run = r, !.hitl = hitl,
                                !.recs = kept.recs, !.degraded = kept.degraded])
  /\ thread' = IF hitl
                 THEN [thread EXCEPT ![r] =
                         [NoCheckpoint EXCEPT !.at = "midway",
                            !.recs = thread[r].recs, !.degraded = thread[r].degraded]]
                 ELSE thread
  /\ posts' = posts + 1
  /\ UNCHANGED <<store, reviews, history, resumes, crashes>>

(* ingest, extract, index and retrieve: nothing of a claim changes; what   *)
(* matters here is which clauses they hand on and what went wrong.  The    *)
(* run is degraded when no document at all could be loaded.                *)
Prepare(w, clauses, failed, degraded) ==
  /\ pc[w] = "prepare"
  /\ degraded => failed
  /\ Become(w, [inv[w] EXCEPT !.todo = clauses, !.errors = failed,
                              !.degraded = @ \/ degraded])
  /\ Goto(w, "classify") /\ Save(w, "midway")
  /\ UNCHANGED <<store, reviews, history, bounds>>

(* classify_node, one hit.  The claim is stored with status pending,       *)
(* whatever the row said before; the rest of an existing row stays.        *)
ClassifyClaim(w, c) ==
  /\ pc[w] = "classify" /\ c \in inv[w].todo
  /\ Become(w, [inv[w] EXCEPT !.todo = @ \ {c}, !.claims[c] = "pending"])
  /\ row' = [row EXCEPT ![c] = "pending"]
  /\ UNCHANGED <<pc, thread, gateLog, layer2, coverage, reviews, history, bounds>>

(* The element is not stored (skipped), or the classifier raised (skipped  *)
(* and noted in the run's errors).                                         *)
SkipClause(w, c, raised) ==
  /\ pc[w] = "classify" /\ c \in inv[w].todo
  /\ Become(w, [inv[w] EXCEPT !.todo = @ \ {c}, !.errors = @ \/ raised])
  /\ UNCHANGED <<pc, thread, store, reviews, history, bounds>>

EndClassify(w) ==
  /\ pc[w] = "classify" /\ inv[w].todo = {}
  /\ UNCHANGED inv
  /\ Goto(w, "verify") /\ Save(w, "midway")
  /\ UNCHANGED <<store, reviews, history, bounds>>

(* Mutant: the row takes the verdict of the gates, not of the report.      *)
VerifyClaimByGates(w, c, gates, objection) ==
  /\ pc[w] = "verify" /\ c \in Produced(w) /\ inv[w].reports[c] = "none"
  /\ objection => gates = "verified"
  /\ LET verdict == Demote(gates, objection)
     IN /\ Become(w, [inv[w] EXCEPT !.reports[c] = verdict])
        /\ attested' = IF verdict = "verified" THEN attested \cup {c} ELSE attested
  /\ row' = [row EXCEPT ![c] = gates]
  /\ gateLog' = [gateLog EXCEPT ![c] = gates]
  /\ UNCHANGED <<pc, thread, layer2, coverage, reviews, approved, bounds>>

(* verify_node, one claim: the gates reach a verdict, the optional fifth   *)
(* gate may object, the report is stored.  The gate results are stored     *)
(* without the objection.                                                  *)
VerifyClaim(w, c, gates, objection) ==
  /\ pc[w] = "verify" /\ c \in Produced(w) /\ inv[w].reports[c] = "none"
  /\ objection => gates = "verified"
  /\ LET verdict == Demote(gates, objection)
     IN /\ Become(w, [inv[w] EXCEPT !.reports[c] = verdict])
        /\ row' = [row EXCEPT ![c] = verdict]
        /\ attested' = IF verdict = "verified" THEN attested \cup {c} ELSE attested
  /\ gateLog' = [gateLog EXCEPT ![c] = gates]
  /\ UNCHANGED <<pc, thread, layer2, coverage, reviews, approved, bounds>>

(* The end of verify_node's loop; _apply_confidence_screening finds the    *)
(* confidence of the pillars in `useless` not to discriminate.             *)
BeginScreen(w, useless) ==
  /\ pc[w] = "verify" /\ \A c \in Produced(w) : inv[w].reports[c] # "none"
  /\ Become(w, [inv[w] EXCEPT
                  !.todo = {c \in WithVerdict(w, "verified") : PillarOf[c] \in useless}])
  /\ Goto(w, "screen")
  /\ UNCHANGED <<thread, store, reviews, history, bounds>>

(* Mutant: the demoted report is kept in the state and not stored.         *)
ScreenClaimUnsaved(w, c) ==
  /\ pc[w] = "screen" /\ c \in inv[w].todo
  /\ Become(w, [inv[w] EXCEPT !.todo = @ \ {c}, !.reports[c] = Demote(@, TRUE)])
  /\ UNCHANGED <<pc, thread, store, reviews, history, bounds>>

(* Storing the report again repeats the gate results with their old        *)
(* timestamps, so the latest gate results do not change.                   *)
ScreenClaim(w, c) ==
  /\ pc[w] = "screen" /\ c \in inv[w].todo
  /\ Become(w, [inv[w] EXCEPT !.todo = @ \ {c}, !.reports[c] = Demote(@, TRUE)])
  /\ row' = [row EXCEPT ![c] = "flagged"]
  /\ UNCHANGED <<pc, thread, gateLog, layer2, coverage, reviews, history, bounds>>

(* Mutant: the edge to review_node is missing.                             *)
EndScreenNoReview(w) ==
  /\ pc[w] = "screen" /\ inv[w].todo = {}
  /\ UNCHANGED inv
  /\ Goto(w, "coverage") /\ Save(w, "midway")
  /\ UNCHANGED <<store, reviews, history, bounds>>

EndScreen(w) ==
  /\ pc[w] = "screen" /\ inv[w].todo = {}
  /\ UNCHANGED inv
  /\ Goto(w, IF inv[w].hitl THEN "review" ELSE "coverage") /\ Save(w, "midway")
  /\ UNCHANGED <<store, reviews, history, bounds>>

-----------------------------------------------------------------------------
(* review_node on the way in: nothing flagged, or an interrupt, which ends *)
(* the invocation and leaves the thread paused.                            *)
ReviewNothing(w) ==
  /\ pc[w] = "review" /\ NeedsReview(inv[w]) = {}
  /\ UNCHANGED inv
  /\ Goto(w, "coverage") /\ Save(w, "midway")
  /\ UNCHANGED <<store, reviews, history, bounds>>

Interrupt(w) ==
  /\ pc[w] = "review" /\ NeedsReview(inv[w]) # {}
  /\ UNCHANGED inv
  /\ Goto(w, "reply") /\ Save(w, "paused")
  /\ UNCHANGED <<store, reviews, history, bounds>>

(* POST /v1/runs/{id}/resume with the decisions of a reviewer, of which    *)
(* only the "accept" ones have an effect: a claim the payload rejects,     *)
(* corrects or leaves out stays as it is.  Without a pending interrupt the *)
(* request is answered "failed".                                           *)
ResumeNothing(w, r, accepts) ==
  /\ pc[w] = "idle" /\ resumes < MaxResumes
  /\ thread[r].at # "paused"
  /\ Become(w, [Fresh EXCEPT !.reply = "failed"])
  /\ approved' = approved \cup accepts
  /\ resumes' = resumes + 1
  /\ UNCHANGED <<pc, thread, store, reviews, attested, posts, crashes>>

(* Mutant: every claim in the payload's accept entries is promoted.        *)
ResumeUnfiltered(w, r, accepts) ==
  /\ pc[w] = "idle" /\ resumes < MaxResumes
  /\ thread[r].at = "paused"
  /\ Goto(w, "apply")
  /\ Become(w, [Fresh EXCEPT !.run = r, !.resumed = TRUE, !.hitl = TRUE,
                  !.claims = thread[r].claims, !.reports = thread[r].reports,
                  !.asked = thread[r].asked, !.accepts = accepts,
                  !.todo = {c \in accepts : thread[r].claims[c] # "none"}])
  /\ approved' = approved \cup accepts
  /\ resumes' = resumes + 1
  /\ UNCHANGED <<thread, store, reviews, attested, posts, crashes>>

(* Mutant: every claim that was asked about is promoted.                   *)
ResumeAll(w, r, accepts) ==
  /\ pc[w] = "idle" /\ resumes < MaxResumes
  /\ thread[r].at = "paused"
  /\ Goto(w, "apply")
  /\ Become(w, [Fresh EXCEPT !.run = r, !.resumed = TRUE, !.hitl = TRUE,
                  !.claims = thread[r].claims, !.reports = thread[r].reports,
                  !.asked = thread[r].asked, !.accepts = accepts,
                  !.todo = NeedsReview(thread[r])])
  /\ approved' = approved \cup accepts
  /\ resumes' = resumes + 1
  /\ UNCHANGED <<thread, store, reviews, attested, posts, crashes>>

(* Mutant: the interrupt is consumed when the resume begins.               *)
ResumeConsumes(w, r, accepts) ==
  /\ pc[w] = "idle" /\ resumes < MaxResumes
  /\ thread[r].at = "paused"
  /\ Goto(w, "apply")
  /\ Become(w, [Fresh EXCEPT !.run = r, !.resumed = TRUE, !.hitl = TRUE,
                  !.claims = thread[r].claims, !.reports = thread[r].reports,
                  !.asked = thread[r].asked, !.accepts = accepts,
                  !.todo = NeedsReview(thread[r]) \cap accepts])
  /\ thread' = [thread EXCEPT ![r].at = "midway"]
  /\ approved' = approved \cup accepts
  /\ resumes' = resumes + 1
  /\ UNCHANGED <<store, reviews, attested, posts, crashes>>

(* Otherwise review_node is entered again on the checkpointed state.  The  *)
(* interrupt stays pending until that node ends.                           *)
Resume(w, r, accepts) ==
  /\ pc[w] = "idle" /\ resumes < MaxResumes
  /\ thread[r].at = "paused"
  /\ Goto(w, "apply")
  /\ Become(w, [Fresh EXCEPT !.run = r, !.resumed = TRUE, !.hitl = TRUE,
                  !.claims = thread[r].claims, !.reports = thread[r].reports,
                  !.recs = thread[r].recs, !.errors = thread[r].errors,
                  !.degraded = thread[r].degraded,
                  !.asked = thread[r].asked, !.accepts = accepts,
                  !.todo = NeedsReview(thread[r]) \cap accepts])
  /\ approved' = approved \cup accepts
  /\ resumes' = resumes + 1
  /\ UNCHANGED <<thread, store, reviews, attested, posts, crashes>>

(* One accepted claim is promoted: save_claim writes the status the        *)
(* invocation computed, not one it has read.                               *)
AcceptClaim(w, c) ==
  /\ pc[w] = "apply" /\ c \in inv[w].todo
  /\ Become(w, [inv[w] EXCEPT !.todo = @ \ {c}, !.claims[c] = "verified"])
  /\ row' = [row EXCEPT ![c] = "verified"]
  /\ UNCHANGED <<pc, thread, gateLog, layer2, coverage, reviews, history, bounds>>

(* Mutant: the node waits until nothing is left to review.                 *)
EndReviewWhenClear(w) ==
  /\ pc[w] = "apply" /\ inv[w].todo = {} /\ NeedsReview(inv[w]) = {}
  /\ UNCHANGED inv
  /\ Goto(w, "coverage") /\ Save(w, "midway")
  /\ UNCHANGED <<store, reviews, history, bounds>>

EndReview(w) ==
  /\ pc[w] = "apply" /\ inv[w].todo = {}
  /\ UNCHANGED inv
  /\ Goto(w, "coverage") /\ Save(w, "midway")
  /\ UNCHANGED <<store, reviews, history, bounds>>

-----------------------------------------------------------------------------
(* The claims CoverageReasoner counts: coverage_node passes those with a   *)
(* "verified" report, the reasoner keeps those whose own status says so.   *)
Qualifying(w, i) ==
  {c \in WithVerdict(w, "verified") : inv[w].claims[c] = "verified" /\ IndicatorOf[c] = i}

CoverageOf(w, i, recallKnown) ==
  IF Qualifying(w, i) # {} THEN "evidence_found"
  ELSE IF recallKnown THEN "no_evidence" ELSE "insufficient"

(* coverage_node, one indicator.  A degraded run has no measured recall.   *)
EvaluateCoverage(w, i, recallKnown) ==
  /\ pc[w] = "coverage" /\ inv[w].cells[i] = "none"
  /\ recallKnown => ~inv[w].degraded
  /\ LET state == CoverageOf(w, i, recallKnown)
     IN /\ Become(w, [inv[w] EXCEPT !.cells[i] = state])
        /\ coverage' = [coverage EXCEPT ![i] = state]
  /\ UNCHANGED <<pc, thread, row, gateLog, layer2, reviews, history, bounds>>

(* Mutant: the claims a reviewer accepted are scored too.                  *)
BeginLayer2Approved(w) ==
  /\ pc[w] = "coverage" /\ \A i \in Indicators : inv[w].cells[i] # "none"
  /\ Become(w, [inv[w] EXCEPT !.todo = WithVerdict(w, "verified")
                   \cup {c \in Claims : inv[w].claims[c] = "verified"}])
  /\ Goto(w, "layer2") /\ Save(w, "midway")
  /\ UNCHANGED <<store, reviews, history, bounds>>

(* layer2_node goes through the claims with a verified report.             *)
BeginLayer2(w) ==
  /\ pc[w] = "coverage" /\ \A i \in Indicators : inv[w].cells[i] # "none"
  /\ Become(w, [inv[w] EXCEPT !.todo = WithVerdict(w, "verified")])
  /\ Goto(w, "layer2") /\ Save(w, "midway")
  /\ UNCHANGED <<store, reviews, history, bounds>>

SaveLayer2(w, c) ==
  /\ pc[w] = "layer2" /\ c \in inv[w].todo
  /\ Become(w, [inv[w] EXCEPT !.todo = @ \ {c}])
  /\ layer2' = [layer2 EXCEPT ![c] =
       IF inv[w].cells[IndicatorOf[c]] = "evidence_found" /\ c \in Qualifying(w, IndicatorOf[c])
         THEN "band" ELSE "null"]
  /\ UNCHANGED <<pc, thread, row, gateLog, coverage, reviews, history, bounds>>

(* At its end it hands on its recommendations; with no verified claim it   *)
(* leaves the channel as it is.                                            *)
EndLayer2(w) ==
  /\ pc[w] = "layer2" /\ inv[w].todo = {}
  /\ LET verified == WithVerdict(w, "verified")
     IN Become(w, [inv[w] EXCEPT !.recs = IF verified = {} THEN @ ELSE verified])
  /\ Goto(w, "reply") /\ Save(w, "done")
  /\ UNCHANGED <<store, reviews, history, bounds>>

-----------------------------------------------------------------------------
(* Mutant: a status the response schemas do not know.                      *)
RunStatusPaused(w) ==
  IF HasSaver(w) /\ thread[inv[w].run].at = "paused" THEN "paused" ELSE "completed"

(* Mutant: the pending interrupt is not looked for.                        *)
RunStatusErrorsOnly(w) == IF inv[w].errors THEN "failed" ELSE "completed"

(* _run_status: the status is read off the thread after the invocation has *)
(* ended, then off the run's errors.                                       *)
RunStatus(w) ==
  IF HasSaver(w) /\ thread[inv[w].run].at = "paused" THEN "running"
  ELSE IF inv[w].errors THEN "failed"
  ELSE "completed"

(* RunResumeResponse has no status "running": answering it is an error.    *)
Answer(w) ==
  /\ pc[w] = "reply"
  /\ Goto(w, "idle")
  /\ Become(w, [Fresh EXCEPT !.reply =
               IF inv[w].resumed /\ RunStatus(w) = "running"
                 THEN "schema_error" ELSE RunStatus(w)])
  /\ UNCHANGED <<thread, store, reviews, history, bounds>>

(* An exception in a node (an unreachable service, a unique-constraint     *)
(* race in save_claim or save_coverage) or after the graph has returned    *)
(* (in making the evidence package): the request is answered "failed", the *)
(* store and the thread keep what was written, an open question too.       *)
Fail(w) ==
  /\ pc[w] # "idle"
  /\ Goto(w, "idle")
  /\ Become(w, [Fresh EXCEPT !.reply = "failed"])
  /\ UNCHANGED <<thread, store, reviews, history, bounds>>

(* The process dies and is restarted.  The memory saver dies with it.      *)
Crash ==
  /\ crashes < MaxCrashes
  /\ pc' = [w \in Workers |-> "idle"]
  /\ inv' = [w \in Workers |-> Fresh]
  /\ thread' = [r \in Runs |-> NoCheckpoint]
  /\ crashes' = crashes + 1
  /\ UNCHANGED <<store, reviews, history, posts, resumes>>

(* POST /v1/reviews: the record is appended, the claim is not touched.     *)
SubmitReview(c, decision) ==
  /\ row[c] # "absent"
  /\ reviews' = reviews \cup {<<c, decision>>}
  /\ UNCHANGED <<pc, inv, thread, store, history, bounds>>

-----------------------------------------------------------------------------
PrepareStep(w) ==
  \E clauses \in SUBSET Claims, failed \in BOOLEAN, degraded \in BOOLEAN :
    Prepare(w, clauses, failed, degraded)

ClassifyStep(w) ==
  \/ \E c \in Claims : ClassifyClaim(w, c) \/ \E raised \in BOOLEAN : SkipClause(w, c, raised)
  \/ EndClassify(w)

VerifyStep(w) ==
  \/ \E c \in Claims, gates \in Verdict, objection \in BOOLEAN :
       VerifyClaim(w, c, gates, objection)
  \/ \E useless \in SUBSET Pillars : BeginScreen(w, useless)
  \/ \E c \in Claims : ScreenClaim(w, c)
  \/ EndScreen(w)

ReviewStep(w) ==
  \/ ReviewNothing(w)
  \/ Interrupt(w)
  \/ \E c \in Claims : AcceptClaim(w, c)
  \/ EndReview(w)

CoverageStep(w) ==
  \E i \in Indicators, recallKnown \in BOOLEAN : EvaluateCoverage(w, i, recallKnown)

Layer2Step(w) ==
  \/ BeginLayer2(w)
  \/ \E c \in Claims : SaveLayer2(w, c)
  \/ EndLayer2(w)

(* What a worker does once it has accepted a request.                      *)
Execute(w) ==
  PrepareStep(w) \/ ClassifyStep(w) \/ VerifyStep(w) \/ ReviewStep(w)
    \/ CoverageStep(w) \/ Layer2Step(w) \/ Answer(w)

Request(w) ==
  \/ \E r \in Runs, hitl \in HitlModes : Post(w, r, hitl)
  \/ \E r \in Runs, accepts \in SUBSET Claims : Resume(w, r, accepts) \/ ResumeNothing(w, r, accepts)

Next ==
  \/ \E w \in Workers : Execute(w) \/ Request(w) \/ Fail(w)
  \/ Crash
  \/ \E c \in Claims, d \in Decisions : SubmitReview(c, d)

Spec == Init /\ [][Next]_vars

(* A request thread is a running Python thread: it does not stop between   *)
(* two statements.                                                         *)
Fairness == \A w \in Workers : WF_vars(Execute(w))
FairSpec == Spec /\ Fairness

-----------------------------------------------------------------------------
(***************************************************************************)
(* Properties of every interleaving.                                       *)
(***************************************************************************)

(* A claim is stored as "verified" only if at some time a report in which  *)
(* every gate passed and nothing objected was stored for it, or a reviewer *)
(* accepted it in a resume request: neither a stale checkpoint, nor two    *)
(* invocations of one run, nor a restart can produce the status otherwise  *)
(* (save_verification and review_node are its only sources).               *)
VerifiedIsWarranted ==
  \A c \in Claims : row[c] = "verified" => c \in attested \cup approved

(* Only claims the gates have verified get a score-band recommendation;    *)
(* a reviewer's acceptance alone does not (layer2_node filters on reports, *)
(* and the reports it filters may come from a checkpoint).                 *)
Layer2NeedsGates == \A c \in Claims : layer2[c] # "none" => c \in attested

(* With the review node in the graph, coverage is computed over a claim in *)
(* doubt only after a reviewer was asked about it: the claim is in the     *)
(* question that the invocation answers, and not among the answer's        *)
(* acceptances.  Nothing more is guaranteed: an answer that leaves the     *)
(* claim out, rejects or corrects it lets the run go on with the claim     *)
(* flagged (review_node, RunResumeRequest, build_graph).                   *)
ReviewAsked(w) ==
  pc[w] \in {"coverage", "layer2"} /\ inv[w].hitl =>
    NeedsReview(inv[w]) \subseteq inv[w].asked \ inv[w].accepts
ReviewBeforeCoverage == \A w \in Workers : ReviewAsked(w)

(* A row becomes "verified" only in verify_node, by a verified report of   *)
(* the invocation, or in review_node, for a claim that the very invocation *)
(* holds a FLAGGED report for: an accept entry for a rejected or an        *)
(* unknown claim promotes nothing.                                         *)
PromotionNeedsFlag ==
  [][\A c \in Claims : row[c] # "verified" /\ row'[c] = "verified" =>
       \E w \in Workers :
         \/ pc[w] = "verify" /\ inv'[w].reports[c] = "verified"
         \/ pc[w] = "apply" /\ c \in inv[w].accepts /\ inv[w].reports[c] = "flagged"]_vars

(* Every request that was accepted is answered: no node waits for another  *)
(* invocation or for a reviewer while it holds a request thread.           *)
AlwaysAnswered == \A w \in Workers : (pc[w] # "idle") ~> (pc[w] = "idle")

(* The pipeline implements the life cycle of a claim.                      *)
Lifecycle == INSTANCE ClaimLifecycle WITH status <- row
LifecycleSpec == Lifecycle!Spec

-----------------------------------------------------------------------------
(***************************************************************************)
(* The inductive invariant the proofs in PipelineProofs rest on: what the  *)
(* states of invocations and checkpoints, which are copies of what was     *)
(* once written, still guarantee about the store when they are used.       *)
(***************************************************************************)
Backed(state) ==
  \A c \in Claims : /\ state.reports[c] = "verified" => c \in attested
                    /\ state.claims[c] # "none" => row[c] # "absent"

(* What is left to do in a loop was chosen when the loop began.            *)
LoopWork(w) ==
  /\ pc[w] = "screen" => inv[w].todo \subseteq Produced(w)
  /\ pc[w] = "apply" => /\ inv[w].resumed
                        /\ NeedsReview(inv[w]) \subseteq inv[w].asked
                        /\ inv[w].todo = NeedsReview(inv[w]) \cap inv[w].accepts
                        /\ inv[w].todo \subseteq approved
  /\ pc[w] = "layer2" => inv[w].todo \subseteq attested

(* The payload of a pending interrupt lists every claim in doubt.          *)
QuestionComplete(checkpoint) ==
  checkpoint.at = "paused" => checkpoint.asked = NeedsReview(checkpoint)

(* Every copy a later step acts on is backed by the store and by the       *)
(* history: the conjunction is preserved by every step of Pipeline.        *)
StoreInv ==
  /\ \A w \in Workers : Backed(inv[w]) /\ LoopWork(w)
  /\ \A r \in Runs : Backed(thread[r]) /\ QuestionComplete(thread[r])
  /\ VerifiedIsWarranted /\ Layer2NeedsGates /\ ReviewBeforeCoverage

-----------------------------------------------------------------------------
(***************************************************************************)
(* Properties of invocations that take turns.  Where invocations overlap   *)
(* they need not hold.                                                     *)
(***************************************************************************)

(* At most one invocation is executed, and while a question to a reviewer  *)
(* is open only an invocation of that run, on its thread.                  *)
InTurn ==
  /\ \A v, w \in Workers : pc[v] # "idle" /\ pc[w] # "idle" => v = w
  /\ \A w \in Workers, r \in Runs :
       pc[w] # "idle" /\ thread[r].at = "paused" => inv[w].run = r /\ HasSaver(w)

(* The status a claim has by the state of a run: the reviewer's acceptance *)
(* or the verdict of its report.                                           *)
StatusBy(state, c) ==
  IF state.claims[c] = "verified" THEN "verified" ELSE state.reports[c]

(* A resume that failed half way through its acceptances has stored some   *)
(* that its checkpoint does not know.                                      *)
AcceptedBefore(state, c) == row[c] = "verified" /\ c \in NeedsReview(state) \cap approved

(* State and store show the same of each claim of the run.  The state of a *)
(* resumed run may lack acceptances of an earlier resume.                  *)
InStep(w) ==
  \A c \in Produced(w) :
    row[c] = StatusBy(inv[w], c) \/ (inv[w].resumed /\ AcceptedBefore(inv[w], c))

(* What the later nodes read from the state is what the store says: after  *)
(* the screening the row of each claim of the run shows the verdict of its *)
(* last report, or the reviewer's acceptance; the state of a resumed run   *)
(* lacks at most what a resume before it accepted and did not get to the   *)
(* end of (save_verification, _apply_confidence_screening, review_node).   *)
StoreMatchesState ==
  \A w \in Workers : pc[w] \in {"review", "coverage", "layer2"} => InStep(w)

(* A claim whose last gate results reject it is not shown as verified.     *)
UnverifiableWithheld ==
  \A c \in Claims : gateLog[c] = "rejected" => row[c] # "verified"

(* "completed" is answered only by an invocation that has evaluated every  *)
(* indicator, never by one that stopped for review.                        *)
CompletedMeansCovered ==
  [][\A w \in Workers : pc[w] = "reply" /\ inv'[w].reply = "completed" =>
       \A i \in Indicators : inv[w].cells[i] # "none"]_vars

(* While the process lives a question put to the reviewer stays open, also *)
(* through a resume that fails half way: only the end of a resumed         *)
(* review_node or a new run under the same id closes it.  A restart loses  *)
(* it (Crash).                                                             *)
PauseKept ==
  [][\A r \in Runs : thread[r].at = "paused" /\ thread'[r].at # "paused" =>
       \/ crashes' # crashes
       \/ \E w \in Workers : /\ inv'[w].run = r
                             /\ \/ pc[w] = "apply" /\ pc'[w] = "coverage"
                                \/ pc[w] = "idle" /\ pc'[w] = "prepare"]_vars

-----------------------------------------------------------------------------
(***************************************************************************)
(* The inductive invariant of invocations that take turns: how far store   *)
(* and state agree in each node, and in a checkpoint a resume starts from. *)
(***************************************************************************)

(* No report of the state passes or flags what its gates rejected.         *)
GatesBehind(state) ==
  \A c \in Claims : state.reports[c] \in {"flagged", "verified"} => gateLog[c] # "rejected"

(* A checkpoint with an open question.                                     *)
Resumable(state) ==
  /\ GatesBehind(state)
  /\ \A c \in Claims : state.claims[c] # "none" =>
       row[c] = StatusBy(state, c) \/ AcceptedBefore(state, c)

(* Before the review nothing is accepted, and row and report go together   *)
(* from the first report to the last.                                      *)
BeforeReview(w) ==
  pc[w] \in {"prepare", "classify", "verify", "screen", "review"} =>
    /\ ~inv[w].resumed
    /\ pc[w] = "screen" => inv[w].todo \subseteq WithVerdict(w, "verified")
    /\ \A c \in Claims :
         /\ inv[w].claims[c] # "verified"
         /\ pc[w] \in {"prepare", "classify"} => inv[w].reports[c] = "none"
         /\ inv[w].claims[c] # "none" /\ pc[w] \in {"verify", "screen", "review"} =>
              row[c] = inv[w].reports[c] \/ (pc[w] = "verify" /\ inv[w].reports[c] = "none")

(* From the acceptances on, the state shows what the store does.           *)
AfterReview(w) ==
  pc[w] \in {"apply", "coverage", "layer2"} => InStep(w)

(* An open question is that of the node "apply", or of the answer.         *)
QuestionOf(w) ==
  /\ pc[w] # "idle" => inv[w].run \in Runs /\ inv[w].reply = "none" /\ GatesBehind(inv[w])
  /\ pc[w] = "review" => inv[w].hitl
  /\ pc[w] \in Node \ {"apply"} /\ HasSaver(w) => thread[inv[w].run].at # "paused"
  /\ pc[w] = "apply" => inv[w].todo \subseteq NeedsReview(thread[inv[w].run])
  /\ pc[w] = "reply" => \/ HasSaver(w) /\ thread[inv[w].run].at = "paused"
                        \/ \A i \in Indicators : inv[w].cells[i] # "none"
  /\ pc[w] = "layer2" => \A i \in Indicators : inv[w].cells[i] # "none"

TurnInv ==
  /\ \A w \in Workers : BeforeReview(w) /\ AfterReview(w) /\ QuestionOf(w)
  /\ \A r \in Runs : thread[r].at = "paused" => Resumable(thread[r])
  /\ UnverifiableWithheld
=============================================================================
