--------------------------- MODULE PipelineProofs ---------------------------
(***************************************************************************)
(* Theorems about Pipeline, for every set of workers, runs, claims,        *)
(* indicators and pillars and every bound on the environment.              *)
(***************************************************************************)
EXTENDS Pipeline, TLAPS

USE DEF Node, PC, NoneOr, Reply, Verdict, RowStatus, CoverageState

-----------------------------------------------------------------------------
(***************************************************************************)
(* What the helpers of the actions do.                                     *)
(***************************************************************************)

(* The initial graph state and the empty checkpoint are well typed.        *)
LEMMA FreshTyped == Fresh \in Invocation /\ NoCheckpoint \in Checkpoint
  BY DEF Fresh, NoCheckpoint, Invocation, Checkpoint

(* Become changes one invocation and keeps all of them well typed.         *)
LEMMA BecomeEffect ==
  ASSUME inv \in [Workers -> Invocation], NEW w \in Workers, NEW state \in Invocation,
         Become(w, state)
  PROVE  /\ inv' \in [Workers -> Invocation]
         /\ inv'[w] = state
         /\ \A v \in Workers : v # w => inv'[v] = inv[v]
  BY DEF Become

(* Save changes no checkpoint, or that of the worker's run to a copy of    *)
(* what the worker's state becomes.                                        *)
LEMMA SaveEffect ==
  ASSUME thread \in [Runs -> Checkpoint], inv' \in [Workers -> Invocation],
         NEW w \in Workers, NEW at \in {"midway", "paused", "done"}, Save(w, at)
  PROVE  /\ thread' \in [Runs -> Checkpoint]
         /\ \A r \in Runs : \/ thread'[r] = thread[r]
                            \/ /\ thread'[r].claims = inv'[w].claims
                               /\ thread'[r].reports = inv'[w].reports
                               /\ QuestionComplete(thread'[r])
<1> DEFINE saved == [at |-> at, claims |-> inv'[w].claims, reports |-> inv'[w].reports,
                     asked |-> IF at = "paused" THEN NeedsReview(inv'[w]) ELSE {},
                     recs |-> inv'[w].recs, errors |-> inv'[w].errors,
                     degraded |-> inv'[w].degraded]
<1>1. thread' = IF HasSaver(w) THEN [thread EXCEPT ![inv[w].run] = saved] ELSE thread
  BY DEF Save
<1>2. /\ saved \in Checkpoint /\ saved.claims = inv'[w].claims
      /\ saved.reports = inv'[w].reports
  BY DEF Checkpoint, Invocation, NeedsReview
<1>3. QuestionComplete(saved)
  BY DEF QuestionComplete, NeedsReview
<1> HIDE DEF saved
<1> QED
  BY <1>1, <1>2, <1>3

-----------------------------------------------------------------------------
(* The updates the actions make to a graph state keep it one.              *)
LEMMA LoopTyped ==
  ASSUME NEW s \in Invocation, NEW todo \in SUBSET Claims, NEW b \in BOOLEAN, NEW d \in BOOLEAN
  PROVE  /\ [s EXCEPT !.todo = todo] \in Invocation
         /\ [s EXCEPT !.todo = todo, !.errors = b, !.degraded = @ \/ d] \in Invocation
         /\ [s EXCEPT !.recs = IF todo = {} THEN @ ELSE todo] \in Invocation
<1>1. [s EXCEPT !.todo = todo] \in Invocation
  BY DEF Invocation
<1>2. [s EXCEPT !.todo = todo, !.errors = b, !.degraded = @ \/ d] \in Invocation
  BY DEF Invocation
<1>3. [s EXCEPT !.recs = IF todo = {} THEN @ ELSE todo] \in Invocation
  BY DEF Invocation
<1> QED
  BY <1>1, <1>2, <1>3

LEMMA ClaimTyped ==
  ASSUME NEW s \in Invocation, NEW c \in Claims, NEW b \in BOOLEAN, NEW v \in Verdict
  PROVE  /\ [s EXCEPT !.todo = @ \ {c}] \in Invocation
         /\ [s EXCEPT !.todo = @ \ {c}, !.errors = @ \/ b] \in Invocation
         /\ [s EXCEPT !.todo = @ \ {c}, !.claims[c] = "pending"] \in Invocation
         /\ [s EXCEPT !.todo = @ \ {c}, !.claims[c] = "verified"] \in Invocation
         /\ [s EXCEPT !.todo = @ \ {c}, !.reports[c] = Demote(@, TRUE)] \in Invocation
         /\ [s EXCEPT !.reports[c] = v] \in Invocation
<1>1. [s EXCEPT !.todo = @ \ {c}] \in Invocation
  BY DEF Invocation
<1>2. [s EXCEPT !.todo = @ \ {c}, !.errors = @ \/ b] \in Invocation
  BY DEF Invocation
<1>3. [s EXCEPT !.todo = @ \ {c}, !.claims[c] = "pending"] \in Invocation
  BY DEF Invocation
<1>4. [s EXCEPT !.todo = @ \ {c}, !.claims[c] = "verified"] \in Invocation
  BY DEF Invocation
<1>5. [s EXCEPT !.todo = @ \ {c}, !.reports[c] = Demote(@, TRUE)] \in Invocation
  BY DEF Invocation, Demote
<1>6. [s EXCEPT !.reports[c] = v] \in Invocation
  BY DEF Invocation
<1> QED
  BY <1>1, <1>2, <1>3, <1>4, <1>5, <1>6

LEMMA CellTyped ==
  ASSUME NEW s \in Invocation, NEW i \in Indicators, NEW k \in CoverageState
  PROVE  [s EXCEPT !.cells[i] = k] \in Invocation
  BY DEF Invocation

LEMMA ReplyTyped ==
  ASSUME NEW reply \in Reply
  PROVE  [Fresh EXCEPT !.reply = reply] \in Invocation
  BY FreshTyped DEF Fresh, Invocation

(* A resumed invocation starts from the state its checkpoint holds.        *)
LEMMA ResumeTyped ==
  ASSUME NEW r \in Runs, NEW k \in Checkpoint, NEW accepts \in SUBSET Claims,
         NEW todo \in SUBSET Claims
  PROVE  [Fresh EXCEPT !.run = r, !.resumed = TRUE, !.hitl = TRUE,
            !.claims = k.claims, !.reports = k.reports, !.recs = k.recs,
            !.errors = k.errors, !.degraded = k.degraded, !.asked = k.asked,
            !.accepts = accepts, !.todo = todo] \in Invocation
  BY FreshTyped DEF Fresh, Invocation, Checkpoint

-----------------------------------------------------------------------------
(***************************************************************************)
(* Type correctness, one lemma per group of actions.                       *)
(***************************************************************************)
LEMMA InitTyped == Init => TypeOK
  BY FreshTyped, BoundAssumption DEF Init, TypeOK

LEMMA PostTyped ==
  ASSUME TypeOK, NEW w \in Workers, NEW r \in Runs, NEW hitl \in HitlModes, Post(w, r, hitl)
  PROVE  TypeOK'
<1> DEFINE kept == IF hitl THEN thread[r] ELSE NoCheckpoint
           state == [Fresh EXCEPT !.run = r, !.hitl = hitl,
                                  !.recs = kept.recs, !.degraded = kept.degraded]
<1>1. state \in Invocation
  BY FreshTyped, ModeAssumption DEF TypeOK, Invocation, Checkpoint, Fresh, NoCheckpoint
<1>2. inv' \in [Workers -> Invocation]
  BY <1>1, BecomeEffect DEF TypeOK, Post
<1>3. thread' \in [Runs -> Checkpoint]
  BY FreshTyped DEF TypeOK, Post, Checkpoint, NoCheckpoint
<1>4. pc' \in [Workers -> PC] /\ posts' \in 0..MaxPosts
  BY BoundAssumption DEF TypeOK, Post, Goto
<1> QED
  BY <1>2, <1>3, <1>4 DEF TypeOK, Post, store, history

LEMMA PrepareTyped ==
  ASSUME TypeOK, NEW w \in Workers, PrepareStep(w)
  PROVE  TypeOK'
<1>1. PICK clauses \in SUBSET Claims, failed \in BOOLEAN, degraded \in BOOLEAN :
        Prepare(w, clauses, failed, degraded)
  BY DEF PrepareStep
<1>2. inv' \in [Workers -> Invocation]
  <2>1. [inv[w] EXCEPT !.todo = clauses, !.errors = failed,
                       !.degraded = @ \/ degraded] \in Invocation
    BY LoopTyped DEF TypeOK
  <2> QED
    BY <1>1, <2>1, BecomeEffect DEF TypeOK, Prepare
<1>3. thread' \in [Runs -> Checkpoint]
  BY <1>1, <1>2, SaveEffect DEF TypeOK, Prepare
<1> QED
  BY <1>1, <1>2, <1>3 DEF TypeOK, Prepare, Goto, store, history, bounds

LEMMA ClassifyTyped ==
  ASSUME TypeOK, NEW w \in Workers, ClassifyStep(w)
  PROVE  TypeOK'
<1>1. ASSUME NEW c \in Claims, ClassifyClaim(w, c) PROVE TypeOK'
  <2>1. [inv[w] EXCEPT !.todo = @ \ {c}, !.claims[c] = "pending"] \in Invocation
    BY ClaimTyped DEF TypeOK
  <2>2. inv' \in [Workers -> Invocation]
    BY <1>1, <2>1, BecomeEffect DEF TypeOK, ClassifyClaim
  <2> QED
    BY <1>1, <2>2 DEF TypeOK, ClassifyClaim, history, bounds
<1>2. ASSUME NEW c \in Claims, NEW raised \in BOOLEAN, SkipClause(w, c, raised) PROVE TypeOK'
  <2>1. [inv[w] EXCEPT !.todo = @ \ {c}, !.errors = @ \/ raised] \in Invocation
    BY ClaimTyped DEF TypeOK
  <2>2. inv' \in [Workers -> Invocation]
    BY <1>2, <2>1, BecomeEffect DEF TypeOK, SkipClause
  <2> QED
    BY <1>2, <2>2 DEF TypeOK, SkipClause, store, history, bounds
<1>3. CASE EndClassify(w)
  BY <1>3, SaveEffect DEF TypeOK, EndClassify, Goto, store, history, bounds
<1> QED
  BY <1>1, <1>2, <1>3 DEF ClassifyStep

LEMMA VerifyTyped ==
  ASSUME TypeOK, NEW w \in Workers, VerifyStep(w)
  PROVE  TypeOK'
<1>1. ASSUME NEW c \in Claims, NEW gates \in Verdict, NEW objection \in BOOLEAN,
             VerifyClaim(w, c, gates, objection)
      PROVE  TypeOK'
  <2>1. Demote(gates, objection) \in Verdict
    BY DEF Demote
  <2>2. [inv[w] EXCEPT !.reports[c] = Demote(gates, objection)] \in Invocation
    BY <2>1, ClaimTyped DEF TypeOK
  <2>3. inv' \in [Workers -> Invocation]
    BY <1>1, <2>2, BecomeEffect DEF TypeOK, VerifyClaim
  <2> QED
    BY <1>1, <2>1, <2>3 DEF TypeOK, VerifyClaim, bounds
<1>2. ASSUME NEW useless \in SUBSET Pillars, BeginScreen(w, useless) PROVE TypeOK'
  <2> DEFINE todo == {c \in WithVerdict(w, "verified") : PillarOf[c] \in useless}
  <2>1. todo \in SUBSET Claims
    BY DEF WithVerdict, Produced
  <2>2. [inv[w] EXCEPT !.todo = todo] \in Invocation
    BY <2>1, LoopTyped DEF TypeOK
  <2>3. inv' \in [Workers -> Invocation]
    BY <1>2, <2>2, BecomeEffect DEF TypeOK, BeginScreen
  <2> QED
    BY <1>2, <2>3 DEF TypeOK, BeginScreen, Goto, store, history, bounds
<1>3. ASSUME NEW c \in Claims, ScreenClaim(w, c) PROVE TypeOK'
  <2>1. [inv[w] EXCEPT !.todo = @ \ {c}, !.reports[c] = Demote(@, TRUE)] \in Invocation
    BY ClaimTyped DEF TypeOK
  <2>2. inv' \in [Workers -> Invocation]
    BY <1>3, <2>1, BecomeEffect DEF TypeOK, ScreenClaim
  <2> QED
    BY <1>3, <2>2 DEF TypeOK, ScreenClaim, history, bounds
<1>4. CASE EndScreen(w)
  BY <1>4, SaveEffect DEF TypeOK, EndScreen, Goto, store, history, bounds
<1> QED
  BY <1>1, <1>2, <1>3, <1>4 DEF VerifyStep

LEMMA ReviewTyped ==
  ASSUME TypeOK, NEW w \in Workers, ReviewStep(w)
  PROVE  TypeOK'
<1>1. CASE ReviewNothing(w)
  BY <1>1, SaveEffect DEF TypeOK, ReviewNothing, Goto, store, history, bounds
<1>2. CASE Interrupt(w)
  BY <1>2, SaveEffect DEF TypeOK, Interrupt, Goto, store, history, bounds
<1>3. ASSUME NEW c \in Claims, AcceptClaim(w, c) PROVE TypeOK'
  <2>1. [inv[w] EXCEPT !.todo = @ \ {c}, !.claims[c] = "verified"] \in Invocation
    BY ClaimTyped DEF TypeOK
  <2>2. inv' \in [Workers -> Invocation]
    BY <1>3, <2>1, BecomeEffect DEF TypeOK, AcceptClaim
  <2> QED
    BY <1>3, <2>2 DEF TypeOK, AcceptClaim, history, bounds
<1>4. CASE EndReview(w)
  BY <1>4, SaveEffect DEF TypeOK, EndReview, Goto, store, history, bounds
<1> QED
  BY <1>1, <1>2, <1>3, <1>4 DEF ReviewStep

LEMMA CoverageTyped ==
  ASSUME TypeOK, NEW w \in Workers, CoverageStep(w)
  PROVE  TypeOK'
<1>1. PICK i \in Indicators, recallKnown \in BOOLEAN : EvaluateCoverage(w, i, recallKnown)
  BY DEF CoverageStep
<1>2. CoverageOf(w, i, recallKnown) \in CoverageState
  BY DEF CoverageOf
<1>3. [inv[w] EXCEPT !.cells[i] = CoverageOf(w, i, recallKnown)] \in Invocation
  BY <1>2, CellTyped DEF TypeOK
<1>4. inv' \in [Workers -> Invocation]
  BY <1>1, <1>3, BecomeEffect DEF TypeOK, EvaluateCoverage
<1> QED
  BY <1>1, <1>2, <1>4 DEF TypeOK, EvaluateCoverage, history, bounds

LEMMA Layer2Typed ==
  ASSUME TypeOK, NEW w \in Workers, Layer2Step(w)
  PROVE  TypeOK'
<1>1. CASE BeginLayer2(w)
  <2> DEFINE verified == WithVerdict(w, "verified")
  <2>1. verified \in SUBSET Claims
    BY DEF WithVerdict, Produced
  <2>2. [inv[w] EXCEPT !.todo = verified] \in Invocation
    BY <2>1, LoopTyped DEF TypeOK
  <2>3. inv' \in [Workers -> Invocation]
    BY <1>1, <2>2, BecomeEffect DEF TypeOK, BeginLayer2
  <2>4. thread' \in [Runs -> Checkpoint]
    BY <1>1, <2>3, SaveEffect DEF TypeOK, BeginLayer2
  <2> QED
    BY <1>1, <2>3, <2>4 DEF TypeOK, BeginLayer2, Goto, store, history, bounds
<1>2. ASSUME NEW c \in Claims, SaveLayer2(w, c) PROVE TypeOK'
  <2>1. [inv[w] EXCEPT !.todo = @ \ {c}] \in Invocation
    BY ClaimTyped DEF TypeOK
  <2>2. inv' \in [Workers -> Invocation]
    BY <1>2, <2>1, BecomeEffect DEF TypeOK, SaveLayer2
  <2>3. layer2' \in [Claims -> {"none", "null", "band"}]
    BY <1>2 DEF TypeOK, SaveLayer2
  <2> QED
    BY <1>2, <2>2, <2>3 DEF TypeOK, SaveLayer2, history, bounds
<1>3. CASE EndLayer2(w)
  <2> DEFINE verified == WithVerdict(w, "verified")
  <2>1. verified \in SUBSET Claims
    BY DEF WithVerdict, Produced
  <2>2. [inv[w] EXCEPT !.recs = IF verified = {} THEN @ ELSE verified] \in Invocation
    BY <2>1, LoopTyped DEF TypeOK
  <2>3. inv' \in [Workers -> Invocation]
    BY <1>3, <2>2, BecomeEffect DEF TypeOK, EndLayer2
  <2>4. thread' \in [Runs -> Checkpoint]
    BY <1>3, <2>3, SaveEffect DEF TypeOK, EndLayer2
  <2> QED
    BY <1>3, <2>3, <2>4 DEF TypeOK, EndLayer2, Goto, store, history, bounds
<1> QED
  BY <1>1, <1>2, <1>3 DEF Layer2Step

LEMMA AnswerTyped ==
  ASSUME TypeOK, NEW w \in Workers, Answer(w) \/ Fail(w)
  PROVE  TypeOK'
<1>1. CASE Answer(w)
  <2> DEFINE reply == IF inv[w].resumed /\ RunStatus(w) = "running"
                        THEN "schema_error" ELSE RunStatus(w)
  <2>1. reply \in Reply
    BY DEF RunStatus
  <2>2. inv' \in [Workers -> Invocation]
    BY <1>1, <2>1, ReplyTyped, BecomeEffect DEF TypeOK, Answer
  <2> QED
    BY <1>1, <2>2 DEF TypeOK, Answer, Goto, store, history, bounds
<1>2. CASE Fail(w)
  <2>1. inv' \in [Workers -> Invocation]
    BY <1>2, ReplyTyped, BecomeEffect DEF TypeOK, Fail
  <2> QED
    BY <1>2, <2>1 DEF TypeOK, Fail, Goto, store, history, bounds
<1> QED
  BY <1>1, <1>2

LEMMA ResumeNothingTyped ==
  ASSUME TypeOK, NEW w \in Workers, NEW r \in Runs, NEW accepts \in SUBSET Claims,
         ResumeNothing(w, r, accepts)
  PROVE  TypeOK'
<1>1. inv' \in [Workers -> Invocation]
  BY ReplyTyped, BecomeEffect DEF TypeOK, ResumeNothing
<1>2. resumes' \in 0..MaxResumes
  BY BoundAssumption DEF TypeOK, ResumeNothing
<1> QED
  BY <1>1, <1>2 DEF TypeOK, ResumeNothing, store

LEMMA ResumeStepTyped ==
  ASSUME TypeOK, NEW w \in Workers, NEW r \in Runs, NEW accepts \in SUBSET Claims,
         Resume(w, r, accepts)
  PROVE  TypeOK'
<1>1. NeedsReview(thread[r]) \cap accepts \in SUBSET Claims /\ thread[r] \in Checkpoint
  BY DEF TypeOK
<1>2. inv' \in [Workers -> Invocation]
  BY <1>1, ResumeTyped, BecomeEffect DEF TypeOK, Resume
<1>3. resumes' \in 0..MaxResumes
  BY BoundAssumption DEF TypeOK, Resume
<1> QED
  BY <1>2, <1>3 DEF TypeOK, Resume, Goto, store

LEMMA OutsideTyped ==
  ASSUME TypeOK
  PROVE  /\ Crash => TypeOK'
         /\ \A c \in Claims, d \in Decisions : SubmitReview(c, d) => TypeOK'
<1>1. Crash => TypeOK'
  BY FreshTyped, BoundAssumption DEF TypeOK, Crash, store, history
<1>2. \A c \in Claims, d \in Decisions : SubmitReview(c, d) => TypeOK'
  BY DEF TypeOK, SubmitReview, store, history, bounds
<1> QED
  BY <1>1, <1>2

(* Every variable keeps the type its declaration promises, in particular   *)
(* each answer is one of the statuses the models of the API know.          *)
THEOREM TypeCorrect == Spec => []TypeOK
<1>1. Init => TypeOK
  BY InitTyped
<1>2. TypeOK /\ [Next]_vars => TypeOK'
  <2> SUFFICES ASSUME TypeOK, [Next]_vars PROVE TypeOK'
    OBVIOUS
  <2>1. ASSUME NEW w \in Workers, Execute(w) PROVE TypeOK'
    BY <2>1, PrepareTyped, ClassifyTyped, VerifyTyped, ReviewTyped, CoverageTyped,
       Layer2Typed, AnswerTyped DEF Execute
  <2>2. ASSUME NEW w \in Workers, Request(w) PROVE TypeOK'
    BY <2>2, PostTyped, ResumeStepTyped, ResumeNothingTyped DEF Request
  <2>3. ASSUME NEW w \in Workers, Fail(w) PROVE TypeOK'
    BY <2>3, AnswerTyped
  <2>4. CASE UNCHANGED vars
    BY <2>4 DEF TypeOK, vars, store, history, bounds
  <2> QED
    BY <2>1, <2>2, <2>3, <2>4, OutsideTyped DEF Next
<1> QED
  BY <1>1, <1>2, PTL DEF Spec

-----------------------------------------------------------------------------
(***************************************************************************)
(* The inductive invariant.  A step of worker w disturbs w's own state,    *)
(* perhaps one checkpoint, and the store; what it must establish for       *)
(* StoreInv' is listed once.                                               *)
(***************************************************************************)
LEMMA WorkerStep ==
  ASSUME TypeOK, StoreInv, NEW w \in Workers,
         \A v \in Workers : v # w => inv'[v] = inv[v] /\ pc'[v] = pc[v],
         \A r \in Runs : \/ thread'[r] = thread[r]
                         \/ /\ thread'[r].claims = inv'[w].claims
                            /\ thread'[r].reports = inv'[w].reports
                            /\ QuestionComplete(thread'[r]),
         attested \subseteq attested', approved \subseteq approved',
         \A c \in Claims : row[c] # "absent" => row'[c] # "absent",
         Backed(inv[w])', LoopWork(w)', ReviewAsked(w)',
         VerifiedIsWarranted', Layer2NeedsGates'
  PROVE  StoreInv'
<1>1. ASSUME NEW v \in Workers PROVE Backed(inv[v])' /\ LoopWork(v)' /\ ReviewAsked(v)'
  <2>1. CASE v = w
    BY <2>1
  <2>2. CASE v # w
    <3>1. inv'[v] = inv[v] /\ pc'[v] = pc[v]
      BY <2>2
    <3>2. Backed(inv[v])'
      BY <3>1 DEF StoreInv, Backed
    <3>3. LoopWork(v)'
      BY <3>1 DEF StoreInv, LoopWork, Produced, NeedsReview
    <3>4. ReviewAsked(v)'
      BY <3>1 DEF StoreInv, ReviewBeforeCoverage, ReviewAsked, NeedsReview
    <3> QED
      BY <3>2, <3>3, <3>4
  <2> QED
    BY <2>1, <2>2
<1>2. ASSUME NEW r \in Runs PROVE Backed(thread[r])' /\ QuestionComplete(thread[r])'
  <2>1. Backed(thread[r])'
    BY DEF StoreInv, Backed
  <2>2. QuestionComplete(thread[r])'
    BY DEF StoreInv, QuestionComplete, NeedsReview
  <2> QED
    BY <2>1, <2>2
<1> QED
  BY <1>1, <1>2 DEF StoreInv, ReviewBeforeCoverage

LEMMA InitInv == Init => StoreInv
  BY DEF Init, StoreInv, Fresh, NoCheckpoint, Backed, QuestionComplete, LoopWork, VerifiedIsWarranted,
         Layer2NeedsGates, ReviewBeforeCoverage, ReviewAsked

LEMMA ClassifyInv ==
  ASSUME TypeOK, StoreInv, NEW w \in Workers, ClassifyStep(w)
  PROVE  StoreInv'
<1>1. ASSUME NEW c \in Claims, ClassifyClaim(w, c) PROVE StoreInv'
  <2>1. /\ inv' = [inv EXCEPT ![w] = [inv[w] EXCEPT !.todo = @ \ {c}, !.claims[c] = "pending"]]
        /\ row' = [row EXCEPT ![c] = "pending"]
        /\ pc[w] = "classify"
        /\ UNCHANGED <<pc, thread, layer2, attested, approved>>
    BY <1>1 DEF ClassifyClaim, Become, history
  <2>2. Backed(inv[w])'
    BY <2>1 DEF TypeOK, Invocation, StoreInv, Backed
  <2>3. VerifiedIsWarranted'
    BY <2>1 DEF TypeOK, StoreInv, VerifiedIsWarranted
  <2> QED
    BY <2>1, <2>2, <2>3, WorkerStep
       DEF TypeOK, StoreInv, LoopWork, ReviewAsked, Layer2NeedsGates
<1>2. ASSUME NEW c \in Claims, NEW raised \in BOOLEAN, SkipClause(w, c, raised) PROVE StoreInv'
  <2>1. /\ inv' = [inv EXCEPT ![w] = [inv[w] EXCEPT !.todo = @ \ {c}, !.errors = @ \/ raised]]
        /\ pc[w] = "classify"
        /\ UNCHANGED <<pc, thread, row, layer2, attested, approved>>
    BY <1>2 DEF SkipClause, Become, history, store
  <2>2. Backed(inv[w])'
    BY <2>1 DEF TypeOK, Invocation, StoreInv, Backed
  <2> QED
    BY <2>1, <2>2, WorkerStep
       DEF TypeOK, StoreInv, LoopWork, ReviewAsked, Layer2NeedsGates, VerifiedIsWarranted
<1>3. CASE EndClassify(w)
  BY <1>3, SaveEffect, WorkerStep
     DEF EndClassify, TypeOK, StoreInv, Backed, LoopWork, ReviewAsked, Goto,
         Layer2NeedsGates, VerifiedIsWarranted, store, history
<1> QED
  BY <1>1, <1>2, <1>3 DEF ClassifyStep

LEMMA PrepareInv ==
  ASSUME TypeOK, TypeOK', StoreInv, NEW w \in Workers, PrepareStep(w)
  PROVE  StoreInv'
<1>1. PICK clauses \in SUBSET Claims, failed \in BOOLEAN, degraded \in BOOLEAN :
        Prepare(w, clauses, failed, degraded)
  BY DEF PrepareStep
<1>2. /\ inv' = [inv EXCEPT ![w] = [inv[w] EXCEPT !.todo = clauses, !.errors = failed,
                                                  !.degraded = @ \/ degraded]]
      /\ pc' = [pc EXCEPT ![w] = "classify"]
      /\ Save(w, "midway")
      /\ UNCHANGED <<row, layer2, attested, approved>>
  BY <1>1 DEF Prepare, Become, Goto, store, history
<1>3. Backed(inv[w])'
  BY <1>2 DEF TypeOK, Invocation, StoreInv, Backed
<1>4. LoopWork(w)' /\ ReviewAsked(w)'
  BY <1>2 DEF TypeOK, LoopWork, ReviewAsked
<1> QED
  BY <1>2, <1>3, <1>4, SaveEffect, WorkerStep
     DEF TypeOK, StoreInv, Layer2NeedsGates, VerifiedIsWarranted

LEMMA VerifyInv ==
  ASSUME TypeOK, TypeOK', StoreInv, NEW w \in Workers, VerifyStep(w)
  PROVE  StoreInv'
<1>1. ASSUME NEW c \in Claims, NEW gates \in Verdict, NEW objection \in BOOLEAN,
             VerifyClaim(w, c, gates, objection)
      PROVE  StoreInv'
  <2> DEFINE verdict == Demote(gates, objection)
  <2>1. /\ inv' = [inv EXCEPT ![w] = [inv[w] EXCEPT !.reports[c] = verdict]]
        /\ row' = [row EXCEPT ![c] = verdict]
        /\ attested' = IF verdict = "verified" THEN attested \cup {c} ELSE attested
        /\ pc[w] = "verify"
        /\ UNCHANGED <<pc, thread, layer2, approved>>
    BY <1>1 DEF VerifyClaim, Become
  <2>2. verdict \in Verdict
    BY DEF Demote
  <2> HIDE DEF verdict
  <2>3. Backed(inv[w])'
    BY <2>1, <2>2 DEF TypeOK, Invocation, StoreInv, Backed
  <2>4. VerifiedIsWarranted' /\ Layer2NeedsGates'
    BY <2>1 DEF TypeOK, StoreInv, VerifiedIsWarranted, Layer2NeedsGates
  <2> QED
    BY <2>1, <2>2, <2>3, <2>4, WorkerStep DEF TypeOK, StoreInv, LoopWork, ReviewAsked
<1>2. ASSUME NEW useless \in SUBSET Pillars, BeginScreen(w, useless) PROVE StoreInv'
  <2> DEFINE todo == {c \in WithVerdict(w, "verified") : PillarOf[c] \in useless}
  <2>1. /\ inv' = [inv EXCEPT ![w] = [inv[w] EXCEPT !.todo = todo]]
        /\ pc' = [pc EXCEPT ![w] = "screen"]
        /\ UNCHANGED <<thread, row, layer2, attested, approved>>
    BY <1>2 DEF BeginScreen, Become, Goto, store, history
  <2>2. todo \subseteq Produced(w)
    BY DEF WithVerdict
  <2> HIDE DEF todo
  <2>3. Backed(inv[w])'
    BY <2>1 DEF TypeOK, Invocation, StoreInv, Backed
  <2>4. LoopWork(w)' /\ ReviewAsked(w)'
    BY <2>1, <2>2 DEF TypeOK, Invocation, LoopWork, Produced, ReviewAsked
  <2> QED
    BY <2>1, <2>3, <2>4, WorkerStep
       DEF TypeOK, StoreInv, Layer2NeedsGates, VerifiedIsWarranted
<1>3. ASSUME NEW c \in Claims, ScreenClaim(w, c) PROVE StoreInv'
  <2>1. /\ inv' = [inv EXCEPT ![w] = [inv[w] EXCEPT !.todo = @ \ {c},
                                                    !.reports[c] = Demote(@, TRUE)]]
        /\ row' = [row EXCEPT ![c] = "flagged"]
        /\ pc[w] = "screen"
        /\ UNCHANGED <<pc, thread, layer2, attested, approved>>
    BY <1>3 DEF ScreenClaim, Become, history
  <2>2. Backed(inv[w])'
    BY <2>1 DEF TypeOK, Invocation, StoreInv, Backed, Demote
  <2>3. VerifiedIsWarranted'
    BY <2>1 DEF TypeOK, StoreInv, VerifiedIsWarranted
  <2>4. LoopWork(w)' /\ ReviewAsked(w)'
    BY <2>1 DEF TypeOK, Invocation, StoreInv, LoopWork, Produced, ReviewAsked
  <2> QED
    BY <2>1, <2>2, <2>3, <2>4, WorkerStep DEF TypeOK, StoreInv, Layer2NeedsGates
<1>4. CASE EndScreen(w)
  <2>1. /\ pc' = [pc EXCEPT ![w] = IF inv[w].hitl THEN "review" ELSE "coverage"]
        /\ Save(w, "midway")
        /\ UNCHANGED <<inv, row, layer2, attested, approved>>
    BY <1>4 DEF EndScreen, Goto, store, history
  <2>2. LoopWork(w)' /\ ReviewAsked(w)'
    BY <2>1 DEF TypeOK, LoopWork, ReviewAsked
  <2> QED
    BY <2>1, <2>2, SaveEffect, WorkerStep
       DEF TypeOK, StoreInv, Backed, Layer2NeedsGates, VerifiedIsWarranted
<1> QED
  BY <1>1, <1>2, <1>3, <1>4 DEF VerifyStep

LEMMA ReviewInv ==
  ASSUME TypeOK, TypeOK', StoreInv, NEW w \in Workers, ReviewStep(w)
  PROVE  StoreInv'
<1>1. CASE ReviewNothing(w)
  <2>1. /\ pc' = [pc EXCEPT ![w] = "coverage"]
        /\ Save(w, "midway")
        /\ UNCHANGED <<inv, row, layer2, attested, approved>>
    BY <1>1 DEF ReviewNothing, Goto, store, history
  <2>2. LoopWork(w)' /\ ReviewAsked(w)'
    BY <1>1, <2>1 DEF TypeOK, LoopWork, ReviewAsked, ReviewNothing, NeedsReview
  <2> QED
    BY <2>1, <2>2, SaveEffect, WorkerStep
       DEF TypeOK, StoreInv, Backed, Layer2NeedsGates, VerifiedIsWarranted
<1>2. CASE Interrupt(w)
  <2>1. /\ pc' = [pc EXCEPT ![w] = "reply"]
        /\ Save(w, "paused")
        /\ UNCHANGED <<inv, row, layer2, attested, approved>>
    BY <1>2 DEF Interrupt, Goto, store, history
  <2>2. LoopWork(w)' /\ ReviewAsked(w)'
    BY <2>1 DEF TypeOK, LoopWork, ReviewAsked
  <2> QED
    BY <2>1, <2>2, SaveEffect, WorkerStep
       DEF TypeOK, StoreInv, Backed, Layer2NeedsGates, VerifiedIsWarranted
<1>3. ASSUME NEW c \in Claims, AcceptClaim(w, c) PROVE StoreInv'
  <2>1. /\ inv' = [inv EXCEPT ![w] = [inv[w] EXCEPT !.todo = @ \ {c},
                                                    !.claims[c] = "verified"]]
        /\ row' = [row EXCEPT ![c] = "verified"]
        /\ pc[w] = "apply" /\ c \in inv[w].todo
        /\ UNCHANGED <<pc, thread, layer2, attested, approved>>
    BY <1>3 DEF AcceptClaim, Become, history
  <2>2. Backed(inv[w])'
    BY <2>1 DEF TypeOK, Invocation, StoreInv, Backed
  <2>3. VerifiedIsWarranted'
    BY <2>1 DEF TypeOK, StoreInv, VerifiedIsWarranted, LoopWork
  <2>4. LoopWork(w)'
    BY <2>1 DEF TypeOK, Invocation, StoreInv, LoopWork, NeedsReview
  <2>5. ReviewAsked(w)'
    BY <2>1 DEF ReviewAsked
  <2> QED
    BY <2>1, <2>2, <2>3, <2>4, <2>5, WorkerStep DEF TypeOK, StoreInv, Layer2NeedsGates
<1>4. CASE EndReview(w)
  <2>1. /\ pc' = [pc EXCEPT ![w] = "coverage"]
        /\ pc[w] = "apply" /\ inv[w].todo = {}
        /\ Save(w, "midway")
        /\ UNCHANGED <<inv, row, layer2, attested, approved>>
    BY <1>4 DEF EndReview, Goto, store, history
  <2>2. LoopWork(w)' /\ ReviewAsked(w)'
    BY <2>1 DEF TypeOK, StoreInv, LoopWork, ReviewAsked, NeedsReview
  <2> QED
    BY <2>1, <2>2, SaveEffect, WorkerStep
       DEF TypeOK, StoreInv, Backed, Layer2NeedsGates, VerifiedIsWarranted
<1> QED
  BY <1>1, <1>2, <1>3, <1>4 DEF ReviewStep

LEMMA CoverageInv ==
  ASSUME TypeOK, TypeOK', StoreInv, NEW w \in Workers, CoverageStep(w)
  PROVE  StoreInv'
<1>1. PICK i \in Indicators, recallKnown \in BOOLEAN : EvaluateCoverage(w, i, recallKnown)
  BY DEF CoverageStep
<1> DEFINE cell == CoverageOf(w, i, recallKnown)
<1>2. /\ inv' = [inv EXCEPT ![w] = [inv[w] EXCEPT !.cells[i] = cell]]
      /\ pc[w] = "coverage"
      /\ UNCHANGED <<pc, thread, row, layer2, attested, approved>>
  BY <1>1 DEF EvaluateCoverage, Become, history
<1> HIDE DEF cell
<1>3. Backed(inv[w])'
  BY <1>2 DEF TypeOK, Invocation, StoreInv, Backed
<1>4. LoopWork(w)' /\ ReviewAsked(w)'
  BY <1>2 DEF TypeOK, Invocation, StoreInv, LoopWork, ReviewBeforeCoverage, ReviewAsked,
              NeedsReview
<1> QED
  BY <1>2, <1>3, <1>4, WorkerStep
     DEF TypeOK, StoreInv, Layer2NeedsGates, VerifiedIsWarranted

LEMMA Layer2Inv ==
  ASSUME TypeOK, TypeOK', StoreInv, NEW w \in Workers, Layer2Step(w)
  PROVE  StoreInv'
<1>1. CASE BeginLayer2(w)
  <2> DEFINE verified == WithVerdict(w, "verified")
  <2>0. inv' = [inv EXCEPT ![w] = [inv[w] EXCEPT !.todo = verified]]
    BY <1>1 DEF BeginLayer2, Become
  <2>1. /\ pc' = [pc EXCEPT ![w] = "layer2"] /\ pc[w] = "coverage"
        /\ Save(w, "midway")
        /\ UNCHANGED <<row, layer2, attested, approved>>
    BY <1>1 DEF BeginLayer2, Goto, store, history
  <2>2. verified \subseteq attested
    BY DEF WithVerdict, Produced, StoreInv, Backed
  <2> HIDE DEF verified
  <2>3. Backed(inv[w])'
    BY <2>0, <2>1 DEF TypeOK, Invocation, StoreInv, Backed
  <2>4. LoopWork(w)' /\ ReviewAsked(w)'
    BY <2>0, <2>1, <2>2 DEF TypeOK, Invocation, StoreInv, LoopWork, ReviewBeforeCoverage,
                            ReviewAsked, NeedsReview
  <2> QED
    BY <2>0, <2>1, <2>3, <2>4, SaveEffect, WorkerStep
       DEF TypeOK, StoreInv, Layer2NeedsGates, VerifiedIsWarranted
<1>2. ASSUME NEW c \in Claims, SaveLayer2(w, c) PROVE StoreInv'
  <2>1. PICK band : layer2' = [layer2 EXCEPT ![c] = band]
    BY <1>2 DEF SaveLayer2
  <2>2. /\ inv' = [inv EXCEPT ![w] = [inv[w] EXCEPT !.todo = @ \ {c}]]
        /\ pc[w] = "layer2" /\ c \in inv[w].todo
        /\ UNCHANGED <<pc, thread, row, attested, approved>>
    BY <1>2 DEF SaveLayer2, Become, history
  <2>3. Backed(inv[w])'
    BY <2>2 DEF TypeOK, Invocation, StoreInv, Backed
  <2>4. LoopWork(w)' /\ ReviewAsked(w)'
    BY <2>2 DEF TypeOK, Invocation, StoreInv, LoopWork, ReviewBeforeCoverage, ReviewAsked,
                NeedsReview
  <2>5. Layer2NeedsGates'
    BY <2>1, <2>2 DEF TypeOK, StoreInv, LoopWork, Layer2NeedsGates
  <2> QED
    BY <2>2, <2>3, <2>4, <2>5, WorkerStep DEF TypeOK, StoreInv, VerifiedIsWarranted
<1>3. CASE EndLayer2(w)
  <2>1. PICK recs : /\ inv' = [inv EXCEPT ![w] = [inv[w] EXCEPT !.recs = recs]]
                    /\ pc' = [pc EXCEPT ![w] = "reply"]
                    /\ Save(w, "done")
                    /\ UNCHANGED <<row, layer2, attested, approved>>
    BY <1>3 DEF EndLayer2, Become, Goto, store, history
  <2>2. LoopWork(w)' /\ ReviewAsked(w)'
    BY <2>1 DEF TypeOK, LoopWork, ReviewAsked
  <2>3. Backed(inv[w])'
    BY <2>1 DEF TypeOK, Invocation, StoreInv, Backed
  <2> QED
    BY <2>1, <2>2, <2>3, SaveEffect, WorkerStep
       DEF TypeOK, StoreInv, Layer2NeedsGates, VerifiedIsWarranted
<1> QED
  BY <1>1, <1>2, <1>3 DEF Layer2Step

LEMMA AnswerInv ==
  ASSUME TypeOK, TypeOK', StoreInv, NEW w \in Workers, Answer(w) \/ Fail(w)
  PROVE  StoreInv'
<1>1. PICK reply : /\ inv' = [inv EXCEPT ![w] = [Fresh EXCEPT !.reply = reply]]
                   /\ pc' = [pc EXCEPT ![w] = "idle"]
                   /\ UNCHANGED <<thread, row, layer2, attested, approved>>
  BY DEF Answer, Fail, Become, Goto, store, history
<1>2. Backed(inv[w])'
  BY <1>1 DEF TypeOK, Fresh, Backed
<1>3. LoopWork(w)' /\ ReviewAsked(w)'
  BY <1>1 DEF TypeOK, LoopWork, ReviewAsked
<1> QED
  BY <1>1, <1>2, <1>3, WorkerStep
     DEF TypeOK, StoreInv, Layer2NeedsGates, VerifiedIsWarranted

LEMMA PostInv ==
  ASSUME TypeOK, TypeOK', StoreInv, NEW w \in Workers, NEW r \in Runs, NEW hitl \in HitlModes,
         Post(w, r, hitl)
  PROVE  StoreInv'
<1>1. PICK recs, degraded :
        inv' = [inv EXCEPT ![w] = [Fresh EXCEPT !.run = r, !.hitl = hitl,
                                                !.recs = recs, !.degraded = degraded]]
  BY DEF Post, Become
<1>2. /\ pc' = [pc EXCEPT ![w] = "prepare"]
      /\ UNCHANGED <<row, layer2, attested, approved>>
  BY DEF Post, Goto, store, history
<1>3. /\ inv'[w].claims = Fresh.claims /\ inv'[w].reports = Fresh.reports
      /\ \A v \in Workers : v # w => inv'[v] = inv[v]
  BY <1>1 DEF TypeOK, Fresh
<1>4. \A q \in Runs : \/ thread'[q] = thread[q]
                      \/ /\ thread'[q].claims = Fresh.claims /\ thread'[q].reports = Fresh.reports
                         /\ QuestionComplete(thread'[q])
  BY DEF Post, TypeOK, NoCheckpoint, Checkpoint, QuestionComplete
<1>5. Backed(inv[w])'
  BY <1>3 DEF Fresh, Backed
<1>6. LoopWork(w)' /\ ReviewAsked(w)'
  BY <1>2 DEF TypeOK, LoopWork, ReviewAsked
<1> QED
  BY <1>2, <1>3, <1>4, <1>5, <1>6, WorkerStep
     DEF TypeOK, StoreInv, Layer2NeedsGates, VerifiedIsWarranted

LEMMA ResumeNothingInv ==
  ASSUME TypeOK, TypeOK', StoreInv, NEW w \in Workers, NEW r \in Runs,
         NEW accepts \in SUBSET Claims, ResumeNothing(w, r, accepts)
  PROVE  StoreInv'
<1>1. /\ inv' = [inv EXCEPT ![w] = [Fresh EXCEPT !.reply = "failed"]]
      /\ pc[w] = "idle" /\ approved' = approved \cup accepts
      /\ UNCHANGED <<pc, thread, row, layer2, attested>>
  BY DEF ResumeNothing, Become, store
<1>2. Backed(inv[w])'
  BY <1>1 DEF TypeOK, Fresh, Backed
<1>3. LoopWork(w)' /\ ReviewAsked(w)'
  BY <1>1 DEF TypeOK, LoopWork, ReviewAsked
<1> QED
  BY <1>1, <1>2, <1>3, WorkerStep
     DEF TypeOK, StoreInv, Layer2NeedsGates, VerifiedIsWarranted

LEMMA ResumeInv ==
  ASSUME TypeOK, TypeOK', StoreInv, NEW w \in Workers, NEW r \in Runs,
         NEW accepts \in SUBSET Claims, Resume(w, r, accepts)
  PROVE  StoreInv'
<1> DEFINE state == [Fresh EXCEPT !.run = r, !.resumed = TRUE, !.hitl = TRUE,
                      !.claims = thread[r].claims, !.reports = thread[r].reports,
                      !.recs = thread[r].recs, !.errors = thread[r].errors,
                      !.degraded = thread[r].degraded, !.asked = thread[r].asked,
                      !.accepts = accepts, !.todo = NeedsReview(thread[r]) \cap accepts]
<1>1. /\ inv' = [inv EXCEPT ![w] = state]
      /\ pc' = [pc EXCEPT ![w] = "apply"] /\ approved' = approved \cup accepts
      /\ thread[r].at = "paused"
      /\ UNCHANGED <<thread, row, layer2, attested>>
  BY DEF Resume, Become, Goto, store
<1>2. /\ state.claims = thread[r].claims /\ state.reports = thread[r].reports
      /\ state.resumed /\ state.asked = thread[r].asked /\ state.accepts = accepts
      /\ state.todo = NeedsReview(thread[r]) \cap accepts
  BY DEF Fresh
<1> HIDE DEF state
<1>3. inv'[w] = state /\ pc'[w] = "apply" /\ \A v \in Workers : v # w => inv'[v] = inv[v]
  BY <1>1 DEF TypeOK
<1>4. Backed(inv[w])'
  BY <1>1, <1>2, <1>3 DEF StoreInv, Backed
<1>5. LoopWork(w)' /\ ReviewAsked(w)'
  <2>1. NeedsReview(thread[r]) = thread[r].asked
    BY <1>1 DEF StoreInv, QuestionComplete
  <2> QED
    BY <1>1, <1>2, <1>3, <2>1 DEF LoopWork, ReviewAsked, NeedsReview
<1> QED
  BY <1>1, <1>3, <1>4, <1>5, WorkerStep
     DEF TypeOK, StoreInv, Layer2NeedsGates, VerifiedIsWarranted

LEMMA OutsideInv ==
  ASSUME TypeOK, StoreInv
  PROVE  /\ Crash => StoreInv'
         /\ \A c \in Claims, d \in Decisions : SubmitReview(c, d) => StoreInv'
<1>1. ASSUME Crash PROVE StoreInv'
  BY <1>1 DEF Crash, StoreInv, Fresh, NoCheckpoint, Backed, QuestionComplete, LoopWork,
              ReviewBeforeCoverage,
              ReviewAsked, Layer2NeedsGates, VerifiedIsWarranted, store, history
<1>2. ASSUME NEW c \in Claims, NEW d \in Decisions, SubmitReview(c, d) PROVE StoreInv'
  BY <1>2 DEF SubmitReview, StoreInv, Backed, QuestionComplete, LoopWork, Produced, NeedsReview,
              ReviewBeforeCoverage, ReviewAsked, Layer2NeedsGates, VerifiedIsWarranted,
              store, history
<1> QED
  BY <1>1, <1>2

LEMMA StoreInvKept ==
  ASSUME TypeOK, TypeOK', StoreInv, [Next]_vars
  PROVE  StoreInv'
<1>1. ASSUME NEW w \in Workers, Execute(w) \/ Fail(w) PROVE StoreInv'
  BY <1>1, PrepareInv, ClassifyInv, VerifyInv, ReviewInv, CoverageInv, Layer2Inv, AnswerInv
     DEF Execute
<1>2. ASSUME NEW w \in Workers, Request(w) PROVE StoreInv'
  BY <1>2, PostInv, ResumeInv, ResumeNothingInv DEF Request
<1>3. CASE UNCHANGED vars
  BY <1>3 DEF vars, StoreInv, Backed, QuestionComplete, LoopWork, Produced, NeedsReview, ReviewBeforeCoverage,
              ReviewAsked, Layer2NeedsGates, VerifiedIsWarranted, store, history
<1> QED
  BY <1>1, <1>2, <1>3, OutsideInv DEF Next

(* The invariant holds in every state of every execution: whatever the     *)
(* interleaving, every copy of claims and reports that an invocation or a  *)
(* checkpoint holds is backed by the store and by the history.             *)
THEOREM StoreInvariant == Spec => []StoreInv
<1>1. Init => StoreInv
  BY InitInv
<1>2. TypeOK /\ TypeOK' /\ StoreInv /\ [Next]_vars => StoreInv'
  BY StoreInvKept
<1> QED
  BY <1>1, <1>2, TypeCorrect, PTL DEF Spec

(* No claim is stored as verified without gates that passed or a reviewer  *)
(* who accepted it.                                                        *)
THEOREM Warranted == Spec => []VerifiedIsWarranted
<1>1. StoreInv => VerifiedIsWarranted
  BY DEF StoreInv
<1> QED
  BY <1>1, StoreInvariant, PTL

(* No claim gets a score-band recommendation without gates that passed.    *)
THEOREM Layer2Gated == Spec => []Layer2NeedsGates
<1>1. StoreInv => Layer2NeedsGates
  BY DEF StoreInv
<1> QED
  BY <1>1, StoreInvariant, PTL

(* With the review node in the graph, no coverage is computed over a claim *)
(* in doubt that no reviewer was asked about, or whose acceptance was not  *)
(* carried out.                                                            *)
THEOREM ReviewFirst == Spec => []ReviewBeforeCoverage
<1>1. StoreInv => ReviewBeforeCoverage
  BY DEF StoreInv
<1> QED
  BY <1>1, StoreInvariant, PTL

-----------------------------------------------------------------------------
(***************************************************************************)
(* Only four actions write a claim row; only Resume and ResumeNothing add  *)
(* to `approved`, only VerifyClaim to `attested`.                          *)
(***************************************************************************)
RowWrite ==
  \E w \in Workers, c \in Claims :
    \/ ClassifyClaim(w, c)
    \/ \E gates \in Verdict, objection \in BOOLEAN : VerifyClaim(w, c, gates, objection)
    \/ ScreenClaim(w, c)
    \/ AcceptClaim(w, c)

Answered ==
  \E w \in Workers, r \in Runs, accepts \in SUBSET Claims :
    Resume(w, r, accepts) \/ ResumeNothing(w, r, accepts)

LEMMA StepKinds ==
  ASSUME [Next]_vars
  PROVE  RowWrite \/ Answered \/ UNCHANGED <<row, attested, approved>>
<1>1. ASSUME NEW w \in Workers, PrepareStep(w) PROVE UNCHANGED <<row, attested, approved>>
  BY <1>1 DEF PrepareStep, Prepare, store, history
<1>2. ASSUME NEW w \in Workers, ClassifyStep(w)
      PROVE  RowWrite \/ UNCHANGED <<row, attested, approved>>
  BY <1>2 DEF ClassifyStep, SkipClause, EndClassify, RowWrite, store, history
<1>3. ASSUME NEW w \in Workers, VerifyStep(w)
      PROVE  RowWrite \/ UNCHANGED <<row, attested, approved>>
  BY <1>3 DEF VerifyStep, BeginScreen, EndScreen, RowWrite, store, history
<1>4. ASSUME NEW w \in Workers, ReviewStep(w)
      PROVE  RowWrite \/ UNCHANGED <<row, attested, approved>>
  BY <1>4 DEF ReviewStep, ReviewNothing, Interrupt, EndReview, RowWrite, store, history
<1>5. ASSUME NEW w \in Workers, CoverageStep(w) PROVE UNCHANGED <<row, attested, approved>>
  BY <1>5 DEF CoverageStep, EvaluateCoverage, store, history
<1>6. ASSUME NEW w \in Workers, Layer2Step(w) PROVE UNCHANGED <<row, attested, approved>>
  BY <1>6 DEF Layer2Step, BeginLayer2, SaveLayer2, EndLayer2, store, history
<1>7. ASSUME NEW w \in Workers, Answer(w) \/ Fail(w)
      PROVE  UNCHANGED <<row, attested, approved>>
  BY <1>7 DEF Answer, Fail, store, history
<1>8. ASSUME NEW w \in Workers, Request(w)
      PROVE  Answered \/ UNCHANGED <<row, attested, approved>>
  BY <1>8 DEF Request, Post, Answered, store, history
<1>9. \/ Crash
      \/ \E c \in Claims, d \in Decisions : SubmitReview(c, d)
      \/ UNCHANGED vars
      => UNCHANGED <<row, attested, approved>>
  BY DEF Crash, SubmitReview, vars, store, history
<1> QED
  BY <1>1, <1>2, <1>3, <1>4, <1>5, <1>6, <1>7, <1>8, <1>9 DEF Next, Execute

(* A stored claim becomes verified only by a verified report of the very   *)
(* invocation or by an accept entry for a claim that invocation holds      *)
(* flagged; an accept entry for a rejected claim has no effect.            *)
THEOREM PromotionGuarded == Spec => PromotionNeedsFlag
<1> DEFINE Guarded ==
      \A c \in Claims : row[c] # "verified" /\ row'[c] = "verified" =>
        \E w \in Workers :
          \/ pc[w] = "verify" /\ inv'[w].reports[c] = "verified"
          \/ pc[w] = "apply" /\ c \in inv[w].accepts /\ inv[w].reports[c] = "flagged"
<1>1. ASSUME TypeOK, StoreInv, [Next]_vars PROVE Guarded
  <2> SUFFICES ASSUME NEW d \in Claims, row[d] # "verified", row'[d] = "verified"
               PROVE  \E w \in Workers :
                        \/ pc[w] = "verify" /\ inv'[w].reports[d] = "verified"
                        \/ pc[w] = "apply" /\ d \in inv[w].accepts
                                          /\ inv[w].reports[d] = "flagged"
    OBVIOUS
  <2>1. RowWrite
    BY <1>1, StepKinds DEF Answered, Resume, ResumeNothing, store
  <2>2. PICK w \in Workers, c \in Claims :
          \/ ClassifyClaim(w, c)
          \/ \E gates \in Verdict, objection \in BOOLEAN : VerifyClaim(w, c, gates, objection)
          \/ ScreenClaim(w, c)
          \/ AcceptClaim(w, c)
    BY <2>1 DEF RowWrite
  <2>3. ~ClassifyClaim(w, c) /\ ~ScreenClaim(w, c)
    BY <1>1 DEF ClassifyClaim, ScreenClaim, TypeOK
  <2>4. CASE AcceptClaim(w, c)
    <3>1. d = c
      BY <1>1, <2>4 DEF AcceptClaim, TypeOK
    <3> QED
      BY <1>1, <2>4, <3>1 DEF AcceptClaim, StoreInv, LoopWork, NeedsReview
  <2>5. ASSUME NEW gates \in Verdict, NEW objection \in BOOLEAN,
               VerifyClaim(w, c, gates, objection)
        PROVE  pc[w] = "verify" /\ inv'[w].reports[d] = "verified"
    <3>1. d = c /\ Demote(gates, objection) = "verified"
      BY <1>1, <2>5 DEF VerifyClaim, TypeOK
    <3> QED
      BY <1>1, <2>5, <3>1 DEF VerifyClaim, Become, TypeOK, Invocation
  <2> QED
    BY <2>2, <2>3, <2>4, <2>5
<1>2. TypeOK /\ StoreInv /\ [Next]_vars => [Guarded]_vars
  BY <1>1
<1> QED
  BY <1>2, TypeCorrect, StoreInvariant, PTL DEF Spec, PromotionNeedsFlag

(* The pipeline, with all its invocations, checkpoints and restarts,       *)
(* implements the life cycle of a claim: each step records, judges,        *)
(* approves or promotes one claim, or changes nothing a reader of the      *)
(* store can see.                                                          *)
THEOREM LifecycleImplemented == Spec => LifecycleSpec
<1>1. Init => Lifecycle!Init
  BY DEF Init, Lifecycle!Init
<1>2. ASSUME TypeOK, StoreInv, [Next]_vars PROVE [Lifecycle!Next]_(Lifecycle!vars)
  <2>1. CASE RowWrite
    <3>1. PICK w \in Workers, c \in Claims :
            \/ ClassifyClaim(w, c)
            \/ \E gates \in Verdict, objection \in BOOLEAN : VerifyClaim(w, c, gates, objection)
            \/ ScreenClaim(w, c)
            \/ AcceptClaim(w, c)
      BY <2>1 DEF RowWrite
    <3>2. CASE ClassifyClaim(w, c)
      <4>1. Lifecycle!Record(c)
        BY <3>2 DEF ClassifyClaim, Lifecycle!Record, history
      <4> QED
        BY <4>1 DEF Lifecycle!Next
    <3>3. ASSUME NEW gates \in Verdict, NEW objection \in BOOLEAN,
                 VerifyClaim(w, c, gates, objection)
          PROVE  Lifecycle!Next
      <4>1. row[c] # "absent"
        BY <1>2, <3>3 DEF VerifyClaim, Produced, StoreInv, Backed
      <4>2. Demote(gates, objection) \in Verdict
        BY DEF Demote
      <4>3. Lifecycle!Judge(c, Demote(gates, objection))
        BY <3>3, <4>1 DEF VerifyClaim, Lifecycle!Judge
      <4> QED
        BY <4>2, <4>3 DEF Lifecycle!Next, Lifecycle!Verdict
    <3>4. CASE ScreenClaim(w, c)
      <4>1. row[c] # "absent"
        BY <1>2, <3>4 DEF ScreenClaim, Produced, StoreInv, LoopWork, Backed
      <4>2. Lifecycle!Judge(c, "flagged")
        BY <3>4, <4>1 DEF ScreenClaim, Lifecycle!Judge, history
      <4> QED
        BY <4>2 DEF Lifecycle!Next, Lifecycle!Verdict
    <3>5. CASE AcceptClaim(w, c)
      <4>1. row[c] # "absent" /\ c \in approved
        BY <1>2, <3>5 DEF AcceptClaim, NeedsReview, StoreInv, LoopWork, Backed
      <4>2. Lifecycle!Promote(c)
        BY <3>5, <4>1 DEF AcceptClaim, Lifecycle!Promote, history
      <4> QED
        BY <4>2 DEF Lifecycle!Next
    <3> QED
      BY <3>1, <3>2, <3>3, <3>4, <3>5
  <2>2. CASE Answered
    <3>1. PICK w \in Workers, r \in Runs, accepts \in SUBSET Claims :
            Resume(w, r, accepts) \/ ResumeNothing(w, r, accepts)
      BY <2>2 DEF Answered
    <3>2. Lifecycle!Approve(accepts)
      BY <3>1 DEF Resume, ResumeNothing, Lifecycle!Approve, store
    <3> QED
      BY <3>2 DEF Lifecycle!Next
  <2>3. CASE UNCHANGED <<row, attested, approved>>
    BY <2>3 DEF Lifecycle!vars
  <2> QED
    BY <1>2, <2>1, <2>2, <2>3, StepKinds
<1> QED
  BY <1>1, <1>2, TypeCorrect, StoreInvariant, PTL DEF Spec, LifecycleSpec, Lifecycle!Spec

-----------------------------------------------------------------------------
(***************************************************************************)
(* Invocations that take turns.  A step of worker w leaves the others      *)
(* idle, so only w's own state, the checkpoints with an open question and  *)
(* the rows have to be looked at.                                          *)
(***************************************************************************)

(* A checkpoint that is written says so, if there is a saver at all.       *)
LEMMA SavedAt ==
  ASSUME thread \in [Runs -> Checkpoint], inv' \in [Workers -> Invocation], NEW w \in Workers,
         NEW at \in {"midway", "paused", "done"}, Save(w, at), inv[w].run \in Runs
  PROVE  /\ \A r \in Runs :
              \/ thread'[r] = thread[r]
              \/ /\ r = inv[w].run /\ HasSaver(w) /\ thread'[r].at = at
                 /\ thread'[r].claims = inv'[w].claims
                 /\ thread'[r].reports = inv'[w].reports
         /\ HasSaver(w) => thread'[inv[w].run].at = at
  BY DEF Save, Checkpoint, Invocation

(* What a step of w must establish.                                        *)
LEMMA TurnStep ==
  ASSUME TypeOK, TypeOK', TurnInv, InTurn, InTurn', NEW w \in Workers,
         \A v \in Workers : v # w => pc'[v] = pc[v],
         pc[w] # "idle" \/ pc'[w] # "idle",
         BeforeReview(w)', AfterReview(w)', QuestionOf(w)',
         \A r \in Runs : thread'[r].at = "paused" => Resumable(thread[r])',
         UnverifiableWithheld'
  PROVE  TurnInv'
<1>1. ASSUME NEW v \in Workers PROVE (BeforeReview(v) /\ AfterReview(v) /\ QuestionOf(v))'
  <2>1. CASE v = w
    BY <2>1
  <2>2. CASE v # w
    <3>1. pc'[v] = "idle"
      BY <2>2 DEF InTurn
    <3> QED
      BY <3>1 DEF BeforeReview, AfterReview, QuestionOf
  <2> QED
    BY <2>1, <2>2
<1> QED
  BY <1>1 DEF TurnInv

(* Before and after the acceptances of a resume no question is open.       *)
LEMMA NothingOpen ==
  ASSUME TurnInv, InTurn, NEW w \in Workers, pc[w] \in Node \ {"apply"}
  PROVE  \A r \in Runs : thread[r].at # "paused"
  BY DEF TurnInv, InTurn, QuestionOf

(* A step of a node that leaves no question open.                          *)
LEMMA NodeStep ==
  ASSUME TypeOK, TypeOK', TurnInv, InTurn, InTurn', NEW w \in Workers,
         \A v \in Workers : v # w => pc'[v] = pc[v],
         pc[w] \in Node \ {"apply"},
         \A r \in Runs : thread'[r] = thread[r] \/ thread'[r].at # "paused",
         BeforeReview(w)', AfterReview(w)', QuestionOf(w)', UnverifiableWithheld'
  PROVE  TurnInv'
  BY NothingOpen, TurnStep

(* What is known of w in a node.                                           *)
LEMMA InNode ==
  ASSUME TypeOK, TurnInv, NEW w \in Workers, pc[w] # "idle"
  PROVE  /\ BeforeReview(w) /\ AfterReview(w) /\ QuestionOf(w)
         /\ inv[w].run \in Runs /\ inv[w].reply = "none" /\ GatesBehind(inv[w])
         /\ thread \in [Runs -> Checkpoint] /\ inv[w] \in Invocation
         /\ UnverifiableWithheld
  BY DEF TypeOK, TurnInv, QuestionOf

LEMMA InitTurn == Init => TurnInv
  BY DEF Init, TurnInv, BeforeReview, AfterReview, QuestionOf, NoCheckpoint,
         UnverifiableWithheld

LEMMA PrepareTurn ==
  ASSUME TypeOK, TypeOK', TurnInv, InTurn, InTurn', NEW w \in Workers, PrepareStep(w)
  PROVE  TurnInv'
<1>1. PICK clauses \in SUBSET Claims, failed \in BOOLEAN, degraded \in BOOLEAN :
        Prepare(w, clauses, failed, degraded)
  BY DEF PrepareStep
<1>2. /\ inv' = [inv EXCEPT ![w] = [inv[w] EXCEPT !.todo = clauses, !.errors = failed,
                                                  !.degraded = @ \/ degraded]]
      /\ pc[w] = "prepare" /\ pc' = [pc EXCEPT ![w] = "classify"]
      /\ Save(w, "midway")
      /\ UNCHANGED <<row, gateLog>>
  BY <1>1 DEF Prepare, Become, Goto, store
<1>3. /\ inv'[w].run = inv[w].run /\ inv'[w].reply = inv[w].reply
      /\ inv'[w].hitl = inv[w].hitl /\ inv'[w].resumed = inv[w].resumed
      /\ inv'[w].claims = inv[w].claims /\ inv'[w].reports = inv[w].reports
      /\ pc'[w] = "classify" /\ \A v \in Workers : v # w => pc'[v] = pc[v]
  BY <1>2 DEF TypeOK, Invocation
<1>4. /\ BeforeReview(w) /\ QuestionOf(w) /\ inv[w].run \in Runs /\ inv[w].reply = "none"
      /\ thread \in [Runs -> Checkpoint] /\ inv' \in [Workers -> Invocation]
      /\ UnverifiableWithheld
  BY <1>2, InNode DEF TypeOK
<1>5. BeforeReview(w)' /\ AfterReview(w)'
  BY <1>2, <1>3, <1>4 DEF BeforeReview, AfterReview
<1>6. QuestionOf(w)'
  <2>1. GatesBehind(inv[w])'
    BY <1>2, <1>3, <1>4 DEF BeforeReview, GatesBehind
  <2> QED
    BY <1>2, <1>3, <1>4, <2>1, SavedAt DEF QuestionOf, HasSaver
<1> QED
  BY <1>2, <1>3, <1>4, <1>5, <1>6, SavedAt, NodeStep DEF UnverifiableWithheld

LEMMA ClassifyTurn ==
  ASSUME TypeOK, TypeOK', TurnInv, InTurn, InTurn', NEW w \in Workers, ClassifyStep(w)
  PROVE  TurnInv'
<1>0. /\ pc[w] = "classify" /\ BeforeReview(w) /\ QuestionOf(w)
      /\ inv[w].run \in Runs /\ inv[w].reply = "none"
      /\ thread \in [Runs -> Checkpoint] /\ inv' \in [Workers -> Invocation]
      /\ UnverifiableWithheld
  <2>1. pc[w] = "classify"
    BY DEF ClassifyStep, ClassifyClaim, SkipClause, EndClassify
  <2> QED
    BY <2>1, InNode DEF TypeOK
<1>1. ASSUME NEW c \in Claims, ClassifyClaim(w, c) PROVE TurnInv'
  <2>1. /\ inv' = [inv EXCEPT ![w] = [inv[w] EXCEPT !.todo = @ \ {c}, !.claims[c] = "pending"]]
        /\ row' = [row EXCEPT ![c] = "pending"]
        /\ UNCHANGED <<pc, thread, gateLog>>
    BY <1>1 DEF ClassifyClaim, Become
  <2>2. /\ inv'[w].run = inv[w].run /\ inv'[w].reply = inv[w].reply
        /\ inv'[w].hitl = inv[w].hitl /\ inv'[w].resumed = inv[w].resumed
        /\ inv'[w].claims = [inv[w].claims EXCEPT ![c] = "pending"]
        /\ inv'[w].reports = inv[w].reports
    BY <2>1 DEF TypeOK, Invocation
  <2>3. BeforeReview(w)' /\ AfterReview(w)'
    BY <1>0, <2>1, <2>2 DEF TypeOK, Invocation, BeforeReview, AfterReview
  <2>4. QuestionOf(w)'
    BY <1>0, <2>1, <2>2 DEF QuestionOf, HasSaver, GatesBehind
  <2>5. UnverifiableWithheld'
    BY <1>0, <2>1 DEF TypeOK, UnverifiableWithheld
  <2> QED
    BY <1>0, <2>1, <2>3, <2>4, <2>5, NodeStep
<1>2. ASSUME NEW c \in Claims, NEW raised \in BOOLEAN, SkipClause(w, c, raised) PROVE TurnInv'
  <2>1. /\ inv' = [inv EXCEPT ![w] = [inv[w] EXCEPT !.todo = @ \ {c}, !.errors = @ \/ raised]]
        /\ UNCHANGED <<pc, thread, row, gateLog>>
    BY <1>2 DEF SkipClause, Become, store
  <2>2. /\ inv'[w].run = inv[w].run /\ inv'[w].reply = inv[w].reply
        /\ inv'[w].hitl = inv[w].hitl /\ inv'[w].resumed = inv[w].resumed
        /\ inv'[w].claims = inv[w].claims /\ inv'[w].reports = inv[w].reports
    BY <2>1 DEF TypeOK, Invocation
  <2>3. BeforeReview(w)' /\ AfterReview(w)'
    BY <1>0, <2>1, <2>2 DEF BeforeReview, AfterReview
  <2>4. QuestionOf(w)'
    BY <1>0, <2>1, <2>2 DEF QuestionOf, HasSaver, GatesBehind
  <2> QED
    BY <1>0, <2>1, <2>3, <2>4, NodeStep DEF UnverifiableWithheld
<1>3. CASE EndClassify(w)
  <2>1. /\ pc' = [pc EXCEPT ![w] = "verify"] /\ Save(w, "midway")
        /\ UNCHANGED <<inv, row, gateLog>>
    BY <1>3 DEF EndClassify, Goto, store
  <2>2. pc'[w] = "verify" /\ \A v \in Workers : v # w => pc'[v] = pc[v]
    BY <2>1 DEF TypeOK
  <2>3. BeforeReview(w)' /\ AfterReview(w)'
    BY <1>0, <2>1, <2>2 DEF BeforeReview, AfterReview
  <2>4. QuestionOf(w)'
    BY <1>0, <2>1, <2>2, SavedAt DEF QuestionOf, HasSaver, GatesBehind
  <2> QED
    BY <1>0, <2>1, <2>2, <2>3, <2>4, SavedAt, NodeStep DEF UnverifiableWithheld
<1> QED
  BY <1>1, <1>2, <1>3 DEF ClassifyStep

LEMMA VerifyTurn ==
  ASSUME TypeOK, TypeOK', TurnInv, InTurn, InTurn', NEW w \in Workers, VerifyStep(w)
  PROVE  TurnInv'
<1>0. /\ pc[w] \in {"verify", "screen"} /\ BeforeReview(w) /\ QuestionOf(w)
      /\ inv[w].run \in Runs /\ inv[w].reply = "none" /\ GatesBehind(inv[w])
      /\ thread \in [Runs -> Checkpoint] /\ inv' \in [Workers -> Invocation]
      /\ UnverifiableWithheld
  <2>1. pc[w] \in {"verify", "screen"}
    BY DEF VerifyStep, VerifyClaim, BeginScreen, ScreenClaim, EndScreen
  <2> QED
    BY <2>1, InNode DEF TypeOK
<1>1. ASSUME NEW c \in Claims, NEW gates \in Verdict, NEW objection \in BOOLEAN,
             VerifyClaim(w, c, gates, objection)
      PROVE  TurnInv'
  <2> DEFINE verdict == Demote(gates, objection)
  <2>1. /\ inv' = [inv EXCEPT ![w] = [inv[w] EXCEPT !.reports[c] = verdict]]
        /\ row' = [row EXCEPT ![c] = verdict]
        /\ gateLog' = [gateLog EXCEPT ![c] = gates]
        /\ pc[w] = "verify"
        /\ UNCHANGED <<pc, thread>>
    BY <1>1 DEF VerifyClaim, Become
  <2>2. verdict \in Verdict /\ (gates = "rejected" => verdict = "rejected")
    BY DEF Demote
  <2> HIDE DEF verdict
  <2>3. /\ inv'[w].run = inv[w].run /\ inv'[w].reply = inv[w].reply
        /\ inv'[w].hitl = inv[w].hitl /\ inv'[w].resumed = inv[w].resumed
        /\ inv'[w].claims = inv[w].claims
        /\ inv'[w].reports = [inv[w].reports EXCEPT ![c] = verdict]
    BY <2>1 DEF TypeOK, Invocation
  <2>4. BeforeReview(w)' /\ AfterReview(w)'
    BY <1>0, <2>1, <2>2, <2>3 DEF TypeOK, Invocation, BeforeReview, AfterReview
  <2>5. QuestionOf(w)'
    <3>1. GatesBehind(inv[w])'
      BY <1>0, <2>1, <2>2, <2>3 DEF TypeOK, Invocation, GatesBehind
    <3> QED
      BY <1>0, <2>1, <2>3, <3>1 DEF QuestionOf, HasSaver
  <2>6. UnverifiableWithheld'
    BY <1>0, <2>1, <2>2 DEF TypeOK, UnverifiableWithheld
  <2> QED
    BY <1>0, <2>1, <2>4, <2>5, <2>6, NodeStep
<1>2. ASSUME NEW useless \in SUBSET Pillars, BeginScreen(w, useless) PROVE TurnInv'
  <2> DEFINE todo == {c \in WithVerdict(w, "verified") : PillarOf[c] \in useless}
  <2>1. /\ inv' = [inv EXCEPT ![w] = [inv[w] EXCEPT !.todo = todo]]
        /\ pc[w] = "verify" /\ pc' = [pc EXCEPT ![w] = "screen"]
        /\ \A c \in Produced(w) : inv[w].reports[c] # "none"
        /\ UNCHANGED <<thread, row, gateLog>>
    BY <1>2 DEF BeginScreen, Become, Goto, store
  <2>2. todo \subseteq WithVerdict(w, "verified")
    OBVIOUS
  <2> HIDE DEF todo
  <2>3. /\ inv'[w].run = inv[w].run /\ inv'[w].reply = inv[w].reply
        /\ inv'[w].hitl = inv[w].hitl /\ inv'[w].resumed = inv[w].resumed
        /\ inv'[w].claims = inv[w].claims /\ inv'[w].reports = inv[w].reports
        /\ inv'[w].todo = todo
        /\ pc'[w] = "screen" /\ \A v \in Workers : v # w => pc'[v] = pc[v]
    BY <2>1 DEF TypeOK, Invocation
  <2>4. BeforeReview(w)' /\ AfterReview(w)'
    BY <1>0, <2>1, <2>2, <2>3 DEF BeforeReview, AfterReview, Produced, WithVerdict
  <2>5. QuestionOf(w)'
    BY <1>0, <2>1, <2>3 DEF QuestionOf, HasSaver, GatesBehind
  <2> QED
    BY <1>0, <2>1, <2>3, <2>4, <2>5, NodeStep DEF UnverifiableWithheld
<1>3. ASSUME NEW c \in Claims, ScreenClaim(w, c) PROVE TurnInv'
  <2>1. /\ inv' = [inv EXCEPT ![w] = [inv[w] EXCEPT !.todo = @ \ {c},
                                                    !.reports[c] = Demote(@, TRUE)]]
        /\ row' = [row EXCEPT ![c] = "flagged"]
        /\ pc[w] = "screen" /\ c \in inv[w].todo
        /\ UNCHANGED <<pc, thread, gateLog>>
    BY <1>3 DEF ScreenClaim, Become
  <2>2. inv[w].reports[c] = "verified"
    BY <1>0, <2>1 DEF BeforeReview, WithVerdict
  <2>3. /\ inv'[w].run = inv[w].run /\ inv'[w].reply = inv[w].reply
        /\ inv'[w].hitl = inv[w].hitl /\ inv'[w].resumed = inv[w].resumed
        /\ inv'[w].claims = inv[w].claims
        /\ inv'[w].reports = [inv[w].reports EXCEPT ![c] = "flagged"]
        /\ inv'[w].todo = inv[w].todo \ {c}
    BY <2>1, <2>2 DEF TypeOK, Invocation, Demote
  <2>4. \A d \in Claims : /\ inv'[w].reports[d] = IF d = c THEN "flagged" ELSE inv[w].reports[d]
                          /\ row'[d] = IF d = c THEN "flagged" ELSE row[d]
    <3>1. inv[w].reports \in [Claims -> NoneOr(Verdict)] /\ row \in [Claims -> RowStatus]
      BY DEF TypeOK, Invocation
    <3>2. \A d \in Claims : row'[d] = IF d = c THEN "flagged" ELSE row[d]
      BY <2>1, <3>1
    <3>3. inv'[w].reports = [inv[w].reports EXCEPT ![c] = "flagged"]
      BY <2>3
    <3> QED
      BY <3>1, <3>2, <3>3
  <2>5. BeforeReview(w)' /\ AfterReview(w)'
    <3>1. inv'[w].todo \subseteq WithVerdict(w, "verified")'
      BY <1>0, <2>1, <2>3, <2>4 DEF BeforeReview, WithVerdict, Produced
    <3>2. pc'[w] = "screen" /\ pc[w] = "screen" /\ ~inv'[w].resumed
      BY <1>0, <2>1, <2>3 DEF BeforeReview
    <3>3. \A d \in Claims : /\ inv'[w].claims[d] # "verified"
                            /\ inv'[w].claims[d] # "none" => row'[d] = inv'[w].reports[d]
      BY <1>0, <2>3, <2>4, <3>2 DEF BeforeReview
    <3> QED
      BY <3>1, <3>2, <3>3 DEF BeforeReview, AfterReview
  <2>6. QuestionOf(w)'
    <3>1. GatesBehind(inv[w])'
      BY <1>0, <2>1, <2>2, <2>4 DEF GatesBehind
    <3> QED
      BY <1>0, <2>1, <2>3, <3>1 DEF QuestionOf, HasSaver
  <2>7. UnverifiableWithheld'
    BY <1>0, <2>1 DEF TypeOK, UnverifiableWithheld
  <2> QED
    BY <1>0, <2>1, <2>5, <2>6, <2>7, NodeStep
<1>4. CASE EndScreen(w)
  <2>1. /\ pc[w] = "screen"
        /\ pc' = [pc EXCEPT ![w] = IF inv[w].hitl THEN "review" ELSE "coverage"]
        /\ Save(w, "midway")
        /\ UNCHANGED <<inv, row, gateLog>>
    BY <1>4 DEF EndScreen, Goto, store
  <2>2. /\ pc'[w] = IF inv[w].hitl THEN "review" ELSE "coverage"
        /\ \A v \in Workers : v # w => pc'[v] = pc[v]
    BY <2>1 DEF TypeOK
  <2>3. BeforeReview(w)' /\ AfterReview(w)'
    BY <1>0, <2>1, <2>2 DEF BeforeReview, AfterReview, InStep, Produced, StatusBy
  <2>4. QuestionOf(w)'
    BY <1>0, <2>1, <2>2, SavedAt DEF QuestionOf, HasSaver, GatesBehind
  <2> QED
    BY <1>0, <2>1, <2>2, <2>3, <2>4, SavedAt, NodeStep DEF UnverifiableWithheld
<1> QED
  BY <1>1, <1>2, <1>3, <1>4 DEF VerifyStep

LEMMA ReviewTurn ==
  ASSUME TypeOK, TypeOK', StoreInv, TurnInv, InTurn, InTurn', NEW w \in Workers, ReviewStep(w)
  PROVE  TurnInv'
<1>0. /\ pc[w] \in {"review", "apply"} /\ BeforeReview(w) /\ AfterReview(w) /\ QuestionOf(w)
      /\ inv[w].run \in Runs /\ inv[w].reply = "none" /\ GatesBehind(inv[w])
      /\ thread \in [Runs -> Checkpoint] /\ inv' \in [Workers -> Invocation]
      /\ UnverifiableWithheld
  <2>1. pc[w] \in {"review", "apply"}
    BY DEF ReviewStep, ReviewNothing, Interrupt, AcceptClaim, EndReview
  <2> QED
    BY <2>1, InNode DEF TypeOK
<1>1. CASE ReviewNothing(w)
  <2>1. /\ pc[w] = "review" /\ pc' = [pc EXCEPT ![w] = "coverage"] /\ Save(w, "midway")
        /\ UNCHANGED <<inv, row, gateLog>>
    BY <1>1 DEF ReviewNothing, Goto, store
  <2>2. pc'[w] = "coverage" /\ \A v \in Workers : v # w => pc'[v] = pc[v]
    BY <2>1 DEF TypeOK
  <2>3. BeforeReview(w)' /\ AfterReview(w)'
    BY <1>0, <2>1, <2>2 DEF BeforeReview, AfterReview, InStep, Produced, StatusBy
  <2>4. QuestionOf(w)'
    BY <1>0, <2>1, <2>2, SavedAt DEF QuestionOf, HasSaver, GatesBehind
  <2> QED
    BY <1>0, <2>1, <2>2, <2>3, <2>4, SavedAt, NodeStep DEF UnverifiableWithheld
<1>2. CASE Interrupt(w)
  <2>1. /\ pc[w] = "review" /\ pc' = [pc EXCEPT ![w] = "reply"] /\ Save(w, "paused")
        /\ UNCHANGED <<inv, row, gateLog, approved>>
    BY <1>2 DEF Interrupt, Goto, store, history
  <2>2. pc'[w] = "reply" /\ \A v \in Workers : v # w => pc'[v] = pc[v]
    BY <2>1 DEF TypeOK
  <2>3. BeforeReview(w)' /\ AfterReview(w)'
    BY <2>2 DEF BeforeReview, AfterReview
  <2>4. HasSaver(w) /\ HasSaver(w)'
    BY <1>0, <2>1 DEF QuestionOf, HasSaver
  <2>5. QuestionOf(w)'
    BY <1>0, <2>1, <2>2, <2>4, SavedAt DEF QuestionOf, GatesBehind
  <2>6. \A r \in Runs : thread[r].at # "paused"
    BY <1>0, <2>1, NothingOpen
  <2>7. ASSUME NEW r \in Runs, thread'[r].at = "paused" PROVE Resumable(thread[r])'
    <3>1. thread'[r].claims = inv[w].claims /\ thread'[r].reports = inv[w].reports
      BY <1>0, <2>1, <2>6, <2>7, SavedAt
    <3>2. GatesBehind(thread[r])'
      BY <1>0, <2>1, <3>1 DEF GatesBehind
    <3> QED
      BY <1>0, <2>1, <3>1, <3>2 DEF Resumable, BeforeReview, StatusBy
  <2> QED
    BY <1>0, <2>1, <2>2, <2>3, <2>5, <2>7, TurnStep DEF UnverifiableWithheld
<1>3. ASSUME NEW c \in Claims, AcceptClaim(w, c) PROVE TurnInv'
  <2>1. /\ inv' = [inv EXCEPT ![w] = [inv[w] EXCEPT !.todo = @ \ {c},
                                                    !.claims[c] = "verified"]]
        /\ row' = [row EXCEPT ![c] = "verified"]
        /\ pc[w] = "apply" /\ c \in inv[w].todo
        /\ UNCHANGED <<pc, thread, gateLog, approved>>
    BY <1>3 DEF AcceptClaim, Become, history
  <2>2. /\ inv'[w].run = inv[w].run /\ inv'[w].reply = inv[w].reply
        /\ inv'[w].hitl = inv[w].hitl /\ inv'[w].resumed = inv[w].resumed
        /\ inv'[w].reports = inv[w].reports
        /\ inv'[w].todo = inv[w].todo \ {c}
        /\ \A d \in Claims :
             /\ inv'[w].claims[d] = IF d = c THEN "verified" ELSE inv[w].claims[d]
             /\ row'[d] = IF d = c THEN "verified" ELSE row[d]
    BY <2>1 DEF TypeOK, Invocation
  <2>3. /\ c \in NeedsReview(inv[w]) /\ c \in approved
        /\ c \in NeedsReview(thread[inv[w].run])
    BY <1>0, <2>1 DEF StoreInv, LoopWork, QuestionOf
  <2>4. BeforeReview(w)'
    BY <2>1 DEF BeforeReview
  <2>5. AfterReview(w)'
    BY <1>0, <2>1, <2>2, <2>3
       DEF AfterReview, InStep, Produced, StatusBy, AcceptedBefore, NeedsReview
  <2>6. QuestionOf(w)'
    BY <1>0, <2>1, <2>2 DEF QuestionOf, HasSaver, GatesBehind
  <2>7. UnverifiableWithheld'
    BY <1>0, <2>1, <2>2, <2>3 DEF UnverifiableWithheld, NeedsReview, GatesBehind
  <2>8. ASSUME NEW r \in Runs, thread'[r].at = "paused" PROVE Resumable(thread[r])'
    <3>1. Resumable(thread[r]) /\ r = inv[w].run
      BY <2>1, <2>8 DEF TurnInv, InTurn
    <3>2. GatesBehind(thread[r])'
      BY <2>1, <3>1 DEF Resumable, GatesBehind
    <3> QED
      BY <2>1, <2>2, <2>3, <3>1, <3>2 DEF Resumable, StatusBy, AcceptedBefore, NeedsReview
  <2> QED
    BY <2>1, <2>4, <2>5, <2>6, <2>7, <2>8, TurnStep
<1>4. CASE EndReview(w)
  <2>1. /\ pc[w] = "apply" /\ pc' = [pc EXCEPT ![w] = "coverage"] /\ Save(w, "midway")
        /\ UNCHANGED <<inv, row, gateLog, approved>>
    BY <1>4 DEF EndReview, Goto, store, history
  <2>2. pc'[w] = "coverage" /\ \A v \in Workers : v # w => pc'[v] = pc[v]
    BY <2>1 DEF TypeOK
  <2>3. BeforeReview(w)' /\ AfterReview(w)'
    BY <1>0, <2>1, <2>2
       DEF BeforeReview, AfterReview, InStep, Produced, StatusBy, AcceptedBefore, NeedsReview
  <2>4. QuestionOf(w)'
    BY <1>0, <2>1, <2>2, SavedAt DEF QuestionOf, HasSaver, GatesBehind
  <2>5. ASSUME NEW r \in Runs, thread'[r].at = "paused" PROVE Resumable(thread[r])'
    <3>1. thread'[r] = thread[r]
      BY <1>0, <2>1, <2>5, SavedAt
    <3>2. Resumable(thread[r])
      BY <2>5, <3>1 DEF TurnInv
    <3> QED
      BY <2>1, <3>1, <3>2 DEF Resumable, GatesBehind, StatusBy, AcceptedBefore, NeedsReview
  <2> QED
    BY <1>0, <2>1, <2>2, <2>3, <2>4, <2>5, TurnStep DEF UnverifiableWithheld
<1> QED
  BY <1>1, <1>2, <1>3, <1>4 DEF ReviewStep

(* A step of "coverage" or "layer2" that leaves claims and reports alone.  *)
LEMMA TailStep ==
  ASSUME TypeOK, TypeOK', TurnInv, InTurn, InTurn', NEW w \in Workers,
         pc[w] \in {"coverage", "layer2"}, pc'[w] \in {"coverage", "layer2", "reply"},
         \A v \in Workers : v # w => pc'[v] = pc[v],
         inv'[w].run = inv[w].run, inv'[w].reply = inv[w].reply,
         inv'[w].hitl = inv[w].hitl, inv'[w].resumed = inv[w].resumed,
         inv'[w].claims = inv[w].claims, inv'[w].reports = inv[w].reports,
         pc'[w] # "coverage" => \A i \in Indicators : inv'[w].cells[i] # "none",
         thread' = thread \/ \E at \in {"midway", "done"} : Save(w, at),
         UNCHANGED <<row, gateLog, approved>>
  PROVE  TurnInv'
<1>1. /\ BeforeReview(w) /\ AfterReview(w) /\ QuestionOf(w)
      /\ inv[w].run \in Runs /\ inv[w].reply = "none" /\ GatesBehind(inv[w])
      /\ thread \in [Runs -> Checkpoint] /\ inv' \in [Workers -> Invocation]
      /\ UnverifiableWithheld
  BY InNode DEF TypeOK
<1>2. \A r \in Runs : thread'[r].at # "paused"
  <2>1. \A r \in Runs : thread[r].at # "paused"
    BY NothingOpen
  <2> QED
    BY <1>1, <2>1, SavedAt
<1>3. BeforeReview(w)' /\ AfterReview(w)'
  BY <1>1 DEF BeforeReview, AfterReview, InStep, Produced, StatusBy, AcceptedBefore, NeedsReview
<1>4. QuestionOf(w)'
  <2>1. GatesBehind(inv[w])'
    BY <1>1 DEF GatesBehind
  <2> QED
    BY <1>1, <1>2, <2>1 DEF QuestionOf
<1> QED
  BY <1>1, <1>2, <1>3, <1>4, NodeStep DEF UnverifiableWithheld

LEMMA CoverageTurn ==
  ASSUME TypeOK, TypeOK', TurnInv, InTurn, InTurn', NEW w \in Workers, CoverageStep(w)
  PROVE  TurnInv'
<1>1. PICK i \in Indicators, recallKnown \in BOOLEAN : EvaluateCoverage(w, i, recallKnown)
  BY DEF CoverageStep
<1> DEFINE cell == CoverageOf(w, i, recallKnown)
<1>2. /\ inv' = [inv EXCEPT ![w] = [inv[w] EXCEPT !.cells[i] = cell]]
      /\ pc[w] = "coverage"
      /\ UNCHANGED <<pc, thread, row, gateLog, approved>>
  BY <1>1 DEF EvaluateCoverage, Become, history
<1> HIDE DEF cell
<1>3. /\ inv'[w].run = inv[w].run /\ inv'[w].reply = inv[w].reply
      /\ inv'[w].hitl = inv[w].hitl /\ inv'[w].resumed = inv[w].resumed
      /\ inv'[w].claims = inv[w].claims /\ inv'[w].reports = inv[w].reports
  BY <1>2 DEF TypeOK, Invocation
<1> QED
  BY <1>2, <1>3, TailStep

LEMMA Layer2Turn ==
  ASSUME TypeOK, TypeOK', TurnInv, InTurn, InTurn', NEW w \in Workers, Layer2Step(w)
  PROVE  TurnInv'
<1>1. CASE BeginLayer2(w)
  <2>1. PICK verified : inv' = [inv EXCEPT ![w] = [inv[w] EXCEPT !.todo = verified]]
    BY <1>1 DEF BeginLayer2, Become
  <2>2. /\ pc' = [pc EXCEPT ![w] = "layer2"] /\ pc[w] = "coverage"
        /\ \A i \in Indicators : inv[w].cells[i] # "none"
        /\ Save(w, "midway")
        /\ UNCHANGED <<row, gateLog, approved>>
    BY <1>1 DEF BeginLayer2, Goto, store, history
  <2>3. /\ inv'[w].run = inv[w].run /\ inv'[w].reply = inv[w].reply
        /\ inv'[w].hitl = inv[w].hitl /\ inv'[w].resumed = inv[w].resumed
        /\ inv'[w].claims = inv[w].claims /\ inv'[w].reports = inv[w].reports
        /\ inv'[w].cells = inv[w].cells
        /\ pc'[w] = "layer2" /\ \A v \in Workers : v # w => pc'[v] = pc[v]
    BY <2>1, <2>2 DEF TypeOK, Invocation
  <2> QED
    BY <2>2, <2>3, TailStep
<1>2. ASSUME NEW c \in Claims, SaveLayer2(w, c) PROVE TurnInv'
  <2>1. /\ inv' = [inv EXCEPT ![w] = [inv[w] EXCEPT !.todo = @ \ {c}]]
        /\ pc[w] = "layer2"
        /\ UNCHANGED <<pc, thread, row, gateLog, approved>>
    BY <1>2 DEF SaveLayer2, Become, history
  <2>2. /\ inv'[w].run = inv[w].run /\ inv'[w].reply = inv[w].reply
        /\ inv'[w].hitl = inv[w].hitl /\ inv'[w].resumed = inv[w].resumed
        /\ inv'[w].claims = inv[w].claims /\ inv'[w].reports = inv[w].reports
        /\ inv'[w].cells = inv[w].cells
    BY <2>1 DEF TypeOK, Invocation
  <2>3. \A i \in Indicators : inv[w].cells[i] # "none"
    BY <2>1 DEF TurnInv, QuestionOf
  <2> QED
    BY <2>1, <2>2, <2>3, TailStep
<1>3. CASE EndLayer2(w)
  <2>1. PICK recs : /\ inv' = [inv EXCEPT ![w] = [inv[w] EXCEPT !.recs = recs]]
                    /\ pc' = [pc EXCEPT ![w] = "reply"] /\ pc[w] = "layer2"
                    /\ Save(w, "done")
                    /\ UNCHANGED <<row, gateLog, approved>>
    BY <1>3 DEF EndLayer2, Become, Goto, store, history
  <2>2. /\ inv'[w].run = inv[w].run /\ inv'[w].reply = inv[w].reply
        /\ inv'[w].hitl = inv[w].hitl /\ inv'[w].resumed = inv[w].resumed
        /\ inv'[w].claims = inv[w].claims /\ inv'[w].reports = inv[w].reports
        /\ inv'[w].cells = inv[w].cells
        /\ pc'[w] = "reply" /\ \A v \in Workers : v # w => pc'[v] = pc[v]
    BY <2>1 DEF TypeOK, Invocation
  <2>3. \A i \in Indicators : inv[w].cells[i] # "none"
    BY <2>1 DEF TurnInv, QuestionOf
  <2> QED
    BY <2>1, <2>2, <2>3, TailStep
<1> QED
  BY <1>1, <1>2, <1>3 DEF Layer2Step

(* A checkpoint that is left alone with rows and gates remains resumable.  *)
LEMMA StillResumable ==
  ASSUME TurnInv, NEW r \in Runs, thread[r].at = "paused", thread'[r] = thread[r],
         UNCHANGED <<row, gateLog>>, approved \subseteq approved'
  PROVE  Resumable(thread[r])'
<1>1. Resumable(thread[r])
  BY DEF TurnInv
<1> QED
  BY <1>1 DEF Resumable, GatesBehind, StatusBy, AcceptedBefore, NeedsReview

LEMMA AnswerTurn ==
  ASSUME TypeOK, TypeOK', TurnInv, InTurn, InTurn', NEW w \in Workers, Answer(w) \/ Fail(w)
  PROVE  TurnInv'
<1>1. /\ pc[w] # "idle" /\ pc' = [pc EXCEPT ![w] = "idle"]
      /\ UNCHANGED <<thread, row, gateLog, approved>>
  BY DEF Answer, Fail, Goto, store, history
<1>2. pc'[w] = "idle" /\ \A v \in Workers : v # w => pc'[v] = pc[v]
  BY <1>1 DEF TypeOK
<1>3. BeforeReview(w)' /\ AfterReview(w)' /\ QuestionOf(w)'
  BY <1>2 DEF BeforeReview, AfterReview, QuestionOf
<1>4. UnverifiableWithheld'
  BY <1>1 DEF TurnInv, UnverifiableWithheld
<1> QED
  BY <1>1, <1>2, <1>3, <1>4, StillResumable, TurnStep

LEMMA PostTurn ==
  ASSUME TypeOK, TypeOK', TurnInv, InTurn, InTurn', NEW w \in Workers, NEW r \in Runs,
         NEW hitl \in HitlModes, Post(w, r, hitl)
  PROVE  TurnInv'
<1>1. PICK recs, degraded :
        inv' = [inv EXCEPT ![w] = [Fresh EXCEPT !.run = r, !.hitl = hitl,
                                                !.recs = recs, !.degraded = degraded]]
  BY DEF Post, Become
<1>2. /\ pc' = [pc EXCEPT ![w] = "prepare"]
      /\ UNCHANGED <<row, gateLog, approved>>
  BY DEF Post, Goto, store, history
<1>3. /\ inv'[w].run = r /\ inv'[w].hitl = hitl /\ inv'[w].reply = "none"
      /\ ~inv'[w].resumed
      /\ \A c \in Claims : inv'[w].claims[c] = "none" /\ inv'[w].reports[c] = "none"
      /\ pc'[w] = "prepare" /\ \A v \in Workers : v # w => pc'[v] = pc[v]
  BY <1>1, <1>2 DEF TypeOK, Fresh
<1>4. /\ \A q \in Runs : thread'[q] = thread[q] \/ thread'[q].at = "midway"
      /\ hitl => thread'[r].at = "midway"
  BY DEF Post, TypeOK, NoCheckpoint
<1>5. BeforeReview(w)' /\ AfterReview(w)'
  BY <1>3 DEF BeforeReview, AfterReview
<1>6. QuestionOf(w)'
  BY <1>3, <1>4 DEF QuestionOf, GatesBehind, HasSaver
<1>7. \A q \in Runs : thread'[q].at = "paused" => Resumable(thread[q])'
  BY <1>2, <1>4, StillResumable
<1>8. UnverifiableWithheld'
  BY <1>2 DEF TurnInv, UnverifiableWithheld
<1> QED
  BY <1>3, <1>5, <1>6, <1>7, <1>8, TurnStep

LEMMA ResumeTurn ==
  ASSUME TypeOK, TypeOK', TurnInv, InTurn, InTurn', NEW w \in Workers, NEW r \in Runs,
         NEW accepts \in SUBSET Claims, Resume(w, r, accepts)
  PROVE  TurnInv'
<1> DEFINE state == [Fresh EXCEPT !.run = r, !.resumed = TRUE, !.hitl = TRUE,
                      !.claims = thread[r].claims, !.reports = thread[r].reports,
                      !.recs = thread[r].recs, !.errors = thread[r].errors,
                      !.degraded = thread[r].degraded, !.asked = thread[r].asked,
                      !.accepts = accepts, !.todo = NeedsReview(thread[r]) \cap accepts]
<1>1. /\ inv' = [inv EXCEPT ![w] = state]
      /\ pc' = [pc EXCEPT ![w] = "apply"] /\ approved' = approved \cup accepts
      /\ thread[r].at = "paused"
      /\ UNCHANGED <<thread, row, gateLog>>
  BY DEF Resume, Become, Goto, store
<1>2. /\ state.claims = thread[r].claims /\ state.reports = thread[r].reports
      /\ state.resumed /\ state.run = r /\ state.reply = "none"
      /\ state.todo \subseteq NeedsReview(thread[r])
  BY DEF Fresh
<1> HIDE DEF state
<1>3. /\ inv'[w] = state /\ pc'[w] = "apply"
      /\ \A v \in Workers : v # w => pc'[v] = pc[v]
  BY <1>1 DEF TypeOK
<1>4. \A q \in Runs : thread'[q].at = "paused" => Resumable(thread[q])'
  BY <1>1, StillResumable
<1>5. Resumable(thread[r])'
  BY <1>1, <1>4
<1>6. BeforeReview(w)'
  BY <1>3 DEF BeforeReview
<1>7. AfterReview(w)'
  BY <1>1, <1>2, <1>3, <1>5
     DEF AfterReview, InStep, Produced, StatusBy, Resumable, AcceptedBefore, NeedsReview
<1>8. QuestionOf(w)'
  <2>1. GatesBehind(inv[w])'
    BY <1>1, <1>2, <1>3, <1>5 DEF Resumable, GatesBehind
  <2> QED
    BY <1>1, <1>2, <1>3, <2>1 DEF QuestionOf, NeedsReview
<1>9. UnverifiableWithheld'
  BY <1>1 DEF TurnInv, UnverifiableWithheld
<1> QED
  BY <1>3, <1>4, <1>6, <1>7, <1>8, <1>9, TurnStep

LEMMA ResumeNothingTurn ==
  ASSUME TypeOK, TypeOK', TurnInv, NEW w \in Workers, NEW r \in Runs,
         NEW accepts \in SUBSET Claims, ResumeNothing(w, r, accepts)
  PROVE  TurnInv'
<1>1. /\ inv' = [inv EXCEPT ![w] = [Fresh EXCEPT !.reply = "failed"]]
      /\ pc[w] = "idle" /\ approved' = approved \cup accepts
      /\ UNCHANGED <<pc, thread, row, gateLog>>
  BY DEF ResumeNothing, Become, store
<1>2. ASSUME NEW v \in Workers PROVE (BeforeReview(v) /\ AfterReview(v) /\ QuestionOf(v))'
  <2>1. CASE v = w
    BY <1>1, <2>1 DEF BeforeReview, AfterReview, QuestionOf
  <2>2. CASE v # w
    <3>1. inv'[v] = inv[v] /\ pc'[v] = pc[v]
      BY <1>1, <2>2 DEF TypeOK
    <3>2. BeforeReview(v) /\ AfterReview(v) /\ QuestionOf(v)
      BY DEF TurnInv
    <3>3. BeforeReview(v)'
      BY <1>1, <3>1, <3>2 DEF BeforeReview, WithVerdict, Produced
    <3>4. AfterReview(v)'
      BY <1>1, <3>1, <3>2
         DEF AfterReview, InStep, Produced, StatusBy, AcceptedBefore, NeedsReview
    <3>5. QuestionOf(v)'
      BY <1>1, <3>1, <3>2 DEF QuestionOf, HasSaver, GatesBehind, NeedsReview
    <3> QED
      BY <3>3, <3>4, <3>5
  <2> QED
    BY <2>1, <2>2
<1>3. \A q \in Runs : thread'[q].at = "paused" => Resumable(thread[q])'
  BY <1>1, StillResumable
<1> QED
  BY <1>1, <1>2, <1>3 DEF TurnInv, UnverifiableWithheld

LEMMA OutsideTurn ==
  ASSUME TypeOK, TurnInv
  PROVE  /\ Crash => TurnInv'
         /\ \A c \in Claims, d \in Decisions : SubmitReview(c, d) => TurnInv'
         /\ UNCHANGED vars => TurnInv'
<1>1. ASSUME Crash PROVE TurnInv'
  <2>1. /\ \A w \in Workers : pc'[w] = "idle"
        /\ \A r \in Runs : thread'[r] = thread[r] \/ thread'[r].at = "none"
        /\ UNCHANGED <<row, gateLog, approved>>
    BY <1>1 DEF Crash, NoCheckpoint, store, history
  <2>2. \A w \in Workers : (BeforeReview(w) /\ AfterReview(w) /\ QuestionOf(w))'
    BY <2>1 DEF BeforeReview, AfterReview, QuestionOf
  <2>3. \A r \in Runs : thread'[r].at = "paused" => Resumable(thread[r])'
    BY <2>1, StillResumable
  <2> QED
    BY <2>1, <2>2, <2>3 DEF TurnInv, UnverifiableWithheld
<1>2. ASSUME UNCHANGED <<pc, inv, thread, row, gateLog, approved>> PROVE TurnInv'
  <2>1. ASSUME NEW w \in Workers PROVE (BeforeReview(w) /\ AfterReview(w) /\ QuestionOf(w))'
    <3>1. BeforeReview(w) /\ AfterReview(w) /\ QuestionOf(w)
      BY DEF TurnInv
    <3>2. BeforeReview(w)' /\ AfterReview(w)'
      BY <1>2, <3>1 DEF BeforeReview, AfterReview, InStep, Produced, WithVerdict, StatusBy,
                        AcceptedBefore, NeedsReview
    <3>3. QuestionOf(w)'
      BY <1>2, <3>1 DEF QuestionOf, HasSaver, GatesBehind, NeedsReview
    <3> QED
      BY <3>2, <3>3
  <2>2. \A r \in Runs : thread'[r].at = "paused" => Resumable(thread[r])'
    BY <1>2, StillResumable
  <2> QED
    BY <1>2, <2>1, <2>2 DEF TurnInv, UnverifiableWithheld
<1>3. ASSUME NEW c \in Claims, NEW d \in Decisions, SubmitReview(c, d) PROVE TurnInv'
  BY <1>2, <1>3 DEF SubmitReview, store, history
<1>4. UNCHANGED vars => TurnInv'
  BY <1>2 DEF vars, store, history
<1> QED
  BY <1>1, <1>3, <1>4

LEMMA TurnInvKept ==
  ASSUME TypeOK, TypeOK', StoreInv, TurnInv, InTurn, InTurn', [Next]_vars
  PROVE  TurnInv'
<1>1. ASSUME NEW w \in Workers, Execute(w) \/ Fail(w) PROVE TurnInv'
  BY <1>1, PrepareTurn, ClassifyTurn, VerifyTurn, ReviewTurn, CoverageTurn, Layer2Turn,
     AnswerTurn DEF Execute
<1>2. ASSUME NEW w \in Workers, Request(w) PROVE TurnInv'
  BY <1>2, PostTurn, ResumeTurn, ResumeNothingTurn DEF Request
<1> QED
  BY <1>1, <1>2, OutsideTurn DEF Next

(* While invocations take turns, what a state or an open checkpoint says   *)
(* of its claims is what the store says, in every node, up to acceptances  *)
(* of a resume that did not get to its end.                                *)
THEOREM TurnInvariant == Spec /\ []InTurn => []TurnInv
<1>1. Init => TurnInv
  BY InitTurn
<1>2. /\ TypeOK /\ TypeOK' /\ StoreInv /\ TurnInv /\ InTurn /\ InTurn' /\ [Next]_vars
      => TurnInv'
  BY TurnInvKept
<1> QED
  BY <1>1, <1>2, TypeCorrect, StoreInvariant, PTL DEF Spec

(* Once the screening is over, rows and graph state agree.                 *)
THEOREM StoreAgrees == Spec /\ []InTurn => []StoreMatchesState
<1>1. TurnInv => StoreMatchesState
  BY DEF TurnInv, StoreMatchesState, BeforeReview, AfterReview, InStep, Produced, StatusBy
<1> QED
  BY <1>1, TurnInvariant, PTL

(* What the latest gate results reject is not shown as verified, not even  *)
(* by a reviewer's acceptance that comes late.                             *)
THEOREM Withheld == Spec /\ []InTurn => []UnverifiableWithheld
<1>1. TurnInv => UnverifiableWithheld
  BY DEF TurnInv
<1> QED
  BY <1>1, TurnInvariant, PTL

(* What a step of one worker leaves alone, and whose answer it can be.     *)
LEMMA Frame ==
  ASSUME TypeOK, TypeOK', NEW w \in Workers, Execute(w) \/ Request(w) \/ Fail(w)
  PROVE  /\ \A v \in Workers : v # w => inv'[v] = inv[v] /\ pc'[v] = pc[v]
         /\ pc[w] = "reply" => Answer(w) \/ Fail(w)
         /\ pc'[w] # "idle" =>
              \/ pc[w] # "idle" /\ inv'[w].run = inv[w].run /\ inv'[w].hitl = inv[w].hitl
              \/ inv'[w].run \in Runs /\ inv'[w].hitl \in HitlModes \cup {TRUE}
<1> DEFINE Mine ==
      /\ \A v \in Workers : v # w => inv'[v] = inv[v] /\ pc'[v] = pc[v]
      /\ pc[w] = "reply" => Answer(w) \/ Fail(w)
      /\ pc'[w] # "idle" =>
           \/ pc[w] # "idle" /\ inv'[w].run = inv[w].run /\ inv'[w].hitl = inv[w].hitl
           \/ inv'[w].run \in Runs /\ inv'[w].hitl \in HitlModes \cup {TRUE}
<1>1. PrepareStep(w) => Mine
  BY DEF PrepareStep, Prepare, Become, Goto, TypeOK, Invocation
<1>2. ASSUME ClassifyStep(w) PROVE Mine
  <2>1. ASSUME NEW c \in Claims, ClassifyClaim(w, c) PROVE Mine
    BY <2>1 DEF ClassifyClaim, Become, TypeOK, Invocation
  <2>2. ASSUME NEW c \in Claims, NEW raised \in BOOLEAN, SkipClause(w, c, raised) PROVE Mine
    BY <2>2 DEF SkipClause, Become, TypeOK, Invocation
  <2>3. EndClassify(w) => Mine
    BY DEF EndClassify, Goto, TypeOK
  <2> QED
    BY <1>2, <2>1, <2>2, <2>3 DEF ClassifyStep
<1>3. ASSUME VerifyStep(w) PROVE Mine
  <2>1. ASSUME NEW c \in Claims, NEW gates \in Verdict, NEW objection \in BOOLEAN,
               VerifyClaim(w, c, gates, objection)
        PROVE  Mine
    BY <2>1 DEF VerifyClaim, Become, TypeOK, Invocation
  <2>2. ASSUME NEW useless \in SUBSET Pillars, BeginScreen(w, useless) PROVE Mine
    BY <2>2 DEF BeginScreen, Become, Goto, TypeOK, Invocation
  <2>3. ASSUME NEW c \in Claims, ScreenClaim(w, c) PROVE Mine
    BY <2>3 DEF ScreenClaim, Become, TypeOK, Invocation
  <2>4. EndScreen(w) => Mine
    BY DEF EndScreen, Goto, TypeOK
  <2> QED
    BY <1>3, <2>1, <2>2, <2>3, <2>4 DEF VerifyStep
<1>4. ASSUME ReviewStep(w) PROVE Mine
  <2>1. ASSUME NEW c \in Claims, AcceptClaim(w, c) PROVE Mine
    BY <2>1 DEF AcceptClaim, Become, TypeOK, Invocation
  <2>2. ASSUME ReviewNothing(w) \/ Interrupt(w) \/ EndReview(w) PROVE Mine
    <3>1. PICK node : /\ pc' = [pc EXCEPT ![w] = node] /\ UNCHANGED inv
                      /\ pc[w] \in {"review", "apply"}
      BY <2>2 DEF ReviewNothing, Interrupt, EndReview, Goto
    <3> QED
      BY <3>1 DEF TypeOK
  <2> QED
    BY <1>4, <2>1, <2>2 DEF ReviewStep
<1>5. ASSUME CoverageStep(w) PROVE Mine
  BY <1>5 DEF CoverageStep, EvaluateCoverage, Become, TypeOK, Invocation
<1>6. ASSUME Layer2Step(w) PROVE Mine
  <2>1. ASSUME BeginLayer2(w) PROVE Mine
    <3>1. PICK verified : inv' = [inv EXCEPT ![w] = [inv[w] EXCEPT !.todo = verified]]
      BY <2>1 DEF BeginLayer2, Become
    <3> QED
      BY <2>1, <3>1 DEF BeginLayer2, Goto, TypeOK, Invocation
  <2>2. ASSUME NEW c \in Claims, SaveLayer2(w, c) PROVE Mine
    BY <2>2 DEF SaveLayer2, Become, TypeOK, Invocation
  <2>3. ASSUME EndLayer2(w) PROVE Mine
    <3>1. PICK recs : inv' = [inv EXCEPT ![w] = [inv[w] EXCEPT !.recs = recs]]
      BY <2>3 DEF EndLayer2, Become
    <3> QED
      BY <2>3, <3>1 DEF EndLayer2, Goto, TypeOK, Invocation
  <2> QED
    BY <1>6, <2>1, <2>2, <2>3 DEF Layer2Step
<1>7. ASSUME Answer(w) \/ Fail(w) PROVE Mine
  <2>1. PICK state : inv' = [inv EXCEPT ![w] = state] /\ pc' = [pc EXCEPT ![w] = "idle"]
    BY <1>7 DEF Answer, Fail, Become, Goto
  <2> QED
    BY <1>7, <2>1 DEF TypeOK
<1>8. ASSUME Request(w) PROVE Mine
  <2>1. ASSUME NEW r \in Runs, NEW hitl \in HitlModes, Post(w, r, hitl) PROVE Mine
    <3>1. PICK recs, degraded :
            inv' = [inv EXCEPT ![w] = [Fresh EXCEPT !.run = r, !.hitl = hitl,
                                                    !.recs = recs, !.degraded = degraded]]
      BY <2>1 DEF Post, Become
    <3>2. PICK state : state = [Fresh EXCEPT !.run = r, !.hitl = hitl,
                                             !.recs = recs, !.degraded = degraded]
      OBVIOUS
    <3>3. state.run = r /\ state.hitl = hitl
      BY <3>2 DEF Fresh
    <3>4. inv' = [inv EXCEPT ![w] = state] /\ pc[w] = "idle" /\ pc' = [pc EXCEPT ![w] = "prepare"]
      BY <2>1, <3>1, <3>2 DEF Post, Goto
    <3>5. DOMAIN inv = Workers /\ DOMAIN pc = Workers
      BY DEF TypeOK
    <3>6. inv'[w] = state /\ \A v \in Workers : v # w => inv'[v] = inv[v] /\ pc'[v] = pc[v]
      BY <3>4, <3>5
    <3> QED
      BY <3>3, <3>4, <3>6
  <2>2. ASSUME NEW r \in Runs, NEW accepts \in SUBSET Claims, Resume(w, r, accepts) PROVE Mine
    BY <2>2 DEF Resume, Become, Goto, Fresh, TypeOK
  <2>3. ASSUME NEW r \in Runs, NEW accepts \in SUBSET Claims, ResumeNothing(w, r, accepts)
        PROVE  Mine
    BY <2>3 DEF ResumeNothing, Become, TypeOK
  <2> QED
    BY <1>8, <2>1, <2>2, <2>3 DEF Request
<1> QED
  BY <1>1, <1>2, <1>3, <1>4, <1>5, <1>6, <1>7, <1>8 DEF Execute

(* Whoever answers "completed" has evaluated every indicator: the status   *)
(* read from the thread is that of its own invocation.                     *)
THEOREM CompletedCovered == Spec /\ []InTurn => CompletedMeansCovered
<1> DEFINE Covered ==
      \A w \in Workers : pc[w] = "reply" /\ inv'[w].reply = "completed" =>
        \A i \in Indicators : inv[w].cells[i] # "none"
<1>1. ASSUME TypeOK, TypeOK', TurnInv, [Next]_vars PROVE Covered
  <2> SUFFICES ASSUME NEW w \in Workers, pc[w] = "reply", inv'[w].reply = "completed"
               PROVE  \A i \in Indicators : inv[w].cells[i] # "none"
    OBVIOUS
  <2>1. inv[w].reply = "none" /\ QuestionOf(w)
    BY <1>1, InNode
  <2>2. inv'[w] # inv[w]
    BY <2>1
  <2>3. PICK v \in Workers : Execute(v) \/ Request(v) \/ Fail(v)
    BY <1>1, <2>2 DEF Next, Crash, SubmitReview, Fresh, vars
  <2>4. Answer(w)
    <3>1. Answer(w) \/ Fail(w)
      BY <1>1, <2>2, <2>3, Frame
    <3>2. ~Fail(w)
      BY <1>1 DEF Fail, Become, Fresh, TypeOK
    <3> QED
      BY <3>1, <3>2
  <2>5. ~(HasSaver(w) /\ thread[inv[w].run].at = "paused")
    BY <1>1, <2>4 DEF Answer, Become, RunStatus, Fresh, TypeOK
  <2> QED
    BY <2>1, <2>5 DEF QuestionOf
<1>2. TypeOK /\ TypeOK' /\ TurnInv /\ [Next]_vars => [Covered]_vars
  BY <1>1
<1> QED
  BY <1>2, TypeCorrect, TurnInvariant, PTL DEF Spec, CompletedMeansCovered

(* While the process lives an open question is closed by the end of its    *)
(* review or by a new run.                                                 *)
LEMMA QuestionClosed ==
  ASSUME TypeOK, TypeOK', TurnInv, InTurn, [Next]_vars, crashes' = crashes,
         NEW r \in Runs, thread[r].at = "paused", thread'[r].at # "paused"
  PROVE  \E w \in Workers : \/ EndReview(w) /\ inv[w].run = r
                            \/ \E hitl \in HitlModes : Post(w, r, hitl)
<1>1. thread' # thread
  OBVIOUS
<1>2. PICK w \in Workers : Execute(w) \/ Request(w) \/ Fail(w)
  <2>1. ~Crash
    BY DEF Crash, TypeOK
  <2> QED
    BY <1>1, <2>1 DEF Next, SubmitReview, vars
<1>3. pc[w] \notin Node \ {"apply"}
  BY NothingOpen
<1>4. CASE Execute(w)
  <2>1. EndReview(w)
    BY <1>1, <1>3, <1>4
       DEF Execute, PrepareStep, Prepare, ClassifyStep, ClassifyClaim, SkipClause, EndClassify,
           VerifyStep, VerifyClaim, BeginScreen, ScreenClaim, EndScreen, ReviewStep,
           ReviewNothing, Interrupt, AcceptClaim, CoverageStep, EvaluateCoverage, Layer2Step,
           BeginLayer2, SaveLayer2, EndLayer2, Answer
  <2>2. pc[w] = "apply" /\ Save(w, "midway") /\ inv[w].run \in Runs
    BY <2>1, InNode DEF EndReview
  <2>3. inv[w].run = r
    BY <2>2, SavedAt DEF TypeOK
  <2> QED
    BY <2>1, <2>3
<1>5. CASE Request(w)
  <2>1. PICK q \in Runs, hitl \in HitlModes : Post(w, q, hitl)
    BY <1>1, <1>5 DEF Request, Resume, ResumeNothing
  <2>2. q = r
    BY <2>1 DEF Post, TypeOK
  <2> QED
    BY <2>1, <2>2
<1>6. ~Fail(w)
  BY <1>1 DEF Fail
<1> QED
  BY <1>2, <1>4, <1>5, <1>6

(* Where invocations take turns, nothing but the end of its review, a new  *)
(* run under its id and a restart closes a question to the reviewer: no    *)
(* failure of a resume, at whatever step, does.                            *)
THEOREM QuestionKept == Spec /\ []InTurn => PauseKept
<1> DEFINE Kept ==
      \A r \in Runs : thread[r].at = "paused" /\ thread'[r].at # "paused" =>
        \/ crashes' # crashes
        \/ \E w \in Workers : /\ inv'[w].run = r
                              /\ \/ pc[w] = "apply" /\ pc'[w] = "coverage"
                                 \/ pc[w] = "idle" /\ pc'[w] = "prepare"
<1>1. ASSUME TypeOK, TypeOK', TurnInv, InTurn, [Next]_vars PROVE Kept
  <2> SUFFICES ASSUME NEW r \in Runs, thread[r].at = "paused", thread'[r].at # "paused",
                      crashes' = crashes
               PROVE  \E w \in Workers : /\ inv'[w].run = r
                                         /\ \/ pc[w] = "apply" /\ pc'[w] = "coverage"
                                            \/ pc[w] = "idle" /\ pc'[w] = "prepare"
    OBVIOUS
  <2>1. PICK w \in Workers : \/ EndReview(w) /\ inv[w].run = r
                             \/ \E hitl \in HitlModes : Post(w, r, hitl)
    BY <1>1, QuestionClosed
  <2>2. CASE EndReview(w) /\ inv[w].run = r
    BY <1>1, <2>2 DEF EndReview, Goto, TypeOK
  <2>3. ASSUME NEW hitl \in HitlModes, Post(w, r, hitl)
        PROVE  inv'[w].run = r /\ pc[w] = "idle" /\ pc'[w] = "prepare"
    BY <1>1, <2>3 DEF Post, Become, Goto, Fresh, TypeOK
  <2> QED
    BY <2>1, <2>2, <2>3
<1>2. TypeOK /\ TypeOK' /\ TurnInv /\ InTurn /\ [Next]_vars => [Kept]_vars
  BY <1>1
<1> QED
  BY <1>2, TypeCorrect, TurnInvariant, PTL DEF Spec, PauseKept

(* The deployment of the run solo takes turns: one request thread, one run *)
(* id, review in every run.                                                *)
THEOREM SoloTakesTurns ==
  ASSUME \A v, w \in Workers : v = w, \A q, r \in Runs : q = r, HitlModes = {TRUE}
  PROVE  Spec => []InTurn
<1> DEFINE Reviewed ==
      \A w \in Workers : pc[w] # "idle" => inv[w].run \in Runs /\ inv[w].hitl
<1>1. Init => Reviewed
  BY DEF Init
<1>2. ASSUME TypeOK, TypeOK', Reviewed, [Next]_vars PROVE Reviewed'
  <2>1. CASE \E w \in Workers : Execute(w) \/ Request(w) \/ Fail(w)
    BY <1>2, <2>1, Frame
  <2>2. CASE ~\E w \in Workers : Execute(w) \/ Request(w) \/ Fail(w)
    BY <1>2, <2>2 DEF Next, Crash, SubmitReview, vars
  <2> QED
    BY <2>1, <2>2
<1>3. Reviewed => InTurn
  BY DEF InTurn, HasSaver
<1> QED
  BY <1>1, <1>2, <1>3, TypeCorrect, PTL DEF Spec
=============================================================================
