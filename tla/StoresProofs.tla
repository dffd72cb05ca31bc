---------------------------- MODULE StoresProofs ----------------------------
(***************************************************************************)
(* Theorems about the stores that request threads share: the verification  *)
(* rows, for any number of verifiers and of reports, and the retrieval     *)
(* index, for any documents, chunks, threads and limits; and about the     *)
(* Chunker that cuts texts for the index, for any text, target and overlap.*)
(***************************************************************************)
EXTENDS GateStore, Retrieval, Chunker, FilterProofs, SequenceTheorems, FiniteSetTheorems

(* Every result of a gate that there is, stored or not.                    *)
Known(g) ==
  {saved[i][g] : i \in DOMAIN saved}
    \cup {results[v][g] : v \in {u \in Verifiers : g \in DOMAIN results[u]}}

(* Results of one gate that started at the same time are the same result.  *)
Stamped ==
  \A g \in Gates : \A p, q \in Known(g) : p.at < clock /\ (p.at = q.at => p = q)

(* Each gate has a stored result that no other one is newer than.          *)
Newest ==
  saved # <<>> => \A g \in Gates : \E i \in DOMAIN saved :
    \A j \in DOMAIN saved : saved[j][g].at <= saved[i][g].at

(* The verdicts that four results and an objection may come to.            *)
Verdicts(g) == {Demote(VerifyStatus(Passed(g)), o) : o \in BOOLEAN}

LastSaved == saved[Len(saved)]

(* While verifiers take turns: one is at work, its results are newer than  *)
(* all rows, and the last report stored is the newest and gave the claim   *)
(* the status it has.                                                      *)
TurnInv ==
  ~overlapped =>
    /\ \A u, v \in Verifiers : pc[u] # "idle" /\ pc[v] # "idle" => u = v
    /\ \A v \in Verifiers :
         /\ pc[v] \in {"gates", "store"} =>
              /\ row = "pending"
              /\ \A i \in DOMAIN saved, g \in DOMAIN results[v] : saved[i][g].at < results[v][g].at
         /\ pc[v] \in {"store", "screen"} => verdict[v] \in Verdicts(results[v])
         /\ pc[v] = "screen" => saved # <<>> /\ LastSaved = results[v] /\ row = verdict[v]
    /\ saved # <<>> =>
         /\ \A g \in Gates : \A i \in DOMAIN saved : saved[i][g].at <= LastSaved[g].at
         /\ row \in {"pending"} \cup Verdicts(LastSaved)
         /\ (\A v \in Verifiers : pc[v] = "idle") => \E v \in Verifiers : row = verdict[v]

-----------------------------------------------------------------------------
(***************************************************************************)
(* The verdict fixed by the verifier and the one derived from the gates    *)
(* that are read back.                                                     *)
(***************************************************************************)

(* The repository's mirror of derive_status, with its early returns, gives *)
(* the status rie_domain.derive_status gives, for every set of gates that  *)
(* were run and all their results (repository.py:52, verification.py:19).  *)
THEOREM MirrorAgrees ==
  ASSUME NEW g \in PartialGateVector
  PROVE  DeriveStatusInline(g) = DeriveStatus(g)
<1> USE DEF Holds, DeterministicGates, ModelGates, DeriveStatus, DeriveStatusInline
<1>0. \A gate \in DOMAIN g : g[gate] \in BOOLEAN
  BY DEF PartialGateVector
<1>1. CASE \E d \in DeterministicGates : ~Holds(g, d)
  BY <1>1, <1>0
<1>2. CASE \A d \in DeterministicGates : Holds(g, d)
  <2>1. CASE \E m \in ModelGates : ~Holds(g, m)
    BY <1>2, <2>1, <1>0
  <2>2. CASE \A m \in ModelGates : Holds(g, m)
    BY <1>2, <2>2, <1>0
  <2> QED BY <2>1, <2>2
<1> QED BY <1>1, <1>2

(* VerificationService.verify, which has run all four gates, gives the     *)
(* status the repository derives when it reads the four results back.      *)
THEOREM VerifyAgrees ==
  ASSUME NEW g \in GateVector
  PROVE  VerifyStatus(g) = DeriveStatusInline(g)
  BY DEF GateVector, Gates, DeterministicGates, ModelGates, VerifyStatus, DeriveStatusInline

(* A claim is "verified" by its gates exactly when all four passed.        *)
THEOREM VerifiedMeansAllPassed ==
  ASSUME NEW g \in GateVector
  PROVE  VerifyStatus(g) = "verified" <=> \A gate \in Gates : g[gate]
  BY DEF GateVector, Gates, DeterministicGates, ModelGates, VerifyStatus

-----------------------------------------------------------------------------
(***************************************************************************)
(* Type correctness.                                                       *)
(***************************************************************************)

(* While a gate is missing there is a next one.                            *)
LEMMA NextGate ==
  ASSUME NEW S \in SUBSET Gates, S # Gates
  PROVE  GateOrder[Cardinality(S) + 1] \in Gates
<1>1. IsFiniteSet(Gates)
  <2>1. Gates = ((({} \cup {"span_existence"}) \cup {"verbatim_match"}) \cup {"entailment"}) \cup {"self_consistency"}
    BY DEF Gates, DeterministicGates, ModelGates
  <2>2. IsFiniteSet({} \cup {"span_existence"})
    BY FS_EmptySet, FS_AddElement
  <2>3. IsFiniteSet(({} \cup {"span_existence"}) \cup {"verbatim_match"})
    BY <2>2, FS_AddElement
  <2>4. IsFiniteSet((({} \cup {"span_existence"}) \cup {"verbatim_match"}) \cup {"entailment"})
    BY <2>3, FS_AddElement
  <2>5. QED
    BY <2>1, <2>4, FS_AddElement
<1>2. Cardinality(S) \in Nat /\ Cardinality(S) < Cardinality(Gates) /\ Cardinality(Gates) \in Nat
  <2>1. Cardinality(S) <= Cardinality(Gates) /\ Cardinality(S) # Cardinality(Gates)
    BY <1>1, FS_Subset
  <2>2. Cardinality(S) \in Nat /\ Cardinality(Gates) \in Nat
    BY <1>1, FS_Subset, FS_CardinalityType
  <2>3. QED
    BY <2>1, <2>2
<1>3. Cardinality(S) + 1 \in 1..Len(GateOrder)
  BY <1>2, OrderAssumption
<1>4. QED
  BY <1>3, OrderAssumption

(* A sequence that gains an element.                                       *)
LEMMA AppendTyped ==
  ASSUME NEW S, NEW s \in Seq(S), NEW x \in S
  PROVE  /\ Append(s, x) \in Seq(S) /\ Append(s, x) # <<>>
         /\ DOMAIN s = 1..Len(s) /\ DOMAIN Append(s, x) = 1..(Len(s) + 1)
         /\ Len(s) \in Nat /\ Len(Append(s, x)) = Len(s) + 1
         /\ \A k \in DOMAIN s : Append(s, x)[k] = s[k]
         /\ Append(s, x)[Len(s) + 1] = x
  OBVIOUS

(* The verdict of four results is one, with an objection or without.       *)
LEMMA VerdictsTyped ==
  ASSUME NEW g \in [Gates -> GateResult]
  PROVE  /\ Passed(g) \in GateVector
         /\ Verdicts(g) \subseteq Verdict
         /\ DeriveStatusInline(Passed(g)) = VerifyStatus(Passed(g))
<1>1. Passed(g) \in GateVector
  BY DEF Passed, GateVector, GateResult
<1>2. VerifyStatus(Passed(g)) \in Verdict
  BY DEF VerifyStatus, Verdict
<1>3. Verdicts(g) \subseteq Verdict
  BY <1>2 DEF Verdicts, Demote, Verdict
<1>4. QED
  BY <1>1, <1>3, VerifyAgrees

(* What a report may be stored of has all gates.                           *)
LEMMA ReportTyped ==
  ASSUME TypeOK, NEW v \in Verifiers, DOMAIN results[v] = Gates
  PROVE  results[v] \in [Gates -> GateResult]
  BY DEF TypeOK

LEMMA InitTyped == Init => TypeOK
<1> SUFFICES ASSUME Init PROVE TypeOK
  OBVIOUS
<1>1. results = [v \in Verifiers |-> results[v]]
  BY DEF Init
<1>2. ASSUME NEW v \in Verifiers
      PROVE  /\ DOMAIN results[v] \subseteq Gates /\ results[v] \in [DOMAIN results[v] -> GateResult]
             /\ pc[v] \in {"store", "screen"} => DOMAIN results[v] = Gates /\ verdict[v] \in Verdict
  BY DEF Init
<1>3. reports \in 0..MaxReports /\ clock \in Nat /\ saved \in Seq([Gates -> GateResult])
  BY BoundAssumption DEF Init
<1>4. QED
  BY <1>1, <1>2, <1>3 DEF Init, TypeOK

LEMMA BeginTyped ==
  ASSUME TypeOK, NEW v \in Verifiers, Begin(v)
  PROVE  TypeOK'
<1>1. reports' \in 0..MaxReports
  BY BoundAssumption DEF TypeOK, Begin
<1>2. results' = [u \in Verifiers |-> results'[u]] /\ pc' \in [Verifiers -> {"idle", "gates", "store", "screen"}]
  BY DEF TypeOK, Begin
<1>3. ASSUME NEW u \in Verifiers
      PROVE  /\ DOMAIN results'[u] \subseteq Gates /\ results'[u] \in [DOMAIN results'[u] -> GateResult]
             /\ pc'[u] \in {"store", "screen"} => DOMAIN results'[u] = Gates /\ verdict'[u] \in Verdict
  BY DEF TypeOK, Begin
<1>4. QED
  BY <1>1, <1>2, <1>3 DEF TypeOK, Begin

LEMMA RunGateTyped ==
  ASSUME TypeOK, NEW v \in Verifiers, NEW passed \in BOOLEAN, RunGate(v, passed)
  PROVE  TypeOK'
<1> DEFINE gate == GateOrder[Cardinality(DOMAIN results[v]) + 1]
           new == [g \in DOMAIN results[v] \cup {gate} |->
                     IF g = gate THEN [passed |-> passed, at |-> clock] ELSE results[v][g]]
<1>1. gate \in Gates
  BY NextGate DEF TypeOK, RunGate
<1>2. results' = [results EXCEPT ![v] = new]
  BY DEF RunGate
<1>3. new \in [DOMAIN results[v] \cup {gate} -> GateResult]
  BY DEF TypeOK, GateResult
<1>4. DOMAIN new \subseteq Gates /\ new \in [DOMAIN new -> GateResult]
  BY <1>1, <1>3 DEF TypeOK
<1>5. /\ results' = [u \in Verifiers |-> results'[u]] /\ results'[v] = new
      /\ \A u \in Verifiers \ {v} : results'[u] = results[u]
  BY <1>2 DEF TypeOK
<1>6. clock' \in Nat /\ pc' = pc /\ pc[v] = "gates"
  BY DEF TypeOK, RunGate
<1>7. ASSUME NEW u \in Verifiers
      PROVE  /\ DOMAIN results'[u] \subseteq Gates /\ results'[u] \in [DOMAIN results'[u] -> GateResult]
             /\ pc'[u] \in {"store", "screen"} => DOMAIN results'[u] = Gates /\ verdict'[u] \in Verdict
  BY <1>4, <1>5, <1>6 DEF TypeOK, RunGate
<1>8. QED
  BY <1>5, <1>6, <1>7 DEF TypeOK, RunGate

LEMMA DecideTyped ==
  ASSUME TypeOK, NEW v \in Verifiers, NEW objection \in BOOLEAN, Decide(v, objection)
  PROVE  TypeOK' /\ verdict'[v] \in Verdicts(results[v])
<1>1. verdict'[v] = Demote(VerifyStatus(Passed(results[v])), objection)
  BY DEF TypeOK, Decide
<1>2. results[v] \in [Gates -> GateResult]
  BY ReportTyped DEF Decide
<1>3. verdict'[v] \in Verdicts(results[v]) /\ verdict'[v] \in Verdict
  BY <1>1, <1>2, VerdictsTyped DEF Verdicts
<1>4. verdict' \in [Verifiers -> Verdict \cup {"none"}]
  BY <1>3 DEF TypeOK, Decide
<1>5. QED
  BY <1>3, <1>4 DEF TypeOK, Decide

LEMMA StoreTyped ==
  ASSUME TypeOK, NEW v \in Verifiers, Store(v)
  PROVE  TypeOK'
<1>1. results[v] \in [Gates -> GateResult]
  BY ReportTyped DEF TypeOK, Store
<1>2. saved' \in Seq([Gates -> GateResult])
  BY <1>1, AppendTyped DEF TypeOK, Store
<1>3. row' \in Verdict \cup {"pending"}
  BY DEF TypeOK, Store
<1>4. /\ results' = [u \in Verifiers |-> results'[u]]
      /\ pc' \in [Verifiers -> {"idle", "gates", "store", "screen"}]
  BY DEF TypeOK, Store
<1>5. ASSUME NEW u \in Verifiers
      PROVE  /\ DOMAIN results'[u] \subseteq Gates /\ results'[u] \in [DOMAIN results'[u] -> GateResult]
             /\ pc'[u] \in {"store", "screen"} => DOMAIN results'[u] = Gates /\ verdict'[u] \in Verdict
  BY DEF TypeOK, Store
<1>6. QED
  BY <1>2, <1>3, <1>4, <1>5 DEF TypeOK, Store

LEMMA ScreenTyped ==
  ASSUME TypeOK, NEW v \in Verifiers, NEW useless \in BOOLEAN, Screen(v, useless)
  PROVE  TypeOK'
<1>1. results[v] \in [Gates -> GateResult]
  BY ReportTyped DEF TypeOK, Screen
<1>2. saved' \in Seq([Gates -> GateResult])
  <2>1. saved \in Seq([Gates -> GateResult])
    BY DEF TypeOK
  <2>2. Append(saved, results[v]) \in Seq([Gates -> GateResult])
    BY <2>1, <1>1, AppendTyped
  <2>3. QED
    BY <2>1, <2>2 DEF Screen
<1>3. row' \in Verdict \cup {"pending"} /\ verdict' \in [Verifiers -> Verdict \cup {"none"}]
  BY DEF TypeOK, Screen, Verdict
<1>4. /\ results' = [u \in Verifiers |-> results'[u]]
      /\ pc' \in [Verifiers -> {"idle", "gates", "store", "screen"}]
  BY DEF TypeOK, Screen
<1>5. ASSUME NEW u \in Verifiers
      PROVE  /\ DOMAIN results'[u] \subseteq Gates /\ results'[u] \in [DOMAIN results'[u] -> GateResult]
             /\ pc'[u] \in {"store", "screen"} => DOMAIN results'[u] = Gates /\ verdict'[u] \in Verdict
  BY DEF TypeOK, Screen
<1>6. QED
  BY <1>2, <1>3, <1>4, <1>5 DEF TypeOK, Screen

LEMMA NextTyped ==
  ASSUME TypeOK, [Next]_vars
  PROVE  TypeOK'
<1>1. CASE UNCHANGED vars
  BY <1>1 DEF vars, TypeOK
<1>2. ASSUME NEW v \in Verifiers, Begin(v) PROVE TypeOK'
  BY <1>2, BeginTyped
<1>3. ASSUME NEW v \in Verifiers, NEW passed \in BOOLEAN, RunGate(v, passed) PROVE TypeOK'
  BY <1>3, RunGateTyped
<1>4. ASSUME NEW v \in Verifiers, NEW objection \in BOOLEAN, Decide(v, objection) PROVE TypeOK'
  BY <1>4, DecideTyped
<1>5. ASSUME NEW v \in Verifiers, Store(v) PROVE TypeOK'
  BY <1>5, StoreTyped
<1>6. ASSUME NEW v \in Verifiers, NEW useless \in BOOLEAN, Screen(v, useless) PROVE TypeOK'
  BY <1>6, ScreenTyped
<1>7. QED
  BY <1>1, <1>2, <1>3, <1>4, <1>5, <1>6 DEF Next

(* Every state of any number of verifiers is well typed: in particular a   *)
(* report is stored with all four of its gates (save_verification).        *)
THEOREM GateStoreTypeCorrect == Spec => []TypeOK
<1>1. Init => TypeOK
  BY InitTyped
<1>2. TypeOK /\ [Next]_vars => TypeOK'
  BY NextTyped
<1>3. QED
  BY <1>1, <1>2, PTL DEF Spec

-----------------------------------------------------------------------------
(***************************************************************************)
(* Start times tell the results of a gate apart.                           *)
(***************************************************************************)

LEMMA KnownTyped ==
  ASSUME TypeOK, NEW g \in Gates
  PROVE  Known(g) \subseteq GateResult
<1>1. ASSUME NEW i \in DOMAIN saved PROVE saved[i][g] \in GateResult
  <2>1. saved[i] \in [Gates -> GateResult]
    BY DEF TypeOK
  <2>2. QED
    BY <2>1
<1>2. ASSUME NEW v \in Verifiers, g \in DOMAIN results[v] PROVE results[v][g] \in GateResult
  BY <1>2 DEF TypeOK
<1>3. QED
  BY <1>1, <1>2 DEF Known

(* Storing a report stores results that are known.                         *)
LEMMA StoredIsKnown ==
  ASSUME TypeOK, NEW v \in Verifiers, DOMAIN results[v] = Gates, results' = results,
         saved' = Append(saved, results[v]) \/ saved' = saved, NEW g \in Gates
  PROVE  Known(g)' \subseteq Known(g)
<1>1. saved \in Seq([Gates -> GateResult]) /\ results[v] \in [Gates -> GateResult]
  BY ReportTyped DEF TypeOK
<1>2. ASSUME NEW i \in DOMAIN saved' PROVE saved'[i][g] \in Known(g)
  <2>1. CASE saved' = saved
    BY <2>1 DEF Known
  <2>2. CASE saved' = Append(saved, results[v])
    <3>1. i \in DOMAIN saved \/ i = Len(saved) + 1
      BY <1>1, <2>2, AppendTyped
    <3>2. CASE i \in DOMAIN saved
      <4>1. saved'[i] = saved[i]
        BY <1>1, <2>2, <3>2, AppendTyped
      <4>2. QED
        BY <4>1, <3>2 DEF Known
    <3>3. CASE i = Len(saved) + 1
      <4>1. saved'[i] = results[v]
        BY <1>1, <2>2, <3>3, AppendTyped
      <4>2. QED
        BY <4>1 DEF Known
    <3>4. QED
      BY <3>1, <3>2, <3>3
  <2>3. QED
    BY <2>1, <2>2
<1>3. QED
  BY <1>2 DEF Known

LEMMA InitStamped == Init => Stamped
  BY DEF Init, Stamped, Known

LEMMA NextStamped ==
  ASSUME TypeOK, Stamped, [Next]_vars
  PROVE  Stamped'
<1>0. clock \in Nat
  BY DEF TypeOK
<1>1. ASSUME clock' = clock, \A g \in Gates : Known(g)' \subseteq Known(g)
      PROVE  Stamped'
  BY <1>1 DEF Stamped
<1>2. CASE UNCHANGED vars
  BY <1>1, <1>2 DEF vars, Known
<1>3. ASSUME NEW v \in Verifiers, Begin(v) PROVE Stamped'
  <2>1. ASSUME NEW g \in Gates, NEW u \in Verifiers, g \in DOMAIN results'[u]
        PROVE  g \in DOMAIN results[u] /\ results'[u][g] = results[u][g]
    BY <1>3, <2>1 DEF TypeOK, Begin
  <2>2. saved' = saved /\ clock' = clock
    BY <1>3 DEF Begin
  <2>3. QED
    BY <1>1, <2>1, <2>2 DEF Known
<1>4. ASSUME NEW v \in Verifiers, NEW passed \in BOOLEAN, RunGate(v, passed) PROVE Stamped'
  <2> DEFINE gate == GateOrder[Cardinality(DOMAIN results[v]) + 1]
             r == [passed |-> passed, at |-> clock]
             new == [g \in DOMAIN results[v] \cup {gate} |-> IF g = gate THEN r ELSE results[v][g]]
  <2>1. results' = [results EXCEPT ![v] = new] /\ saved' = saved /\ clock' = clock + 1
    BY <1>4 DEF RunGate
  <2>2. ASSUME NEW g \in Gates, NEW u \in Verifiers, g \in DOMAIN results'[u]
        PROVE  results'[u][g] = r \/ (g \in DOMAIN results[u] /\ results'[u][g] = results[u][g])
    BY <2>1, <2>2 DEF TypeOK
  <2>3. ASSUME NEW g \in Gates PROVE Known(g)' \subseteq Known(g) \cup {r}
    BY <2>1, <2>2 DEF Known
  <2>4. ASSUME NEW g \in Gates, NEW p \in Known(g)', NEW q \in Known(g)'
        PROVE  p.at < clock' /\ (p.at = q.at => p = q)
    <3>1. (p \in Known(g) \/ p = r) /\ (q \in Known(g) \/ q = r)
      BY <2>3
    <3>2. \A x \in Known(g) : x.at \in Nat /\ x.at < clock
      BY KnownTyped DEF Stamped, GateResult
    <3>3. r.at = clock
      OBVIOUS
    <3>4. p.at < clock'
      BY <1>0, <2>1, <3>1, <3>2, <3>3
    <3>5. p.at = q.at => p = q
      BY <1>0, <3>1, <3>2, <3>3 DEF Stamped
    <3>6. QED
      BY <3>4, <3>5
  <2>5. QED
    BY <2>4 DEF Stamped
<1>5. ASSUME NEW v \in Verifiers, NEW objection \in BOOLEAN, Decide(v, objection) PROVE Stamped'
  BY <1>1, <1>5 DEF Decide, Known
<1>6. ASSUME NEW v \in Verifiers, Store(v) PROVE Stamped'
  <2>1. DOMAIN results[v] = Gates /\ results' = results /\ clock' = clock /\ saved' = Append(saved, results[v])
    BY <1>6 DEF TypeOK, Store
  <2>2. QED
    BY <1>1, <2>1, StoredIsKnown
<1>7. ASSUME NEW v \in Verifiers, NEW useless \in BOOLEAN, Screen(v, useless) PROVE Stamped'
  <2>1. /\ DOMAIN results[v] = Gates /\ results' = results /\ clock' = clock
        /\ saved' = Append(saved, results[v]) \/ saved' = saved
    BY <1>7 DEF TypeOK, Screen
  <2>2. QED
    BY <1>1, <2>1, StoredIsKnown
<1>8. QED
  BY <1>2, <1>3, <1>4, <1>5, <1>6, <1>7 DEF Next

-----------------------------------------------------------------------------
(***************************************************************************)
(* The rows of a gate have a latest one, which is the one read.            *)
(***************************************************************************)

(* The reports change by at most one, which is appended.                   *)
LEMMA SavedGrows ==
  ASSUME TypeOK, [Next]_vars
  PROVE  saved' = saved \/ \E x \in [Gates -> GateResult] : saved' = Append(saved, x)
<1>1. CASE UNCHANGED vars
  BY <1>1 DEF vars
<1>2. ASSUME NEW v \in Verifiers, Store(v) PROVE \E x \in [Gates -> GateResult] : saved' = Append(saved, x)
  BY <1>2, ReportTyped DEF TypeOK, Store
<1>3. ASSUME NEW v \in Verifiers, NEW useless \in BOOLEAN, Screen(v, useless)
      PROVE  saved' = saved \/ \E x \in [Gates -> GateResult] : saved' = Append(saved, x)
  BY <1>3, ReportTyped DEF TypeOK, Screen
<1>4. QED
  BY <1>1, <1>2, <1>3 DEF Next, Begin, RunGate, Decide

LEMMA NextNewest ==
  ASSUME TypeOK, Newest, [Next]_vars
  PROVE  Newest'
<1>1. CASE saved' = saved
  BY <1>1 DEF Newest
<1>2. ASSUME NEW x \in [Gates -> GateResult], saved' = Append(saved, x) PROVE Newest'
  <2> SUFFICES ASSUME NEW g \in Gates
               PROVE  \E i \in DOMAIN saved' : \A j \in DOMAIN saved' : saved'[j][g].at <= saved'[i][g].at
    BY DEF Newest
  <2>0. saved \in Seq([Gates -> GateResult])
    BY DEF TypeOK
  <2> DEFINE last == Len(saved) + 1
  <2>1. /\ DOMAIN saved = 1..Len(saved) /\ DOMAIN saved' = 1..last /\ Len(saved) \in Nat
        /\ \A k \in DOMAIN saved : saved'[k] = saved[k]
        /\ saved'[last] = x
    BY <1>2, <2>0, AppendTyped
  <2>2. x[g].at \in Nat /\ \A k \in DOMAIN saved : saved[k][g].at \in Nat
    <3>1. ASSUME NEW y \in [Gates -> GateResult] PROVE y[g].at \in Nat
      BY DEF GateResult
    <3>2. \A k \in DOMAIN saved : saved[k] \in [Gates -> GateResult]
      BY <2>0
    <3>3. QED
      BY <3>1, <3>2
  <2>3. \A j \in DOMAIN saved' : j \in DOMAIN saved \/ j = last
    BY <2>1
  <2>4. last \in DOMAIN saved' /\ DOMAIN saved \subseteq DOMAIN saved'
    BY <2>1
  <2>5. CASE saved = <<>>
    <3>1. DOMAIN saved = {}
      BY <2>5
    <3>2. QED
      BY <2>1, <2>2, <2>3, <2>4, <3>1
  <2>6. CASE saved # <<>>
    <3>1. PICK i \in DOMAIN saved : \A j \in DOMAIN saved : saved[j][g].at <= saved[i][g].at
      BY <2>6 DEF Newest
    <3>2. CASE saved[i][g].at <= x[g].at
      <4>1. \A j \in DOMAIN saved : saved[j][g].at <= x[g].at
        BY <2>2, <3>1, <3>2
      <4>2. \A j \in DOMAIN saved' : saved'[j][g].at <= saved'[last][g].at
        BY <2>1, <2>2, <2>3, <4>1
      <4>3. QED
        BY <2>4, <4>2
    <3>3. CASE ~(saved[i][g].at <= x[g].at)
      <4>1. x[g].at <= saved[i][g].at
        BY <2>2, <3>3
      <4>2. QED
        BY <2>1, <2>3, <2>4, <3>1, <4>1
    <3>4. QED
      BY <3>2, <3>3
  <2>7. QED
    BY <2>5, <2>6
<1>3. QED
  BY <1>1, <1>2, SavedGrows

(* The row that is read is one that is stored, and no other is newer.      *)
LEMMA LatestOf ==
  ASSUME NEW s \in Seq([Gates -> GateResult]), NEW g \in Gates,
         \E i \in DOMAIN s : \A j \in DOMAIN s : s[j][g].at <= s[i][g].at
  PROVE  LET rows   == {s[i][g] : i \in DOMAIN s}
             latest == CHOOSE r \in rows : \A q \in rows : q.at <= r.at
         IN  /\ \E i \in DOMAIN s : latest = s[i][g]
             /\ \A j \in DOMAIN s : s[j][g].at <= latest.at
<1> DEFINE rows == {s[i][g] : i \in DOMAIN s}
<1>1. \E r \in rows : \A q \in rows : q.at <= r.at
  OBVIOUS
<1>2. QED
  BY <1>1

LEMMA LatestStored ==
  ASSUME TypeOK, Newest, saved # <<>>, NEW g \in Gates
  PROVE  /\ \E i \in DOMAIN saved : Latest(g) = saved[i][g]
         /\ \A j \in DOMAIN saved : saved[j][g].at <= Latest(g).at
<1>1. saved \in Seq([Gates -> GateResult])
  BY DEF TypeOK
<1>2. \E i \in DOMAIN saved : \A j \in DOMAIN saved : saved[j][g].at <= saved[i][g].at
  BY DEF Newest
<1>3. QED
  BY <1>1, <1>2, LatestOf DEF Latest

LEMMA NextReadsNoOlder ==
  ASSUME TypeOK, Newest, TypeOK', Newest', [Next]_vars, saved # <<>>, NEW g \in Gates
  PROVE  Latest(g)'.at >= Latest(g).at
<1>1. saved \in Seq([Gates -> GateResult]) /\ saved' \in Seq([Gates -> GateResult])
  BY DEF TypeOK
<1>2. PICK i \in DOMAIN saved : Latest(g) = saved[i][g]
  BY LatestStored
<1>3. i \in DOMAIN saved' /\ saved'[i] = saved[i]
  <2>1. CASE saved' = saved
    BY <2>1
  <2>2. ASSUME NEW x \in [Gates -> GateResult], saved' = Append(saved, x)
        PROVE  i \in DOMAIN saved' /\ saved'[i] = saved[i]
    BY <1>1, <2>2, AppendTyped
  <2>3. QED
    BY <2>1, <2>2, SavedGrows
<1>4. \E k \in DOMAIN saved' : \A j \in DOMAIN saved' : saved'[j][g].at <= saved'[k][g].at
  <2>1. saved' # <<>>
    BY <1>3
  <2>2. QED
    BY <2>1 DEF Newest
<1>5. /\ \E k \in DOMAIN saved' : Latest(g)' = saved'[k][g]
      /\ \A j \in DOMAIN saved' : saved'[j][g].at <= Latest(g)'.at
  BY <1>1, <1>4, LatestOf DEF Latest
<1>6. saved'[i][g].at <= Latest(g)'.at
  BY <1>3, <1>5
<1>7. saved'[i][g].at = Latest(g).at
  BY <1>2, <1>3
<1>8. saved'[i][g].at \in Nat /\ Latest(g)'.at \in Nat
  <2>1. \A y \in [Gates -> GateResult] : y[g].at \in Nat
    BY DEF GateResult
  <2>2. \A k \in DOMAIN saved' : saved'[k] \in [Gates -> GateResult]
    BY <1>1
  <2>3. QED
    BY <1>3, <1>5, <2>1, <2>2
<1>9. QED
  BY <1>6, <1>7, <1>8

(* "verified" is read back of newest results that all passed.              *)
LEMMA ReadBackPassed ==
  ASSUME TypeOK, Stamped, Newest
  PROVE  NewestFailureWithholds
<1> SUFFICES ASSUME ReadBackStatus = "verified", NEW i \in DOMAIN saved, NEW g \in Gates,
                    ~saved[i][g].passed
             PROVE  \E j \in DOMAIN saved : saved[j][g].passed /\ saved[j][g].at > saved[i][g].at
  BY DEF NewestFailureWithholds
<1>1. saved # <<>> /\ saved \in Seq([Gates -> GateResult])
  BY DEF TypeOK
<1>2. ReadBack \in [Gates -> GateResult]
  <2>1. ASSUME NEW h \in Gates PROVE Latest(h) \in GateResult
    <3>1. PICK k \in DOMAIN saved : Latest(h) = saved[k][h]
      BY <1>1, LatestStored
    <3>2. saved[k] \in [Gates -> GateResult]
      BY <1>1
    <3>3. QED
      BY <3>1, <3>2
  <2>2. QED
    BY <2>1 DEF ReadBack
<1>3. Passed(ReadBack) \in GateVector /\ VerifyStatus(Passed(ReadBack)) = "verified"
  BY <1>1, <1>2, VerdictsTyped DEF ReadBackStatus
<1>4. Passed(ReadBack)[g]
  BY <1>3, VerifiedMeansAllPassed
<1>5. Latest(g).passed
  BY <1>2, <1>4 DEF Passed, ReadBack
<1>6. PICK j \in DOMAIN saved : Latest(g) = saved[j][g]
  BY <1>1, LatestStored
<1>7. saved[i][g].at <= saved[j][g].at
  BY <1>1, <1>6, LatestStored
<1>8. saved[i][g].at # saved[j][g].at
  <2>1. saved[i][g] \in Known(g) /\ saved[j][g] \in Known(g)
    BY DEF Known
  <2>2. saved[i][g] # saved[j][g]
    BY <1>5, <1>6
  <2>3. QED
    BY <2>1, <2>2 DEF Stamped
<1>9. saved[i][g].at \in Nat /\ saved[j][g].at \in Nat
  <2>1. saved[i] \in [Gates -> GateResult] /\ saved[j] \in [Gates -> GateResult]
    BY <1>1
  <2>2. QED
    BY <2>1 DEF GateResult
<1>10. QED
  BY <1>5, <1>6, <1>7, <1>8, <1>9

-----------------------------------------------------------------------------
(***************************************************************************)
(* While verifiers take turns.                                             *)
(***************************************************************************)

LEMMA InitTurn == Init => TurnInv
  BY DEF Init, TurnInv

LEMMA BeginTurn ==
  ASSUME TypeOK, TurnInv, NEW v \in Verifiers, Begin(v)
  PROVE  TurnInv'
<1> SUFFICES ASSUME ~overlapped' PROVE TurnInv'
  BY DEF TurnInv
<1>1. ~overlapped /\ \A u \in Verifiers : pc[u] = "idle"
  BY DEF TypeOK, Begin
<1>2. /\ pc'[v] = "gates" /\ DOMAIN results'[v] = {}
      /\ \A u \in Verifiers : u # v => pc'[u] = "idle"
  BY <1>1 DEF TypeOK, Begin
<1>3. row' = "pending" /\ saved' = saved
  BY DEF Begin
<1>4. saved # <<>> => \A g \in Gates : \A i \in DOMAIN saved : saved[i][g].at <= LastSaved[g].at
  BY <1>1 DEF TurnInv
<1>5. QED
  BY <1>2, <1>3, <1>4 DEF TurnInv, LastSaved

LEMMA RunGateTurn ==
  ASSUME TypeOK, Stamped, TurnInv, NEW v \in Verifiers, NEW passed \in BOOLEAN,
         RunGate(v, passed)
  PROVE  TurnInv'
<1> SUFFICES ASSUME ~overlapped' PROVE TurnInv'
  BY DEF TurnInv
<1> DEFINE gate == GateOrder[Cardinality(DOMAIN results[v]) + 1]
           r == [passed |-> passed, at |-> clock]
           new == [g \in DOMAIN results[v] \cup {gate} |-> IF g = gate THEN r ELSE results[v][g]]
<1>1. /\ ~overlapped /\ pc[v] = "gates" /\ pc' = pc /\ row' = row /\ saved' = saved /\ verdict' = verdict
      /\ results' = [results EXCEPT ![v] = new]
  BY DEF RunGate
<1>2. \A u \in Verifiers : u # v => pc[u] = "idle"
  BY <1>1 DEF TurnInv
<1>3. row = "pending"
  BY <1>1 DEF TurnInv
<1>4. results'[v] = new
  BY <1>1 DEF TypeOK
<1>5. gate \in Gates
  BY NextGate DEF TypeOK, RunGate
<1>6. ASSUME NEW i \in DOMAIN saved, NEW g \in DOMAIN results'[v]
      PROVE  saved[i][g].at < results'[v][g].at
  <2>1. CASE g = gate
    <3>1. saved[i][g] \in Known(g) /\ g \in Gates
      BY <1>5, <2>1 DEF Known
    <3>2. saved[i][g].at < clock
      BY <3>1 DEF Stamped
    <3>3. results'[v][g] = r
      BY <1>4, <2>1
    <3>4. QED
      BY <3>2, <3>3
  <2>2. CASE g # gate
    <3>1. g \in DOMAIN results[v] /\ results'[v][g] = results[v][g]
      BY <1>4, <2>2
    <3>2. QED
      BY <1>1, <3>1 DEF TurnInv
  <2>3. QED
    BY <2>1, <2>2
<1>7. saved # <<>> =>
        /\ \A g \in Gates : \A i \in DOMAIN saved : saved[i][g].at <= LastSaved[g].at
        /\ row \in {"pending"} \cup Verdicts(LastSaved)
  BY <1>1 DEF TurnInv
<1> HIDE DEF new, gate
<1>8. QED
  BY <1>1, <1>2, <1>3, <1>6, <1>7 DEF TurnInv, LastSaved

LEMMA DecideTurn ==
  ASSUME TypeOK, TurnInv, NEW v \in Verifiers, NEW objection \in BOOLEAN, Decide(v, objection)
  PROVE  TurnInv'
<1> SUFFICES ASSUME ~overlapped' PROVE TurnInv'
  BY DEF TurnInv
<1>1. /\ ~overlapped /\ pc[v] = "gates" /\ row' = row /\ saved' = saved /\ results' = results
  BY DEF Decide
<1>2. \A u \in Verifiers : u # v => pc'[u] = "idle"
  BY <1>1 DEF TurnInv, TypeOK, Decide
<1>3. row = "pending" /\ \A i \in DOMAIN saved, g \in DOMAIN results[v] : saved[i][g].at < results[v][g].at
  BY <1>1 DEF TurnInv
<1>4. pc'[v] = "store" /\ verdict'[v] \in Verdicts(results[v])
  BY DecideTyped DEF TypeOK, Decide
<1>5. saved # <<>> =>
        /\ \A g \in Gates : \A i \in DOMAIN saved : saved[i][g].at <= LastSaved[g].at
        /\ row \in {"pending"} \cup Verdicts(LastSaved)
  BY <1>1 DEF TurnInv
<1>6. QED
  BY <1>1, <1>2, <1>3, <1>4, <1>5 DEF TurnInv, LastSaved, Verdicts

LEMMA StoreTurn ==
  ASSUME TypeOK, TurnInv, NEW v \in Verifiers, Store(v)
  PROVE  TurnInv'
<1> SUFFICES ASSUME ~overlapped' PROVE TurnInv'
  BY DEF TurnInv
<1>1. /\ ~overlapped /\ pc[v] = "store" /\ saved' = Append(saved, results[v])
      /\ row' = verdict[v] /\ results' = results /\ verdict' = verdict
  BY DEF Store
<1>2. \A u \in Verifiers : u # v => pc'[u] = "idle"
  BY <1>1 DEF TurnInv, TypeOK, Store
<1>3. pc'[v] = "screen"
  BY DEF TypeOK, Store
<1>4. verdict[v] \in Verdicts(results[v]) /\ DOMAIN results[v] = Gates
  BY <1>1 DEF TurnInv, TypeOK
<1>5. results[v] \in [Gates -> GateResult] /\ saved \in Seq([Gates -> GateResult])
  BY <1>4, ReportTyped DEF TypeOK
<1>6. /\ saved' # <<>> /\ LastSaved' = results[v]
      /\ \A i \in DOMAIN saved' : (i \in DOMAIN saved /\ saved'[i] = saved[i]) \/ saved'[i] = results[v]
  BY <1>1, <1>5, AppendTyped DEF LastSaved
<1>7. ASSUME NEW g \in Gates, NEW i \in DOMAIN saved' PROVE saved'[i][g].at <= results[v][g].at
  <2>1. results[v][g].at \in Nat /\ \A k \in DOMAIN saved : saved[k][g].at \in Nat
    <3>1. \A y \in [Gates -> GateResult] : y[g].at \in Nat
      BY DEF GateResult
    <3>2. \A k \in DOMAIN saved : saved[k] \in [Gates -> GateResult]
      BY <1>5
    <3>3. QED
      BY <1>5, <3>1, <3>2
  <2>2. CASE saved'[i] = results[v]
    BY <2>1, <2>2
  <2>3. CASE i \in DOMAIN saved /\ saved'[i] = saved[i]
    <3>1. saved[i][g].at < results[v][g].at
      BY <1>1, <1>4, <2>3 DEF TurnInv
    <3>2. QED
      BY <2>1, <2>3, <3>1
  <2>4. QED
    BY <1>6, <2>2, <2>3
<1>8. QED
  BY <1>1, <1>2, <1>3, <1>4, <1>6, <1>7 DEF TurnInv, Verdicts

LEMMA ScreenTurn ==
  ASSUME TypeOK, TurnInv, NEW v \in Verifiers, NEW useless \in BOOLEAN, Screen(v, useless)
  PROVE  TurnInv'
<1> SUFFICES ASSUME ~overlapped' PROVE TurnInv'
  BY DEF TurnInv
<1>1. ~overlapped /\ pc[v] = "screen" /\ results' = results
  BY DEF Screen
<1>2. \A u \in Verifiers : pc'[u] = "idle"
  BY <1>1 DEF TurnInv, TypeOK, Screen
<1>3. saved # <<>> /\ LastSaved = results[v] /\ row = verdict[v] /\ verdict[v] \in Verdicts(results[v])
  BY <1>1 DEF TurnInv
<1>4. /\ results[v] \in [Gates -> GateResult] /\ saved \in Seq([Gates -> GateResult])
  BY <1>1, ReportTyped DEF TypeOK
<1>5. \A g \in Gates : \A i \in DOMAIN saved : saved[i][g].at <= results[v][g].at
  BY <1>1, <1>3 DEF TurnInv
<1>6. CASE useless /\ verdict[v] = "verified"
  <2>1. saved' = Append(saved, results[v]) /\ row' = "flagged" /\ verdict'[v] = "flagged"
    BY <1>6 DEF TypeOK, Screen
  <2>2. "flagged" \in Verdicts(results[v])
    <3>1. VerifyStatus(Passed(results[v])) = "verified"
      BY <1>3, <1>6 DEF Verdicts, Demote
    <3>2. QED
      BY <3>1 DEF Verdicts, Demote
  <2>3. /\ saved' # <<>> /\ LastSaved' = results[v]
        /\ \A i \in DOMAIN saved' : (i \in DOMAIN saved /\ saved'[i] = saved[i]) \/ saved'[i] = results[v]
    BY <1>4, <2>1, AppendTyped DEF LastSaved
  <2>4. ASSUME NEW g \in Gates, NEW i \in DOMAIN saved' PROVE saved'[i][g].at <= results[v][g].at
    <3>1. results[v][g].at \in Nat
      BY <1>4 DEF GateResult
    <3>2. QED
      BY <1>5, <2>3, <3>1
  <2>5. QED
    BY <1>2, <2>1, <2>2, <2>3, <2>4 DEF TurnInv, Verdicts
<1>7. CASE ~(useless /\ verdict[v] = "verified")
  <2>1. saved' = saved /\ row' = row /\ verdict' = verdict
    BY <1>7 DEF Screen
  <2>2. QED
    BY <1>2, <1>3, <1>5, <2>1 DEF TurnInv, LastSaved, Verdicts
<1>8. QED
  BY <1>6, <1>7

LEMMA NextTurn ==
  ASSUME TypeOK, Stamped, TurnInv, [Next]_vars
  PROVE  TurnInv'
<1>1. CASE UNCHANGED vars
  BY <1>1 DEF vars, TurnInv, LastSaved, Verdicts
<1>2. QED
  BY <1>1, BeginTurn, RunGateTurn, DecideTurn, StoreTurn, ScreenTurn DEF Next

(* While verifiers take turns the rows read are those of the last report.  *)
LEMMA TurnsAgree ==
  ASSUME TypeOK, Stamped, Newest, TurnInv
  PROVE  StatusFollowsGates
<1> SUFFICES ASSUME saved # <<>>, ~overlapped
             PROVE  /\ ReadBack = LastSaved
                    /\ row \in {"pending"} \cup {Demote(ReadBackStatus, o) : o \in BOOLEAN}
                    /\ \A v \in Verifiers : pc[v] = "screen" => row = verdict[v]
                    /\ (\A v \in Verifiers : pc[v] = "idle") => \E v \in Verifiers : row = verdict[v]
  BY DEF StatusFollowsGates, LastSaved
<1>1. saved \in Seq([Gates -> GateResult]) /\ Len(saved) \in DOMAIN saved
  BY DEF TypeOK
<1>2. LastSaved \in [Gates -> GateResult]
  BY <1>1 DEF LastSaved
<1>3. ASSUME NEW g \in Gates PROVE Latest(g) = LastSaved[g]
  <2>1. PICK i \in DOMAIN saved : Latest(g) = saved[i][g]
    BY LatestStored
  <2>2. saved[i][g].at <= LastSaved[g].at /\ LastSaved[g].at <= saved[i][g].at
    BY <1>1, <2>1, LatestStored DEF TurnInv, LastSaved
  <2>3. saved[i] \in [Gates -> GateResult]
    BY <1>1
  <2>4. saved[i][g].at = LastSaved[g].at
    BY <1>2, <2>2, <2>3 DEF GateResult
  <2>5. saved[i][g] \in Known(g) /\ LastSaved[g] \in Known(g)
    BY <1>1 DEF Known, LastSaved
  <2>6. QED
    BY <2>1, <2>4, <2>5 DEF Stamped
<1>4. ReadBack = LastSaved
  BY <1>2, <1>3 DEF ReadBack
<1>5. ReadBackStatus = VerifyStatus(Passed(LastSaved))
  BY <1>2, <1>4, VerdictsTyped DEF ReadBackStatus
<1>6. QED
  BY <1>4, <1>5 DEF TurnInv, Verdicts

-----------------------------------------------------------------------------
(***************************************************************************)
(* Theorems of every behaviour.                                            *)
(***************************************************************************)

StoreInv == TypeOK /\ Stamped /\ Newest /\ TurnInv

LEMMA StoreInvHolds == Spec => []StoreInv
<1>1. Init => StoreInv
  BY InitTyped, InitStamped, InitTurn DEF StoreInv, Init, Newest
<1>2. StoreInv /\ [Next]_vars => StoreInv'
  BY NextTyped, NextStamped, NextNewest, NextTurn DEF StoreInv
<1>3. QED
  BY <1>1, <1>2, PTL DEF Spec

(* However many verifiers there are and in whatever order they store, and  *)
(* store again, what latest_verification reads of a gate never goes back   *)
(* in time (order_by ran_at).                                              *)
THEOREM ReadsNoOlder == Spec => NeverReadsOlder
<1>1. StoreInv /\ StoreInv' /\ [Next]_vars
        => [saved # <<>> => \A gate \in Gates : Latest(gate)'.at >= Latest(gate).at]_vars
  BY NextReadsNoOlder DEF StoreInv
<1>2. QED
  BY <1>1, StoreInvHolds, PTL DEF Spec, NeverReadsOlder

(* "verified" is read back only of the newest results, all passed, and as  *)
(* long as verifiers have taken turns the claim's status and the verdict   *)
(* read back are those of the last report (save_verification).             *)
THEOREM NewestIsReadBack == Spec => []ReadBackIsNewest
<1>1. StoreInv => ReadBackIsNewest
  BY ReadBackPassed, TurnsAgree DEF StoreInv, ReadBackIsNewest
<1>2. QED
  BY <1>1, StoreInvHolds, PTL

-----------------------------------------------------------------------------
(* What a thread is indexing is of its document, its texts are noted, and  *)
(* before it registers the document its points are written.                *)
IndexingInv ==
  \A t \in Threads :
    /\ \A c \in chunks[t] : DocOf[ElementOf[c]] = doc[t]
    /\ step[t] = "upsert"   => chunks[t] \subseteq childText
    /\ step[t] = "register" => chunks[t] \subseteq points \cap childText

Querying(t) == step[t] \in {"filter", "build"}

(* A query on its own has the service to itself until it is answered: its  *)
(* ranking is of the points as they are, and its candidates are what the   *)
(* maps as they are let pass.                                              *)
QueryInv ==
  \A t \in Threads : alone[t] =>
    /\ Querying(t) =>
         /\ Others(t) = {}
         /\ Distinct(ranked[t]) /\ ToSet(ranked[t]) \subseteq points
         /\ Len(ranked[t]) = Min({SearchLimit, Cardinality(points)})
    /\ step[t] = "build" =>
         kept[t] = First(Kept(ranked[t], Passing(asked[t])), TopInitial)

RetrievalInv ==
  IndexTypeOK /\ IndexingInv /\ RegisteredIsSearchable /\ QueryInv /\ OwnJurisdictionOnly

-----------------------------------------------------------------------------
(***************************************************************************)
(* The operators the model is built from.                                  *)
(***************************************************************************)

(* The first n of a list are its elements in their places.                 *)
LEMMA FirstProperties ==
  ASSUME NEW T, NEW s \in Seq(T), NEW n \in Nat
  PROVE  /\ First(s, n) \in Seq(T)
         /\ Len(First(s, n)) = Min({n, Len(s)}) /\ Len(First(s, n)) <= Len(s)
         /\ \A i \in DOMAIN First(s, n) : i \in DOMAIN s /\ First(s, n)[i] = s[i]
<1> DEFINE m == Min({n, Len(s)})
<1>1. m \in 0..Len(s)
  BY MinOfTwo
<1> HIDE DEF m
<1>2. First(s, n) = SubSeq(s, 1, m)
  BY DEF First, m
<1>3. \A i \in 1..m : i \in DOMAIN s /\ s[i] \in T
  BY <1>1
<1>4. /\ SubSeq(s, 1, m) \in Seq(T) /\ Len(SubSeq(s, 1, m)) = m
      /\ \A i \in 1..m : SubSeq(s, 1, m)[i] = s[i]
  BY <1>1, <1>3, SubSeqProperties
<1>5. DOMAIN First(s, n) = 1..m /\ Len(First(s, n)) = m /\ First(s, n) \in Seq(T)
  BY <1>1, <1>2, <1>4
<1>6. \A i \in DOMAIN First(s, n) : i \in DOMAIN s /\ First(s, n)[i] = s[i]
  BY <1>2, <1>3, <1>4, <1>5
<1>7. Len(First(s, n)) <= Len(s)
  BY <1>1, <1>5
<1>8. QED
  BY <1>5, <1>6, <1>7 DEF m

(* A permutation of a finite set is a list of it without repetitions.      *)
LEMMA PermutationProperties ==
  ASSUME NEW S, IsFiniteSet(S), NEW order \in SetToSeqs(S)
  PROVE  order \in Seq(S) /\ Distinct(order) /\ Len(order) = Cardinality(S)
<1>1. Cardinality(S) \in Nat
  BY FS_CardinalityType
<1>2. order \in [1..Cardinality(S) -> S]
  BY DEF SetToSeqs
<1>3. order \in Seq(S) /\ Len(order) = Cardinality(S)
  BY <1>1, <1>2
<1>4. QED
  BY <1>2, <1>3 DEF SetToSeqs, Distinct

-----------------------------------------------------------------------------
(***************************************************************************)
(* Types.                                                                  *)
(***************************************************************************)

(* Points are children of the index, of which there are finitely many.     *)
LEMMA PointsAreFinite ==
  ASSUME IndexTypeOK
  PROVE  IsFiniteSet(points) /\ Cardinality(points) \in Nat
  BY FS_Subset, FS_CardinalityType, MapAssumption DEF IndexTypeOK

(* A search yields a list of points without repetitions, as many as the    *)
(* limit allows.                                                           *)
LEMMA SearchFinds ==
  ASSUME IndexTypeOK,
         NEW found \in kSubset(Min({SearchLimit, Cardinality(points)}), points),
         NEW ranking \in SetToSeqs(found)
  PROVE  /\ ranking \in Seq(Children) /\ Distinct(ranking) /\ ToSet(ranking) \subseteq points
         /\ Len(ranking) = Min({SearchLimit, Cardinality(points)})
<1>1. found \subseteq points /\ Cardinality(found) = Min({SearchLimit, Cardinality(points)})
  BY DEF kSubset
<1>2. IsFiniteSet(found)
  BY <1>1, PointsAreFinite, FS_Subset
<1>3. ranking \in Seq(found) /\ Distinct(ranking) /\ Len(ranking) = Cardinality(found)
  BY <1>2, PermutationProperties
<1>4. ToSet(ranking) \subseteq found
  BY <1>3 DEF ToSet
<1>5. ranking \in Seq(Children)
  BY <1>1, <1>3 DEF IndexTypeOK
<1>6. QED
  BY <1>1, <1>3, <1>4, <1>5

(* What is kept and what is built are lists of children.                   *)
LEMMA ListsAreTyped ==
  ASSUME IndexTypeOK, NEW t \in Threads
  PROVE  /\ First(Kept(ranked[t], Passing(asked[t])), TopInitial) \in Seq(Children)
         /\ \A order \in SetToSeqs(ToSet(kept[t])) :
              Kept(First(order, TopK), {c \in Children : Owned(c)}) \in Seq(Children)
<1>1. ranked[t] \in Seq(Children) /\ kept[t] \in Seq(Children) /\ TopInitial \in Nat /\ TopK \in Nat
  BY LimitAssumption DEF IndexTypeOK
<1>2. Kept(ranked[t], Passing(asked[t])) \in Seq(Children)
  BY <1>1, KeptProperties
<1>3. First(Kept(ranked[t], Passing(asked[t])), TopInitial) \in Seq(Children)
  BY <1>1, <1>2, FirstProperties
<1>4. ASSUME NEW order \in SetToSeqs(ToSet(kept[t]))
      PROVE  Kept(First(order, TopK), {c \in Children : Owned(c)}) \in Seq(Children)
  <2>1. ToSet(kept[t]) \subseteq Children
    BY <1>1 DEF ToSet
  <2>2. IsFiniteSet(ToSet(kept[t]))
    <3>1. Len(kept[t]) \in Nat /\ kept[t] \in Surjection(1..Len(kept[t]), ToSet(kept[t]))
      BY <1>1, ListIsOntoItsElements
    <3>2. QED
      BY <3>1, FS_NatSurjection DEF ExistsSurjection
  <2>3. order \in Seq(Children)
    BY <2>1, <2>2, PermutationProperties
  <2>4. First(order, TopK) \in Seq(Children)
    BY <1>1, <2>3, FirstProperties
  <2>5. QED
    BY <2>4, KeptProperties
<1>5. QED
  BY <1>3, <1>4

LEMMA IndexInitTyped ==
  ASSUME IndexInit
  PROVE  IndexTypeOK
<1>1. docs \in [{} -> SUBSET Elements] /\ DOMAIN docs = {}
  BY DEF IndexInit
<1>2. /\ (CHOOSE d \in Documents : TRUE) \in Documents
      /\ (CHOOSE j \in Jurisdictions : TRUE) \in Jurisdictions
  BY MapAssumption
<1>3. doc \in [Threads -> Documents] /\ asked \in [Threads -> Jurisdictions]
  BY <1>2 DEF IndexInit
<1>4. {ranked, kept, hits} \subseteq [Threads -> Seq(Children)]
  BY DEF IndexInit
<1>5. /\ points \subseteq Children /\ childText \subseteq Children
      /\ step \in [Threads -> {"idle", "upsert", "register", "filter", "build", "answered"}]
      /\ chunks \in [Threads -> SUBSET Children] /\ alone \in [Threads -> BOOLEAN]
  BY DEF IndexInit
<1>6. indexings \in 0..MaxIndexings /\ queries \in 0..MaxQueries /\ restarts \in 0..MaxRestarts
  BY LimitAssumption DEF IndexInit
<1>7. \E registered \in SUBSET Documents : docs \in [registered -> SUBSET Elements]
  BY <1>1
<1>8. QED
  BY <1>1, <1>3, <1>4, <1>5, <1>6, <1>7 DEF IndexTypeOK

LEMMA IndexNextTyped ==
  ASSUME IndexTypeOK, IndexingInv, [IndexNext]_indexVars
  PROVE  IndexTypeOK'
<1> USE DEF IndexTypeOK, Working
<1>1. ASSUME NEW t \in Threads, NEW d \in Documents,
             NEW extracted \in SUBSET {c \in Children : DocOf[ElementOf[c]] = d},
             Index(t, d, extracted)
      PROVE  IndexTypeOK'
  <2>1. childText' \subseteq Children /\ indexings' \in 0..MaxIndexings
    BY <1>1, LimitAssumption DEF Index
  <2>2. /\ step' \in [Threads -> {"idle", "upsert", "register", "filter", "build", "answered"}]
        /\ doc' \in [Threads -> Documents] /\ chunks' \in [Threads -> SUBSET Children]
        /\ alone' \in [Threads -> BOOLEAN]
    BY <1>1 DEF Index
  <2>3. QED
    BY <1>1, <2>1, <2>2 DEF Index, query
<1>2. ASSUME NEW t \in Threads, Upsert(t) PROVE IndexTypeOK'
  BY <1>2 DEF Upsert, memory, work, query, bounds
<1>3. ASSUME NEW t \in Threads, IndexFails(t) PROVE IndexTypeOK'
  BY <1>3 DEF IndexFails, memory, work, query, bounds
<1>4. ASSUME NEW t \in Threads, Register(t) PROVE IndexTypeOK'
  <2>1. PICK registered \in SUBSET Documents : docs \in [registered -> SUBSET Elements]
    OBVIOUS
  <2>2. {ElementOf[c] : c \in chunks[t]} \subseteq Elements
    BY MapAssumption
  <2>3. docs' \in [registered \cup {doc[t]} -> SUBSET Elements]
    BY <1>4, <2>1, <2>2 DEF Register
  <2>4. registered \cup {doc[t]} \in SUBSET Documents
    OBVIOUS
  <2>5. \A d \in DOMAIN docs' : \A e \in docs'[d] : DocOf[e] = d
    BY <1>4 DEF Register, IndexingInv
  <2>6. step' \in [Threads -> {"idle", "upsert", "register", "filter", "build", "answered"}]
    BY <1>4 DEF Register
  <2>7. QED
    BY <1>4, <2>3, <2>4, <2>5, <2>6 DEF Register, work, query, bounds
<1>5. ASSUME NEW t \in Threads, NEW j \in Jurisdictions, Search(t, j) PROVE IndexTypeOK'
  <2>1. PICK found \in kSubset(Min({SearchLimit, Cardinality(points)}), points) :
          \E ranking \in SetToSeqs(found) : ranked' = [ranked EXCEPT ![t] = ranking]
    BY <1>5 DEF Search
  <2>0. PICK ranking \in SetToSeqs(found) : ranked' = [ranked EXCEPT ![t] = ranking]
    BY <2>1
  <2>2. ranking \in Seq(Children)
    BY SearchFinds
  <2>3. {ranked', kept', hits'} \subseteq [Threads -> Seq(Children)]
    BY <1>5, <2>0, <2>2 DEF Search
  <2>4. alone' \in [Threads -> BOOLEAN] /\ asked' \in [Threads -> Jurisdictions]
    BY <1>5 DEF Search
  <2>5. queries' \in 0..MaxQueries
    BY <1>5, LimitAssumption DEF Search
  <2>6. QED
    BY <1>5, <2>3, <2>4, <2>5 DEF Search, memory, work
<1>6. ASSUME NEW t \in Threads, Filter(t) PROVE IndexTypeOK'
  BY <1>6, ListsAreTyped DEF Filter, memory, work, bounds
<1>7. ASSUME NEW t \in Threads, Build(t) PROVE IndexTypeOK'
  <2>1. PICK order \in SetToSeqs(ToSet(kept[t])) :
          hits' = [hits EXCEPT ![t] = Kept(First(order, TopK), {c \in Children : Owned(c)})]
    BY <1>7 DEF Build
  <2>2. Kept(First(order, TopK), {c \in Children : Owned(c)}) \in Seq(Children)
    BY ListsAreTyped
  <2>3. hits' \in [Threads -> Seq(Children)]
    BY <2>1, <2>2
  <2>4. QED
    BY <1>7, <2>3 DEF Build, memory, work, bounds
<1>8. CASE Restart
  <2>1. docs' \in [{} -> SUBSET Elements] /\ DOMAIN docs' = {}
    BY <1>8 DEF Restart
  <2>2. restarts' \in 0..MaxRestarts
    BY <1>8, LimitAssumption DEF Restart
  <2>3. QED
    BY <1>8, <2>1, <2>2 DEF Restart, work, query
<1>9. CASE UNCHANGED indexVars
  BY <1>9 DEF indexVars, memory, work, query, bounds
<1>10. QED
  BY <1>1, <1>2, <1>3, <1>4, <1>5, <1>6, <1>7, <1>8, <1>9 DEF IndexNext

-----------------------------------------------------------------------------
(***************************************************************************)
(* The index.                                                              *)
(***************************************************************************)

LEMMA NextIndexes ==
  ASSUME IndexTypeOK, IndexingInv, [IndexNext]_indexVars
  PROVE  IndexingInv'
<1> USE DEF IndexTypeOK, IndexingInv
<1>1. ASSUME NEW t \in Threads, NEW d \in Documents,
             NEW extracted \in SUBSET {c \in Children : DocOf[ElementOf[c]] = d},
             Index(t, d, extracted)
      PROVE  IndexingInv'
  BY <1>1 DEF Index
<1>2. ASSUME NEW t \in Threads, Upsert(t) PROVE IndexingInv'
  BY <1>2 DEF Upsert, memory, work
<1>3. ASSUME NEW t \in Threads, IndexFails(t) PROVE IndexingInv'
  BY <1>3 DEF IndexFails, memory, work
<1>4. ASSUME NEW t \in Threads, Register(t) PROVE IndexingInv'
  BY <1>4 DEF Register, work
<1>5. ASSUME NEW t \in Threads, NEW j \in Jurisdictions, Search(t, j) PROVE IndexingInv'
  BY <1>5 DEF Search, memory, work
<1>6. ASSUME NEW t \in Threads, Filter(t) PROVE IndexingInv'
  BY <1>6 DEF Filter, memory, work
<1>7. ASSUME NEW t \in Threads, Build(t) PROVE IndexingInv'
  BY <1>7 DEF Build, memory, work
<1>8. CASE Restart
  BY <1>8 DEF Restart, work
<1>9. CASE UNCHANGED indexVars
  BY <1>9 DEF indexVars, memory, work
<1>10. QED
  BY <1>1, <1>2, <1>3, <1>4, <1>5, <1>6, <1>7, <1>8, <1>9 DEF IndexNext

(* Points and texts only grow between restarts, and a document is          *)
(* registered with the elements of chunks that have both.                  *)
LEMMA NextSearchable ==
  ASSUME IndexTypeOK, IndexingInv, RegisteredIsSearchable, [IndexNext]_indexVars
  PROVE  RegisteredIsSearchable'
<1>1. CASE UNCHANGED docs /\ points \subseteq points' /\ childText \subseteq childText'
  BY <1>1 DEF RegisteredIsSearchable
<1>2. ASSUME NEW t \in Threads, Register(t) PROVE RegisteredIsSearchable'
  <2>1. chunks[t] \subseteq points \cap childText
    BY <1>2 DEF Register, IndexingInv
  <2>2. ASSUME NEW d \in DOMAIN docs', NEW e \in docs'[d]
        PROVE  \E c \in points \cap childText : ElementOf[c] = e
    <3>1. CASE d = doc[t]
      BY <1>2, <2>1, <2>2, <3>1 DEF Register
    <3>2. CASE d # doc[t]
      <4>1. d \in DOMAIN docs /\ docs'[d] = docs[d]
        BY <1>2, <2>2, <3>2 DEF Register
      <4>2. QED
        BY <2>2, <4>1 DEF RegisteredIsSearchable
    <3>3. QED
      BY <3>1, <3>2
  <2>3. QED
    BY <1>2, <2>2 DEF RegisteredIsSearchable, Register
<1>3. CASE Restart
  <2>1. DOMAIN docs' = {}
    BY <1>3 DEF Restart
  <2>2. QED
    BY <2>1 DEF RegisteredIsSearchable
<1>4. CASE UNCHANGED indexVars
  BY <1>1, <1>4 DEF indexVars, memory
<1>5. QED
  BY <1>1, <1>2, <1>3, <1>4
    DEF IndexNext, Index, Upsert, IndexFails, Search, Filter, Build, memory

-----------------------------------------------------------------------------
(***************************************************************************)
(* Queries.                                                                *)
(***************************************************************************)

(* What a thread does leaves a query of another one alone that is not at   *)
(* the same time at work.                                                  *)
LEMMA NextQueries ==
  ASSUME IndexTypeOK, QueryInv, [IndexNext]_indexVars
  PROVE  QueryInv'
<1> DEFINE Q(t) == /\ Querying(t) =>
                        /\ Others(t) = {}
                        /\ Distinct(ranked[t]) /\ ToSet(ranked[t]) \subseteq points
                        /\ Len(ranked[t]) = Min({SearchLimit, Cardinality(points)})
                   /\ step[t] = "build" =>
                        kept[t] = First(Kept(ranked[t], Passing(asked[t])), TopInitial)
<1> SUFFICES ASSUME NEW t \in Threads, alone'[t] PROVE Q(t)'
  BY DEF QueryInv
<1>0. alone[t] => Q(t)
  BY DEF QueryInv
<1> USE DEF IndexTypeOK
<1>1. CASE ~Querying(t)'
  BY <1>1 DEF Querying
<1>2. ASSUME NEW u \in Threads, NEW d \in Documents,
             NEW extracted \in SUBSET {c \in Children : DocOf[ElementOf[c]] = d},
             Index(u, d, extracted), Querying(t)'
      PROVE  FALSE
  <2>1. u # t /\ Querying(t)
    BY <1>2 DEF Index, Querying
  <2>2. t \notin Others(u)
    BY <1>2 DEF Index
  <2>3. QED
    BY <2>1, <2>2 DEF Others, Working, Querying
<1>3. ASSUME NEW u \in Threads, step[u] \in {"upsert", "register"}, UNCHANGED alone,
             step' \in {step} \cup {[step EXCEPT ![u] = x] : x \in {"register", "idle"}}, Querying(t)'
      PROVE  FALSE
  <2>1. u # t /\ Querying(t) /\ alone[t]
    BY <1>3 DEF Querying
  <2>2. u \in Others(t)
    BY <1>3, <2>1 DEF Others, Working
  <2>3. QED
    BY <1>0, <2>1, <2>2
<1>4. ASSUME NEW u \in Threads, NEW j \in Jurisdictions, Search(u, j), Querying(t)'
      PROVE  Q(t)'
  <2>1. CASE u # t
    <3>1. Querying(t) /\ t \notin Others(u)
      BY <1>4, <2>1 DEF Search, Querying
    <3>2. QED
      BY <2>1, <3>1 DEF Others, Working, Querying
  <2>2. CASE u = t
    <3>1. PICK found \in kSubset(Min({SearchLimit, Cardinality(points)}), points) :
            \E ranking \in SetToSeqs(found) : ranked' = [ranked EXCEPT ![t] = ranking]
      BY <1>4, <2>2 DEF Search
    <3>2. PICK ranking \in SetToSeqs(found) : ranked' = [ranked EXCEPT ![t] = ranking]
      BY <3>1
    <3>3. ranked'[t] = ranking /\ points' = points
      BY <1>4, <3>2 DEF Search
    <3>4. /\ Distinct(ranking) /\ ToSet(ranking) \subseteq points
          /\ Len(ranking) = Min({SearchLimit, Cardinality(points)})
      BY SearchFinds
    <3>5. step' = [step EXCEPT ![t] = "filter"] /\ Others(t) = {}
      BY <1>4, <2>2 DEF Search
    <3>6. Others(t)' = {}
      BY <3>5 DEF Others, Working
    <3>7. QED
      BY <3>3, <3>4, <3>5, <3>6
  <2>3. QED
    BY <2>1, <2>2
<1>5. ASSUME NEW u \in Threads, Filter(u) \/ Build(u), Querying(t)'
      PROVE  Q(t)'
  <2>1. alone[t] /\ Querying(t) /\ Querying(u)
    BY <1>5 DEF Filter, Build, Querying
  <2>2. u = t
    BY <1>0, <2>1 DEF Others, Working, Querying
  <2>3. Filter(t)
    BY <1>5, <2>2 DEF Build, Querying
  <2>4. UNCHANGED <<points, childText, docs, asked, ranked>> /\ step' = [step EXCEPT ![t] = "build"]
    BY <2>3 DEF Filter, memory
  <2>5. Others(t)' = {}
    BY <1>0, <2>1, <2>4 DEF Others, Working
  <2>6. kept'[t] = First(Kept(ranked[t], Passing(asked[t])), TopInitial)
    BY <2>3 DEF Filter
  <2>7. Passing(asked[t])' = Passing(asked[t])
    BY <2>4 DEF Passing, Owned
  <2>8. QED
    BY <1>0, <2>1, <2>4, <2>5, <2>6, <2>7
<1>6. CASE Restart
  BY <1>1, <1>6 DEF Restart, Querying
<1>7. CASE UNCHANGED indexVars
  BY <1>0, <1>7 DEF indexVars, memory, query, Querying, Others, Working, Passing, Owned
<1>8. ASSUME NEW u \in Threads, Upsert(u) \/ IndexFails(u) \/ Register(u), Querying(t)'
      PROVE  FALSE
  <2>1. step[u] \in {"upsert", "register"} /\ UNCHANGED alone
    BY <1>8 DEF Upsert, IndexFails, Register
  <2>2. step' \in {step} \cup {[step EXCEPT ![u] = x] : x \in {"register", "idle"}}
    BY <1>8 DEF Upsert, IndexFails, Register
  <2>3. QED
    BY <1>3, <1>8, <2>1, <2>2
<1>9. QED
  BY <1>1, <1>2, <1>4, <1>5, <1>6, <1>7, <1>8 DEF IndexNext

-----------------------------------------------------------------------------
(***************************************************************************)
(* Answers.                                                                *)
(***************************************************************************)

(* What Build makes of the candidates of a query.                          *)
Answer(t, order) == Kept(First(order, TopK), {c \in Children : Owned(c)})

(* The hits are candidates with an owner.                                  *)
LEMMA AnswerIsOfCandidates ==
  ASSUME IndexTypeOK, NEW t \in Threads,
         NEW order \in SetToSeqs(ToSet(kept[t])), NEW c \in ToSet(Answer(t, order))
  PROVE  c \in ToSet(kept[t]) /\ Owned(c)
<1>1. kept[t] \in Seq(Children) /\ TopK \in Nat /\ ToSet(kept[t]) \subseteq Children
  BY LimitAssumption DEF IndexTypeOK, ToSet
<1>2. IsFiniteSet(ToSet(kept[t]))
  BY <1>1, ListIsOntoItsElements, FS_NatSurjection DEF ExistsSurjection
<1>3. order \in Seq(ToSet(kept[t])) /\ order \in Seq(Children)
  BY <1>1, <1>2, PermutationProperties
<1>4. /\ First(order, TopK) \in Seq(Children)
      /\ \A i \in DOMAIN First(order, TopK) : i \in DOMAIN order /\ First(order, TopK)[i] = order[i]
  BY <1>1, <1>3, FirstProperties
<1>5. PICK i \in DOMAIN Answer(t, order) : c = Answer(t, order)[i]
  BY DEF ToSet
<1>6. /\ c \in {x \in Children : Owned(x)}
      /\ \E j \in DOMAIN First(order, TopK) : c = First(order, TopK)[j]
  <2> DEFINE list  == First(order, TopK)
             owned == {x \in Children : Owned(x)}
  <2> HIDE DEF list, owned
  <2>1. list \in Seq(Children) /\ i \in DOMAIN Kept(list, owned) /\ c = Kept(list, owned)[i]
    BY <1>4, <1>5 DEF Answer, list, owned
  <2>2. c \in owned /\ \E j \in DOMAIN list : c = list[j]
    BY <2>1, KeptProperties
  <2>3. QED
    BY <2>2 DEF list, owned
<1>7. PICK j \in DOMAIN order : c = order[j]
  BY <1>4, <1>6
<1>8. c \in ToSet(kept[t])
  BY <1>3, <1>7
<1>9. QED
  BY <1>6, <1>8

(* A hit is of the jurisdiction that was asked for: its document let it    *)
(* pass the filter, and nobody has changed the documents since.            *)
LEMMA NextOwnJurisdiction ==
  ASSUME IndexTypeOK, QueryInv, OwnJurisdictionOnly, [IndexNext]_indexVars
  PROVE  OwnJurisdictionOnly'
<1> USE DEF IndexTypeOK
<1> SUFFICES ASSUME NEW t \in Threads, alone'[t], NEW c \in ToSet(hits'[t])
             PROVE  JurisdictionOf[DocOf[ElementOf[c]]] = asked'[t]
  BY DEF OwnJurisdictionOnly, ToSet
<1>1. CASE hits'[t] = hits[t] /\ asked'[t] = asked[t] /\ (alone'[t] => alone[t])
  BY <1>1 DEF OwnJurisdictionOnly
<1>2. ASSUME NEW u \in Threads, NEW d \in Documents,
             NEW extracted \in SUBSET {x \in Children : DocOf[ElementOf[x]] = d},
             Index(u, d, extracted)
      PROVE  hits'[t] = hits[t] /\ asked'[t] = asked[t] /\ (alone'[t] => alone[t])
  BY <1>2 DEF Index, query
<1>3. ASSUME NEW u \in Threads, NEW j \in Jurisdictions, Search(u, j)
      PROVE  JurisdictionOf[DocOf[ElementOf[c]]] = asked'[t]
  <2>1. CASE u = t
    <3>1. hits'[t] = <<>>
      BY <1>3, <2>1 DEF Search
    <3>2. ToSet(hits'[t]) = {}
      BY <3>1 DEF ToSet
    <3>3. QED
      BY <3>2
  <2>2. CASE u # t
    BY <1>1, <1>3, <2>2 DEF Search
  <2>3. QED
    BY <2>1, <2>2
<1>4. ASSUME NEW u \in Threads, Build(u)
      PROVE  JurisdictionOf[DocOf[ElementOf[c]]] = asked'[t]
  <2>1. CASE u # t
    BY <1>1, <1>4, <2>1 DEF Build
  <2>2. CASE u = t
    <3>1. PICK order \in SetToSeqs(ToSet(kept[t])) : hits' = [hits EXCEPT ![t] = Answer(t, order)]
      BY <1>4, <2>2 DEF Build, Answer
    <3>2. c \in ToSet(kept[t]) /\ Owned(c)
      BY <3>1, AnswerIsOfCandidates
    <3>3. alone[t] /\ asked'[t] = asked[t]
      BY <1>4, <2>2 DEF Build
    <3>4. kept[t] = First(Kept(ranked[t], Passing(asked[t])), TopInitial)
      BY <1>4, <2>2, <3>3 DEF Build, QueryInv
    <3>5. \A i \in DOMAIN kept[t] : kept[t][i] \in Passing(asked[t])
      <4> DEFINE passing == Kept(ranked[t], Passing(asked[t]))
      <4>1. ranked[t] \in Seq(Children) /\ TopInitial \in Nat
        BY LimitAssumption
      <4>2. /\ passing \in Seq(Children)
            /\ \A i \in DOMAIN passing : passing[i] \in Passing(asked[t])
        BY <4>1, KeptProperties
      <4>3. kept[t] = First(passing, TopInitial)
        BY <3>4
      <4> HIDE DEF passing, IndexTypeOK
      <4>4. \A i \in DOMAIN First(passing, TopInitial) :
              i \in DOMAIN passing /\ First(passing, TopInitial)[i] = passing[i]
        BY <4>1, <4>2, FirstProperties
      <4>5. QED
        BY <4>2, <4>3, <4>4
    <3>6. c \in Passing(asked[t])
      BY <3>2, <3>5 DEF ToSet
    <3>7. QED
      BY <3>2, <3>3, <3>6 DEF Passing
  <2>3. QED
    BY <2>1, <2>2
<1>5. CASE Restart
  BY <1>1, <1>5 DEF Restart, query
<1>6. CASE UNCHANGED indexVars
  BY <1>1, <1>6 DEF indexVars, query
<1>7. ASSUME NEW u \in Threads, Upsert(u) \/ IndexFails(u) \/ Register(u) \/ Filter(u)
      PROVE  hits'[t] = hits[t] /\ asked'[t] = asked[t] /\ (alone'[t] => alone[t])
  BY <1>7 DEF Upsert, IndexFails, Register, Filter, query
<1>8. QED
  BY <1>1, <1>2, <1>3, <1>4, <1>5, <1>6, <1>7 DEF IndexNext

(* A query that ranks all points loses none of its jurisdiction until the  *)
(* lists are cut to their lengths.                                         *)
LEMMA AnswerIsComplete ==
  ASSUME IndexTypeOK, QueryInv,
         NEW t \in Threads, Build(t), alone[t],
         Orphans = {}, Cardinality(points) <= SearchLimit
  PROVE  Len(hits'[t]) = Min({TopK, Cardinality(Live(asked[t]))})
<1> DEFINE live    == Live(asked[t])
           passing == Kept(ranked[t], Passing(asked[t]))
           owned   == {c \in Children : Owned(c)}
<1>1. TopK \in Nat /\ TopInitial \in Nat /\ SearchLimit \in Nat /\ TopK <= TopInitial
  BY LimitAssumption DEF SearchLimit
<1>2. ranked[t] \in Seq(Children) /\ points \subseteq Children /\ hits \in [Threads -> Seq(Children)]
  BY DEF IndexTypeOK
<1>3. /\ Distinct(ranked[t]) /\ ToSet(ranked[t]) \subseteq points
      /\ Len(ranked[t]) = Min({SearchLimit, Cardinality(points)})
      /\ kept[t] = First(passing, TopInitial)
  BY DEF Build, QueryInv, Querying
<1>4. ToSet(ranked[t]) = points
  <2>1. Len(ranked[t]) = Cardinality(points)
    BY <1>1, <1>3, MinOfTwo, PointsAreFinite
  <2>2. Cardinality(ToSet(ranked[t])) = Cardinality(points)
    BY <1>2, <1>3, <2>1, DistinctCount
  <2>3. QED
    BY <1>3, <2>2, FS_Subset, PointsAreFinite
<1>5. /\ passing \in Seq(Children) /\ Distinct(passing)
      /\ ToSet(passing) = points \cap Passing(asked[t])
      /\ Len(passing) = Cardinality(points \cap Passing(asked[t])) /\ Len(passing) \in Nat
  BY <1>2, <1>3, <1>4, KeptCount
<1>6. points \cap Passing(asked[t]) = live /\ live \subseteq owned
  BY <1>2 DEF Orphans, Live, Passing
<1> HIDE DEF live, passing, owned
<1>7. Len(passing) = Cardinality(live) /\ ToSet(passing) = live /\ Cardinality(live) \in Nat
  BY <1>5, <1>6
<1>8. /\ kept[t] \in Seq(Children) /\ Distinct(kept[t])
      /\ Len(kept[t]) = Min({TopInitial, Cardinality(live)}) /\ ToSet(kept[t]) \subseteq live
  <2>1. /\ First(passing, TopInitial) \in Seq(Children)
        /\ Len(First(passing, TopInitial)) = Min({TopInitial, Len(passing)})
        /\ \A i \in DOMAIN First(passing, TopInitial) :
             i \in DOMAIN passing /\ First(passing, TopInitial)[i] = passing[i]
    BY <1>1, <1>5, FirstProperties
  <2>2. /\ Distinct(First(passing, TopInitial))
        /\ ToSet(First(passing, TopInitial)) \subseteq ToSet(passing)
    BY <1>5, <2>1 DEF Distinct, ToSet
  <2>3. QED
    BY <1>3, <1>7, <2>1, <2>2
<1>9. PICK order \in SetToSeqs(ToSet(kept[t])) :
        hits' = [hits EXCEPT ![t] = Kept(First(order, TopK), owned)]
  BY DEF Build, owned
<1>10. order \in Seq(ToSet(kept[t])) /\ Len(order) = Len(kept[t])
  BY <1>8, DistinctCount, PermutationProperties
<1> DEFINE best == First(order, TopK)
<1>11. /\ best \in Seq(ToSet(kept[t])) /\ Len(best) = Min({TopK, Len(order)})
  BY <1>1, <1>10, FirstProperties
<1> HIDE DEF best
<1>12. \A i \in DOMAIN best : best[i] \in owned
  BY <1>6, <1>8, <1>11
<1>13. Len(Kept(best, owned)) = Len(best)
  BY <1>11, <1>12, KeptWhole
<1>14. hits'[t] = Kept(best, owned)
  BY <1>2, <1>9 DEF best
<1>15. Min({TopK, Min({TopInitial, Cardinality(live)})}) = Min({TopK, Cardinality(live)})
  <2>1. Min({TopInitial, Cardinality(live)}) =
          IF TopInitial <= Cardinality(live) THEN TopInitial ELSE Cardinality(live)
    BY <1>1, <1>7, MinOfTwo
  <2>2. CASE TopInitial <= Cardinality(live)
    BY <1>1, <1>7, <2>1, <2>2, MinOfTwo
  <2>3. CASE ~(TopInitial <= Cardinality(live))
    BY <2>1, <2>3
  <2>4. QED
    BY <2>2, <2>3
<1>16. QED
  BY <1>8, <1>10, <1>11, <1>13, <1>14, <1>15 DEF live

-----------------------------------------------------------------------------
(***************************************************************************)
(* The theorems.                                                           *)
(***************************************************************************)

(* The inductive invariant: with the types, what the steps of indexings    *)
(* and of lone queries have in common with the points and the maps.        *)
THEOREM RetrievalInvariant == IndexSpec => []RetrievalInv
<1>1. IndexInit => RetrievalInv
  <2> SUFFICES ASSUME IndexInit PROVE RetrievalInv
    OBVIOUS
  <2>1. IndexTypeOK
    BY IndexInitTyped
  <2>2. IndexingInv /\ RegisteredIsSearchable
    BY DEF IndexInit, IndexingInv, RegisteredIsSearchable
  <2>3. QueryInv /\ OwnJurisdictionOnly
    BY DEF IndexInit, QueryInv, Querying, OwnJurisdictionOnly, ToSet
  <2>4. QED
    BY <2>1, <2>2, <2>3 DEF RetrievalInv
<1>2. RetrievalInv /\ [IndexNext]_indexVars => RetrievalInv'
  BY IndexNextTyped, NextIndexes, NextSearchable, NextQueries, NextOwnJurisdiction DEF RetrievalInv
<1>3. QED
  BY <1>1, <1>2, PTL DEF IndexSpec

(* What index_document has registered can be found: each element of each   *)
(* document in _docs has a chunk with a text and a point, whatever         *)
(* indexings, failures and restarts came between.                          *)
THEOREM RegisteredAreFound == IndexSpec => []RegisteredIsSearchable
<1>1. RetrievalInv => RegisteredIsSearchable
  BY DEF RetrievalInv
<1>2. QED
  BY <1>1, RetrievalInvariant, PTL

(* A query of retrieve() that nothing overlaps returns children of the     *)
(* jurisdiction it asks for only.                                          *)
THEOREM LoneQueryStaysHome == IndexSpec => []OwnJurisdictionOnly
<1>1. RetrievalInv => OwnJurisdictionOnly
  BY DEF RetrievalInv
<1>2. QED
  BY <1>1, RetrievalInvariant, PTL

(* A query of retrieve() that nothing overlaps misses nothing, as long as  *)
(* its over-fetch reaches all points and none of them is an orphan.        *)
THEOREM SmallStoreMissesNothing == IndexSpec => SmallStoreIsComplete
<1> DEFINE Complete(t) ==
      step[t] = "build" /\ step'[t] = "answered" /\ alone[t] /\ Orphans = {}
        /\ Cardinality(points) <= SearchLimit =>
      Len(hits'[t]) = Min({TopK, Cardinality(Live(asked[t]))})
<1>1. RetrievalInv /\ [IndexNext]_indexVars => [\A t \in Threads : Complete(t)]_indexVars
  <2> SUFFICES ASSUME RetrievalInv, IndexNext,
                      NEW t \in Threads, step[t] = "build", step'[t] = "answered"
               PROVE  Complete(t)
    OBVIOUS
  <2>1. Build(t)
    <3>1. step \in [Threads -> {"idle", "upsert", "register", "filter", "build", "answered"}]
      BY DEF RetrievalInv, IndexTypeOK
    <3>2. ASSUME NEW u \in Threads, NEW x \in {"idle", "upsert", "register", "filter", "build"},
                 step' = [step EXCEPT ![u] = x]
          PROVE  FALSE
      BY <3>1, <3>2
    <3>3. ASSUME NEW u \in Threads, Build(u) PROVE Build(t)
      BY <3>1, <3>3 DEF Build
    <3>4. ~Restart
      BY DEF Restart
    <3>5. QED
      BY <3>2, <3>3, <3>4 DEF IndexNext, Index, Upsert, IndexFails, Register, Search, Filter
  <2>2. QED
    BY <2>1, AnswerIsComplete DEF RetrievalInv
<1>2. QED
  BY <1>1, RetrievalInvariant, PTL DEF IndexSpec, SmallStoreIsComplete

-----------------------------------------------------------------------------
(* Words come one after another, with a blank between two of them.         *)
InOrder(ws) ==
  /\ ws \in Seq([start : Nat, end : Nat])
  /\ \A k \in DOMAIN ws : ws[k].start < ws[k].end
  /\ \A k, l \in DOMAIN ws : k < l => ws[k].end < ws[l].start

LEMMA TokensInOrder ==
  ASSUME NEW n \in Nat, NEW blank \in [1..n -> BOOLEAN]
  PROVE  InOrder(Tokens(blank))
<1> DEFINE index == [p \in 1..n |-> p]
           F == {p \in 1..n : ~blank[p] /\ (p = 1 \/ blank[p - 1])}
           starts == Kept(index, F)
           Ends(p) == {n + 1} \cup {q \in p..n : blank[q]}
           After(p) == Min(Ends(p))
           Word(k) == [start |-> starts[k] - 1, end |-> After(starts[k]) - 1]
<1>1. Len(blank) = n /\ blank \in Seq(BOOLEAN)
  OBVIOUS
<1>2. index \in Seq(Nat) /\ DOMAIN index = 1..n /\ \A p \in 1..n : index[p] = p
  <2>1. index \in [1..n -> Nat]
    OBVIOUS
  <2>2. QED
    BY <2>1, SeqDef
<1>3. Tokens(blank) = [k \in DOMAIN starts |-> Word(k)]
  BY <1>1, Zenon DEF Tokens
<1>4. \A p \in 1..n : After(p) \in Ends(p) /\ \A m \in Ends(p) : After(p) <= m
  <2> TAKE p \in 1..n
  <2>1. Ends(p) \in SUBSET Nat /\ Ends(p) # {}
    OBVIOUS
  <2> HIDE DEF Ends
  <2>2. QED
    BY <2>1, MinIn
<1>5. \A p \in F : /\ p \in 1..n /\ ~blank[p] /\ (p = 1 \/ blank[p - 1])
                   /\ After(p) \in (p + 1)..(n + 1) /\ \A q \in p..n : blank[q] => After(p) <= q
  <2> TAKE p \in F
  <2>1. p \in 1..n /\ ~blank[p] /\ (p = 1 \/ blank[p - 1])
    OBVIOUS
  <2>2. After(p) \in Ends(p) /\ \A m \in Ends(p) : After(p) <= m
    BY <2>1, <1>4
  <2> HIDE DEF After
  <2>3. After(p) \in (p + 1)..(n + 1)
    BY <2>1, <2>2
  <2>4. QED
    BY <2>1, <2>2, <2>3
<1> HIDE DEF index, F, After, Ends
<1>6. /\ starts \in Seq(Nat)
      /\ \A i \in DOMAIN starts :
           /\ starts[i] \in F
           /\ \E j \in DOMAIN index : starts[i] = index[j]
      /\ \A j \in DOMAIN index : index[j] \in F => \E i \in DOMAIN starts : starts[i] = index[j]
  BY <1>2, KeptProperties
<1>7. \A k, l \in DOMAIN starts : k < l =>
        \E i, j \in DOMAIN index : i < j /\ starts[k] = index[i] /\ starts[l] = index[j]
  BY <1>2, KeptOrdered
<1> HIDE DEF starts
<1>8. \A k, l \in DOMAIN starts : k < l => starts[k] < starts[l]
  BY <1>7, <1>2
<1>9. \A k \in DOMAIN starts : Word(k) \in [start : Nat, end : Nat] /\ Word(k).start < Word(k).end
  BY <1>6, <1>5
<1>10. \A k, l \in DOMAIN starts : k < l => Word(k).end < Word(l).start
  <2> TAKE k, l \in DOMAIN starts
  <2> SUFFICES ASSUME k < l PROVE After(starts[k]) < starts[l]
    BY <1>6, <1>5
  <2>1. /\ starts[k] \in F /\ starts[l] \in F /\ starts[k] < starts[l]
        /\ starts[k] \in 1..n /\ starts[l] \in 1..n
    BY <1>6, <1>8, <1>5
  <2>2. blank[starts[l] - 1] /\ starts[k] # starts[l] - 1
    BY <2>1, <1>5
  <2>3. starts[l] - 1 \in starts[k]..n
    BY <2>1
  <2>4. QED
    BY <2>1, <2>2, <2>3, <1>5
<1> DEFINE ws == Tokens(blank)
<1>11. DOMAIN starts = 1..Len(starts) /\ Len(starts) \in Nat
  BY <1>6
<1>12. ws = [k \in 1..Len(starts) |-> Word(k)]
  BY <1>3, <1>11
<1> HIDE DEF ws, Word
<1>13. ws \in Seq([start : Nat, end : Nat]) /\ DOMAIN ws = 1..Len(starts) /\ \A k \in 1..Len(starts) : ws[k] = Word(k)
  <2>1. ws \in [1..Len(starts) -> [start : Nat, end : Nat]]
    BY <1>9, <1>11, <1>12
  <2>2. QED
    BY <2>1, <1>11, <1>12, SeqDef
<1>14. InOrder(ws)
  BY <1>9, <1>10, <1>11, <1>13 DEF InOrder
<1>15. QED
  BY <1>14 DEF ws
LEMMA OrderFacts ==
  ASSUME NEW ws, InOrder(ws)
  PROVE  /\ Len(ws) \in Nat /\ DOMAIN ws = 1..Len(ws)
         /\ \A k \in DOMAIN ws : /\ ws[k] \in [start : Nat, end : Nat] /\ ws[k].start < ws[k].end
                                /\ ws[k].start \in Nat /\ ws[k].end \in Nat
         /\ \A k, l \in DOMAIN ws : k < l => ws[k].end < ws[l].start
         /\ \A k, l \in DOMAIN ws : k <= l => ws[k].start <= ws[l].start /\ ws[k].end <= ws[l].end
<1>1. ws \in Seq([start : Nat, end : Nat])
  BY DEF InOrder
<1>2. Len(ws) \in Nat /\ DOMAIN ws = 1..Len(ws) /\ \A k \in DOMAIN ws : ws[k] \in [start : Nat, end : Nat]
  BY <1>1, LenProperties, ElementOfSeq
<1>3. \A k \in DOMAIN ws : ws[k].start \in Nat /\ ws[k].end \in Nat
  BY <1>2
<1>4. /\ \A k \in DOMAIN ws : ws[k].start < ws[k].end
      /\ \A k, l \in DOMAIN ws : k < l => ws[k].end < ws[l].start
  BY DEF InOrder
<1>5. ASSUME NEW k \in DOMAIN ws, NEW l \in DOMAIN ws, k <= l
      PROVE  ws[k].start <= ws[l].start /\ ws[k].end <= ws[l].end
  <2>1. k = l \/ k < l
    BY <1>2, <1>5
  <2>2. CASE k = l
    BY <2>2, <1>3
  <2>3. CASE k < l
    BY <2>3, <1>3, <1>4
  <2>4. QED
    BY <2>1, <2>2, <2>3
<1>6. QED
  BY <1>2, <1>3, <1>4, <1>5

(* Word n is, whole, in some chunk.                                        *)
Covered(n) ==
  \E c \in DOMAIN cuts : cuts[c].start <= words[n].start /\ words[n].end <= cuts[c].end

(* A chunk goes from the start of a word to the end of the same or of a    *)
(* later one, and if of a later one then it is short enough.               *)
IsCutOf(c) ==
  \E a, b \in DOMAIN words :
    /\ a <= b /\ cuts[c] = [start |-> words[a].start, end |-> words[b].end]
    /\ a = b \/ words[b].end - words[a].start <= targetSize

(* The last chunk ends with a word, at or after the one before `from`; the *)
(* next chunk starts after the start of the last, within the overlap of    *)
(* it, and with room for all that the last one still holds from there on.  *)
Resumes ==
  LET last == cuts[Len(cuts)]
  IN  \E j \in DOMAIN words :
        /\ last.end = words[j].end /\ j < Len(words) /\ from <= j + 1
        /\ from <= j => words[j].end - words[from].start <= targetSize
        /\ last.start = lastStart /\ words[from].start > lastStart
        /\ words[from].start + overlapSize >= words[j].end

ChunkerInv ==
  /\ InOrder(words) /\ targetSize \in Nat /\ overlapSize \in Nat /\ cutDone \in BOOLEAN
  /\ words # <<>> => from \in DOMAIN words
  /\ words = <<>> => cutDone
  /\ cuts \in Seq([start : Nat, end : Nat])
  /\ \A c \in DOMAIN cuts : IsCutOf(c)
  /\ \A n \in DOMAIN words : n < from => Covered(n)
  /\ cutDone => \A n \in DOMAIN words : Covered(n)
  /\ ~cutDone => IF cuts = <<>> THEN lastStart = -1 ELSE Resumes
  /\ \A c \in 2..Len(cuts) :
       /\ cuts[c].start > cuts[c - 1].start /\ cuts[c].end >= cuts[c - 1].end
       /\ cuts[c].start + overlapSize >= cuts[c - 1].end

(* What the last word of a chunk is.                                       *)
LEMMA LastWordIs ==
  ASSUME ChunkerInv, from \in DOMAIN words
  PROVE  /\ LastWord \in DOMAIN words /\ from <= LastWord
         /\ LastWord = from \/ words[LastWord].end - words[from].start <= targetSize
         /\ \A j \in DOMAIN words : from <= j /\ words[j].end - words[from].start <= targetSize => j <= LastWord
<1> DEFINE fits == {from} \cup {j \in from..Len(words) : words[j].end - words[from].start <= targetSize}
<1>1. Len(words) \in Nat /\ DOMAIN words = 1..Len(words)
  BY DEF ChunkerInv, InOrder
<1>2. fits \in SUBSET (0..Len(words)) /\ fits # {}
  BY <1>1
<1>3. LastWord \in fits /\ \A j \in fits : j <= LastWord
  BY <1>1, <1>2, MaxIn, Zenon DEF LastWord
<1>4. QED
  BY <1>1, <1>3

(* Where the next chunk starts.                                            *)
LEMMA NextWordIs ==
  ASSUME ChunkerInv, from \in DOMAIN words, NEW j \in DOMAIN words, from <= j, j < Len(words)
  PROVE  /\ NextWord(j) \in (from + 1)..(j + 1)
         /\ NextWord(j) <= j => words[NextWord(j)].start + overlapSize >= words[j].end
<1> DEFINE near == {j + 1} \cup {k \in (from + 1)..j : words[k].start + overlapSize >= words[j].end}
<1>1. Len(words) \in Nat /\ DOMAIN words = 1..Len(words)
  BY DEF ChunkerInv, InOrder
<1>2. near \in SUBSET Nat /\ near # {}
  BY <1>1
<1>3. NextWord(j) \in near
  BY <1>2, MinIn, Zenon DEF NextWord
<1>4. QED
  BY <1>1, <1>3

LEMMA ChunkerInitInv ==
  ASSUME ChunkerInit
  PROVE  ChunkerInv
<1>1. PICK n \in 0..TextLength : \E blank \in [1..n -> BOOLEAN] : words = Tokens(blank)
  BY DEF ChunkerInit
<1>2. InOrder(words)
  BY <1>1, TokensInOrder, ChunkerAssumption
<1>3. Len(words) \in Nat /\ DOMAIN words = 1..Len(words) /\ (words # <<>> => 1 \in DOMAIN words)
  BY <1>2, EmptySeq DEF InOrder
<1>4. cuts \in Seq([start : Nat, end : Nat]) /\ DOMAIN cuts = {} /\ Len(cuts) = 0
  BY DEF ChunkerInit
<1>5. words = <<>> => DOMAIN words = {}
  OBVIOUS
<1>6. /\ targetSize \in Nat /\ overlapSize \in Nat /\ from = 1 /\ lastStart = -1 /\ cuts = <<>>
      /\ cutDone \in BOOLEAN /\ (cutDone <=> words = <<>>)
  BY ChunkerAssumption DEF ChunkerInit
<1>7. /\ \A c \in DOMAIN cuts : IsCutOf(c)
      /\ \A c \in 2..Len(cuts) : FALSE
      /\ \A k \in DOMAIN words : ~(k < from)
  BY <1>3, <1>4, <1>6
<1>8. QED
  BY <1>2, <1>3, <1>4, <1>5, <1>6, <1>7 DEF ChunkerInv

LEMMA ChunkerStep ==
  ASSUME ChunkerInv, [Cut]_chunkerVars
  PROVE  ChunkerInv'
<1>1. CASE Cut
  <2> DEFINE j == LastWord
             new == [start |-> words[from].start, end |-> words[j].end]
             L == Len(cuts)
  <2>1. /\ ~cutDone /\ cuts' = Append(cuts, new) /\ lastStart' = words[from].start
        /\ words' = words /\ targetSize' = targetSize /\ overlapSize' = overlapSize
    BY <1>1 DEF Cut, chunkerInput
  <2>2. /\ InOrder(words) /\ Len(words) \in Nat /\ DOMAIN words = 1..Len(words)
        /\ targetSize \in Nat /\ overlapSize \in Nat /\ from \in DOMAIN words
        /\ \A k \in DOMAIN words : words[k].start \in Nat /\ words[k].end \in Nat
        /\ cuts \in Seq([start : Nat, end : Nat])
    <3>1. /\ InOrder(words) /\ targetSize \in Nat /\ overlapSize \in Nat /\ from \in DOMAIN words
          /\ cuts \in Seq([start : Nat, end : Nat])
      BY <2>1 DEF ChunkerInv
    <3>2. QED
      BY <3>1, OrderFacts
  <2>3. /\ j \in DOMAIN words /\ from <= j
        /\ j = from \/ words[j].end - words[from].start <= targetSize
        /\ \A k \in DOMAIN words : from <= k /\ words[k].end - words[from].start <= targetSize => k <= j
    BY <2>2, LastWordIs, Zenon
  <2> HIDE DEF j
  <2>4. new \in [start : Nat, end : Nat] /\ new.start = words[from].start /\ new.end = words[j].end
    BY <2>2, <2>3
  <2> HIDE DEF new
  <2>5. /\ cuts' \in Seq([start : Nat, end : Nat]) /\ L \in Nat /\ DOMAIN cuts = 1..L
        /\ DOMAIN cuts' = 1..(L + 1) /\ Len(cuts') = L + 1
        /\ \A c \in 1..L : cuts'[c] = cuts[c]
        /\ cuts'[L + 1] = new
    BY <2>1, <2>2, <2>4
  <2> HIDE DEF L
  <2>6. cuts # <<>> => Resumes
    BY <2>1 DEF ChunkerInv
  <2>7. /\ \A k, l \in DOMAIN words : k <= l => words[k].end <= words[l].end /\ words[k].start <= words[l].start
        /\ \A k, l \in DOMAIN words : k < l => words[k].end < words[l].start
        /\ \A k \in DOMAIN words : words[k].start < words[k].end
    BY <2>2, OrderFacts
  <2>8. L > 0 => /\ words[from].start > lastStart /\ cuts[L].start = lastStart
                 /\ new.end >= cuts[L].end /\ new.start + overlapSize >= cuts[L].end
    <3> SUFFICES ASSUME L > 0 PROVE /\ words[from].start > lastStart /\ cuts[L].start = lastStart
                                    /\ new.end >= cuts[L].end /\ new.start + overlapSize >= cuts[L].end
      OBVIOUS
    <3>1. Resumes
      BY <2>6, <2>5 DEF L
    <3>2. PICK b \in DOMAIN words :
             /\ cuts[L].end = words[b].end /\ b < Len(words) /\ from <= b + 1
             /\ from <= b => words[b].end - words[from].start <= targetSize
             /\ cuts[L].start = lastStart /\ words[from].start > lastStart
             /\ words[from].start + overlapSize >= words[b].end
      BY <3>1 DEF Resumes, L
    <3>3. b <= j
      BY <3>2, <2>2, <2>3
    <3>4. QED
      BY <3>2, <3>3, <2>4, <2>7, <2>3
  <2>9. \A c \in DOMAIN cuts' : IsCutOf(c)'
    <3>1. \A c \in DOMAIN cuts : IsCutOf(c)
      BY DEF ChunkerInv
    <3>2. ASSUME NEW c \in 1..L PROVE IsCutOf(c)'
      <4>1. IsCutOf(c) /\ cuts'[c] = cuts[c] /\ words' = words /\ targetSize' = targetSize
        BY <3>1, <3>2, <2>1, <2>5
      <4>2. QED
        BY <4>1 DEF IsCutOf
    <3>3. ASSUME NEW c \in DOMAIN cuts', c = L + 1 PROVE IsCutOf(c)'
      BY <3>3, <2>1, <2>2, <2>3, <2>5 DEF IsCutOf, new
    <3>4. \A c \in DOMAIN cuts' : c \in 1..L \/ c = L + 1
      BY <2>5
    <3>5. QED
      BY <3>2, <3>3, <3>4
  <2>10. \A n \in DOMAIN words : n <= j => Covered(n)'
    <3> TAKE n \in DOMAIN words
    <3> HAVE n <= j
    <3>1. CASE n < from
      <4>1. Covered(n)
        BY <3>1 DEF ChunkerInv
      <4>2. QED
        BY <4>1, <2>1, <2>5 DEF Covered
    <3>2. CASE from <= n
      <4>1. cuts'[L + 1].start <= words[n].start /\ words[n].end <= cuts'[L + 1].end /\ L + 1 \in DOMAIN cuts'
        BY <3>2, <2>2, <2>3, <2>4, <2>5, <2>7
      <4>2. QED
        BY <4>1, <2>1 DEF Covered
    <3>3. QED
      BY <3>1, <3>2, <2>2, <2>3
  <2>11. \A c \in 2..Len(cuts') :
            /\ cuts'[c].start > cuts'[c - 1].start /\ cuts'[c].end >= cuts'[c - 1].end
            /\ cuts'[c].start + overlapSize >= cuts'[c - 1].end
    <3> TAKE c \in 2..Len(cuts')
    <3>1. CASE c = L + 1
      BY <3>1, <2>4, <2>5, <2>8
    <3>2. CASE c # L + 1
      <4>1. c \in 2..Len(cuts) /\ c \in 1..L /\ c - 1 \in 1..L
        BY <3>2, <2>5 DEF L
      <4>2. QED
        BY <4>1, <2>5 DEF ChunkerInv
    <3>3. QED
      BY <3>1, <3>2
  <2>12. words # <<>> /\ cuts' # <<>>
    BY <2>2, <2>5
  <2>13. words[from].start # lastStart
    <3>1. CASE L > 0
      BY <3>1, <2>8, <2>2
    <3>2. CASE L = 0
      <4>1. lastStart = -1
        BY <3>2, <2>1, <2>5 DEF ChunkerInv, L
      <4>2. QED
        BY <4>1, <2>2
    <3>3. QED
      BY <3>1, <3>2, <2>5
  <2>14. CASE j = Len(words)
    <3>1. cutDone' = TRUE /\ from' = from
      BY <1>1, <2>14 DEF Cut, j
    <3>2. \A n \in DOMAIN words : Covered(n)'
      BY <2>10, <2>14, <2>2
    <3>3. QED
      BY <2>1, <2>2, <2>5, <2>9, <2>11, <2>12, <3>1, <3>2 DEF ChunkerInv
  <2>15. CASE j # Len(words)
    <3>1. cutDone' = cutDone /\ from' = NextWord(j)
      BY <1>1, <2>13, <2>15 DEF Cut, j
    <3>2. j < Len(words)
      BY <2>15, <2>2, <2>3
    <3>3. /\ from' \in (from + 1)..(j + 1)
          /\ from' <= j => words[from'].start + overlapSize >= words[j].end
      BY <3>1, <3>2, <2>2, <2>3, NextWordIs, Zenon
    <3>4. from' \in DOMAIN words /\ from < from' /\ \A n \in DOMAIN words : n < from' => n <= j
      <4>1. j \in Nat /\ from \in Nat /\ from >= 1 /\ Len(words) \in Nat
        BY <2>2, <2>3
      <4>2. from' \in 1..Len(words) /\ from < from'
        BY <4>1, <3>2, <3>3
      <4>3. \A n \in 1..Len(words) : n < from' => n <= j
        BY <4>1, <4>2, <3>3
      <4>4. QED
        BY <4>2, <4>3, <2>2
    <3>5. words[from'].start > words[from].start
      BY <3>4, <2>2, <2>7
    <3>6. Resumes'
      <4>1. from' = j + 1 => words[from'].start >= words[j].end
        BY <3>2, <3>4, <2>2, <2>3, <2>7
      <4>2. words[from'].start + overlapSize >= words[j].end
        <5>1. from' <= j \/ from' = j + 1
          BY <3>3, <2>2, <2>3
        <5>2. /\ words[from'].start \in Nat /\ words[j].end \in Nat /\ overlapSize \in Nat
          BY <3>4, <2>2, <2>3
        <5>3. QED
          BY <5>1, <5>2, <3>3, <4>1
      <4>3. from' <= j => words[j].end - words[from'].start <= targetSize
        BY <3>3, <3>4, <3>5, <2>2, <2>3
      <4>4. cuts'[Len(cuts')].end = words[j].end /\ cuts'[Len(cuts')].start = lastStart'
        BY <2>1, <2>4, <2>5
      <4>5. QED
        BY <2>1, <2>3, <3>2, <3>3, <3>5, <4>2, <4>3, <4>4 DEF Resumes
    <3>7. \A n \in DOMAIN words : n < from' => Covered(n)'
      BY <3>4, <2>10
    <3>8. QED
      BY <2>1, <2>2, <2>5, <2>9, <2>11, <2>12, <3>1, <3>4, <3>6, <3>7 DEF ChunkerInv
  <2>16. QED
    BY <2>14, <2>15
<1>2. CASE UNCHANGED chunkerVars
  BY <1>2 DEF chunkerVars, chunkerInput, ChunkerInv, IsCutOf, Covered, Resumes
<1>3. QED
  BY <1>1, <1>2

LEMMA ChunkerSound ==
  ASSUME ChunkerInv
  PROVE  ChunkerTypeOK /\ CutsCoverWords
<1>1. /\ DOMAIN cuts = 1..Len(cuts) /\ Len(cuts) \in Nat
      /\ \A k \in DOMAIN words : words[k].start < words[k].end /\ words[k].start \in Nat /\ words[k].end \in Nat
      /\ \A k, l \in DOMAIN words : k < l => words[k].end < words[l].start
      /\ DOMAIN words = 1..Len(words) /\ Len(words) \in Nat
      /\ \A k \in DOMAIN words : words[k] \in [start : Nat, end : Nat]
  <2>1. InOrder(words) /\ cuts \in Seq([start : Nat, end : Nat])
    BY DEF ChunkerInv
  <2>2. DOMAIN cuts = 1..Len(cuts) /\ Len(cuts) \in Nat
    BY <2>1
  <2>3. QED
    BY <2>1, <2>2, OrderFacts, Zenon
<1>2. ASSUME NEW c \in DOMAIN cuts
      PROVE  /\ cuts[c].start < cuts[c].end
             /\ cuts[c].end - cuts[c].start <= targetSize \/ \E n \in DOMAIN words : words[n] = cuts[c]
  <2>1. PICK a, b \in DOMAIN words :
          /\ a <= b /\ cuts[c] = [start |-> words[a].start, end |-> words[b].end]
          /\ a = b \/ words[b].end - words[a].start <= targetSize
    BY DEF ChunkerInv, IsCutOf
  <2>2. a = b => words[a] = cuts[c]
    BY <2>1, <1>1
  <2>3. cuts[c].start < cuts[c].end
    BY <2>1, <1>1
  <2>4. QED
    BY <2>1, <2>2, <2>3
<1>3. ChunkerTypeOK
  BY <1>1, <1>2 DEF ChunkerTypeOK, ChunkerInv
<1>4. cutDone => \A n \in DOMAIN words : Covered(n)
  BY DEF ChunkerInv
<1>5. QED
  BY <1>2, <1>3, <1>4 DEF ChunkerInv, CutsCoverWords, Covered

(* Whatever the text, the variables of the chunker keep their types: in    *)
(* particular the loop never starts a chunk past the last word.            *)
THEOREM ChunkerTyped == ChunkerSpec => []ChunkerTypeOK
<1>1. ChunkerInit => ChunkerInv
  BY ChunkerInitInv
<1>2. ChunkerInv /\ [Cut]_chunkerVars => ChunkerInv'
  BY ChunkerStep
<1>3. ChunkerInv => ChunkerTypeOK
  BY ChunkerSound
<1>4. QED
  BY <1>1, <1>2, <1>3, PTL DEF ChunkerSpec

(* chunk_text loses no word, whatever the text, the target size and the    *)
(* overlap, and each chunk goes on from the one before it.                 *)
THEOREM ChunksCover == ChunkerSpec => []CutsCoverWords
<1>1. ChunkerInit => ChunkerInv
  BY ChunkerInitInv
<1>2. ChunkerInv /\ [Cut]_chunkerVars => ChunkerInv'
  BY ChunkerStep
<1>3. ChunkerInv => CutsCoverWords
  BY ChunkerSound
<1>4. QED
  BY <1>1, <1>2, <1>3, PTL DEF ChunkerSpec
=============================================================================
