------------------------------ MODULE MCStores ------------------------------
(***************************************************************************)
(* The stores that request threads share without a lock, on small          *)
(* instances and side by side: the verification rows of GateStore and the  *)
(* retrieval index of Retrieval.  A behaviour is one of the rows or one of *)
(* the index, while the other store stays as it is at first.  The index    *)
(* has two documents, of two jurisdictions, the first with two elements of *)
(* one chunk each, the second with one element that is cut into two.       *)
(***************************************************************************)
EXTENDS GateStore, Retrieval, TLC

CONSTANTS d1, d2, e1, e2, e3, c1, c2, c3, c4, home, abroad

VARIABLE store

storesVars == <<vars, store, indexVars>>

InOrder == <<"span_existence", "verbatim_match", "entailment", "self_consistency">>

HomeAndAbroad == (d1 :> home) @@ (d2 :> abroad)
TwoAndOne     == (e1 :> d1) @@ (e2 :> d1) @@ (e3 :> d2)
LastIsCut     == (c1 :> e1) @@ (c2 :> e2) @@ (c3 :> e3) @@ (c4 :> e3)

StoresInit == store \in {"index", "rows"} /\ Init /\ IndexInit

IndexStep == store = "index" /\ IndexNext /\ UNCHANGED <<store, vars>>
RowsStep  == store = "rows" /\ Next /\ UNCHANGED <<store, indexVars>>

StoresSpec == StoresInit /\ [][IndexStep \/ RowsStep]_storesVars

SymmetricStores == Permutations(Threads) \cup Permutations(Verifiers)
=============================================================================
