------------------------------- MODULE Regime -------------------------------
(***************************************************************************)
(* The legal regime of a clause: the clauses around it that a claim about  *)
(* it is read with.  assemble_regime walks the structure graph breadth     *)
(* first from the clause.  It is run twice: by the classifier, over the    *)
(* edges in the store, and again by classify_node, over the edges of the   *)
(* document as this invocation extracted it, if it did.                    *)
(*                                                                         *)
(* Documents are extracted again and again, elements are overwritten, and  *)
(* edges are only ever added.                                              *)
(***************************************************************************)
EXTENDS StructureGraph

CONSTANTS
  Documents,        (* what the document may read as                       *)
  MaxDepth,         (* max_depth                                           *)
  MaxExtractions    (* bound on save_elements calls                        *)

ASSUME RegimeAssumption ==
  /\ Documents \subseteq Seq(Text)
  /\ MaxDepth \in Nat /\ MaxExtractions \in Nat

VARIABLES
  doc,                  (* the document as extracted last                  *)
  rows,                 (* ids of the element rows                         *)
  stored,               (* the structure edge rows, oldest first           *)
  extractions,
  pc,                   (* "idle", "walk", "merge"                         *)
  edges, scope,         (* the arguments of the walk: edges, elements_by_id*)
  fromStore,
  primary,
  members, definitions, exceptions,
  frontier, next,       (* this level's elements, the first being scanned  *)
  rest,                 (* its edges not looked at yet                     *)
  depth                 (* levels done                                     *)

store  == <<doc, rows, stored, extractions>>
graph  == <<edges, scope, fromStore, primary>>
regime == <<members, definitions, exceptions>>
walk   == <<frontier, next, rest, depth>>
vars   == <<store, pc, graph, regime, walk>>

TypeOK ==
  /\ doc \in Documents /\ rows \subseteq Ids /\ extractions \in 0..MaxExtractions
  /\ pc \in {"idle", "walk", "merge"} /\ fromStore \in BOOLEAN
  /\ scope \subseteq Ids /\ primary \in Ids \cup {NoId}
  /\ members \in Seq(Ids) /\ definitions \in Seq(Ids) /\ exceptions \in Seq(Ids)
  /\ depth \in 0..MaxDepth

Init ==
  /\ doc \in Documents
  /\ rows = IdsOf(doc) /\ stored = Build(doc) /\ extractions = 0
  /\ pc = "idle" /\ fromStore = FALSE
  /\ edges = <<>> /\ scope = {} /\ primary = NoId
  /\ members = <<>> /\ definitions = <<>> /\ exceptions = <<>>
  /\ frontier = <<>> /\ next = <<>> /\ rest = <<>> /\ depth = 0

(* Mutant: an edge is only followed the way it points.                     *)
TouchingFrom(es, id) == SelectSeq(es, LAMBDA e : id = e.from)

Other(e, id) == IF e.from = id THEN e.to ELSE e.from
Touching(es, id) == Kept(es, {e \in ToSet(es) : id \in {e.from, e.to}})

-----------------------------------------------------------------------------
(* Mutant: an edge is taken for stored if one from the same element is.    *)
SaveElementsByEnds(d) ==
  /\ rows' = rows \cup IdsOf(d)
  /\ stored' = stored \o SelectSeq(Build(d),
       LAMBDA e : ~\E n \in DOMAIN stored : stored[n].from = e.from)

(* save_elements: rows are put in or overwritten, new edges are added.     *)
SaveElements(d) ==
  /\ rows' = rows \cup IdsOf(d)
  /\ stored' = stored \o Kept(Build(d), ToSet(Build(d)) \ ToSet(stored))

Extract(d) ==
  /\ extractions < MaxExtractions
  /\ extractions' = extractions + 1
  /\ doc' = d /\ SaveElements(d)
  /\ UNCHANGED <<pc, graph, regime, walk>>

(* The ends of edges whose rows exist, and the clause.                     *)
StoreScope(es, p) == rows \cap ({p} \cup UNION {{es[n].from, es[n].to} : n \in DOMAIN es})

Walk(p, es, ids) ==
  /\ pc = "idle"
  /\ edges' = es /\ scope' = ids /\ primary' = p
  /\ members' = <<p>> /\ definitions' = <<>> /\ exceptions' = <<>>
  /\ depth' = 0 /\ next' = <<>>
  /\ IF MaxDepth = 0 THEN frontier' = <<>> /\ rest' = <<>>
                     ELSE frontier' = <<p>> /\ rest' = Touching(es, p)
  /\ pc' = "walk"
  /\ UNCHANGED store

WalkStore(p) ==
  /\ p \in rows
  /\ Walk(p, stored, StoreScope(stored, p))
  /\ fromStore' = TRUE

WalkState(p) ==
  /\ p \in rows /\ doc # <<>> /\ Build(doc) # <<>>
  /\ Walk(p, Build(doc), IdsOf(doc))
  /\ fromStore' = FALSE

-----------------------------------------------------------------------------
(* Mutant: what is seen is not remembered until the level is done.         *)
SeeTwice(e) ==
  LET other == Other(e, Head(frontier))
  IN  IF other \in ToSet(members) \ ToSet(next) \/ other \notin scope
        THEN UNCHANGED <<regime, next>>
        ELSE /\ members' = Append(members, other) /\ next' = Append(next, other)
             /\ definitions' = IF e.type = "defines" THEN Append(definitions, other)
                               ELSE definitions
             /\ exceptions' = IF e.type \in {"proviso", "notwithstanding"}
                              THEN Append(exceptions, other) ELSE exceptions

(* An element at the other end of an edge joins the regime once, in the    *)
(* role the edge gives it that is looked at first.                         *)
See(e) ==
  LET other == Other(e, Head(frontier))
  IN  IF other \in ToSet(members) \/ other \notin scope
        THEN UNCHANGED <<regime, next>>
        ELSE /\ members' = Append(members, other) /\ next' = Append(next, other)
             /\ definitions' = IF e.type = "defines" THEN Append(definitions, other)
                               ELSE definitions
             /\ exceptions' = IF e.type \in {"proviso", "notwithstanding"}
                              THEN Append(exceptions, other) ELSE exceptions

(* The edges of an extraction come in the order built; the store answers   *)
(* in any order.                                                           *)
Look ==
  /\ pc = "walk" /\ rest # <<>>
  /\ \E n \in DOMAIN rest : (n = 1 \/ fromStore) /\ See(rest[n]) /\ rest' = RemoveAt(rest, n)
  /\ UNCHANGED <<store, pc, graph, frontier, depth>>

NextSource ==
  /\ pc = "walk" /\ rest = <<>> /\ Len(frontier) > 1
  /\ frontier' = Tail(frontier) /\ rest' = Touching(edges, frontier[2])
  /\ UNCHANGED <<store, pc, graph, regime, next, depth>>

(* Mutant: one level too many.                                            *)
NextLevelBeyond ==
  /\ pc = "walk" /\ rest = <<>> /\ Len(frontier) = 1
  /\ depth' = depth + 1
  /\ IF next = <<>> \/ depth = MaxDepth
       THEN frontier' = <<>> /\ rest' = <<>>
       ELSE frontier' = next /\ rest' = Touching(edges, Head(next))
  /\ next' = <<>>
  /\ UNCHANGED <<store, pc, graph, regime>>

NextLevel ==
  /\ pc = "walk" /\ rest = <<>> /\ Len(frontier) = 1
  /\ depth' = depth + 1
  /\ IF next = <<>> \/ depth + 1 = MaxDepth
       THEN frontier' = <<>> /\ rest' = <<>>
       ELSE frontier' = next /\ rest' = Touching(edges, Head(next))
  /\ next' = <<>>
  /\ UNCHANGED <<store, pc, graph, regime>>

Walked == pc = "walk" /\ frontier = <<>>

(* The regime is the claim's, and what the walk kept is gone.              *)
Return ==
  /\ pc' = "idle" /\ fromStore' = FALSE
  /\ edges' = <<>> /\ scope' = {} /\ primary' = NoId
  /\ members' = <<>> /\ definitions' = <<>> /\ exceptions' = <<>>
  /\ frontier' = <<>> /\ next' = <<>> /\ rest' = <<>> /\ depth' = 0

(* The regime from the store takes in what the classifier's answer names;  *)
(* a regime from the state replaces it as it is.                           *)
Finish ==
  /\ Walked /\ UNCHANGED store
  /\ IF fromStore THEN pc' = "merge" /\ UNCHANGED <<graph, regime, walk>> ELSE Return

(* merge_llm_regime_hints, one id at a time.                               *)
Hint(id) ==
  /\ pc = "merge"
  /\ IF id \in ToSet(members) \/ id \notin rows THEN UNCHANGED regime
     ELSE /\ members' = Append(members, id)
          /\ definitions' = IF id[1] = "definition" /\ id \notin ToSet(definitions)
                            THEN Append(definitions, id) ELSE definitions
          /\ UNCHANGED exceptions
  /\ UNCHANGED <<store, pc, graph, walk>>

EndMerge == pc = "merge" /\ Return /\ UNCHANGED store

Next ==
  \/ \E d \in Documents : Extract(d)
  \/ \E p \in rows : WalkStore(p) \/ WalkState(p)
  \/ Look \/ NextSource \/ NextLevel \/ Finish
  \/ \E id \in rows \cup {NoId} : Hint(id)
  \/ EndMerge

Spec == Init /\ [][Next]_vars

-----------------------------------------------------------------------------
(* Each clause is listed once and in at most one role: definitions and     *)
(* exceptions are other members than the clause itself, and no clause is   *)
(* both (assemble_regime, merge_llm_regime_hints).                         *)
ListedOnce ==
  /\ Distinct(members) /\ Distinct(definitions) /\ Distinct(exceptions)
  /\ ToSet(definitions) \cup ToSet(exceptions) \subseteq ToSet(members) \ {primary}
  /\ ToSet(definitions) \cap ToSet(exceptions) = {}

(* What lies within n edges of id, for each n, whichever way they point.   *)
Ball(id, es) ==
  LET Within[n \in 0..MaxDepth] ==
        IF n = 0 THEN {id}
        ELSE Within[n - 1] \cup UNION {{e.from, e.to} :
               e \in {e \in es : {e.from, e.to} \cap Within[n - 1] # {}}}
  IN  Within

(* A walk takes in exactly what lies within MaxDepth edges of the clause,  *)
(* in whatever order the edges come; and what the walk over this           *)
(* extraction finds, the walk over the store would find too, for its edges *)
(* are all stored, whatever was stored before (assemble_regime,            *)
(* save_elements, get_structure_edges).                                    *)
RegimeIsBall ==
  Walked =>
    /\ ToSet(members) = Ball(primary, ToSet(edges))[MaxDepth]
    /\ ~fromStore => ToSet(members) \subseteq Ball(primary, ToSet(stored))[MaxDepth]

(* The clauses that are linked to id as its exceptions.                    *)
ExceptionsTo(id) ==
  {edges[n].from : n \in {n \in DOMAIN edges :
     edges[n].to = id /\ edges[n].type \in {"proviso", "notwithstanding"}}}

(* "Definitions and provisos are tracked separately so the classifier and  *)
(* verifier can weight them deliberately" (regime.py): a clause that is    *)
(* linked to the primary one as a proviso or notwithstanding clause is     *)
(* among the exceptions of the regime that the claim keeps.               *)
LinkedExceptionsListed ==
  Walked /\ ~fromStore /\ MaxDepth > 0 => ExceptionsTo(primary) \subseteq ToSet(exceptions)
=============================================================================
