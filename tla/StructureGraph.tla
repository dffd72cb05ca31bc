--------------------------- MODULE StructureGraph ---------------------------
(***************************************************************************)
(* The structure graph of a document: what StructureGraphBuilder reads off *)
(* the stream of elements the text extractor emits.  Of a text only the    *)
(* features the builder looks for are kept; lettered items, chapters and   *)
(* articles, which are numbered and linked as sections are, are left out.  *)
(***************************************************************************)
EXTENDS Filter, Naturals, SequencesExt, FiniteSetsExt

CONSTANTS
  Terms,          (* terms that texts define and mention                   *)
  NoTerm

(* A number is a pair <<section, subsection>>.  Subsection 0 is the section*)
(* itself; a reference with section 0 is relative ("subsection (2)").      *)
Numbers == Nat \X Nat

(* What is read off one text.                                              *)
Text == [
  section  : BOOLEAN,            \* a "Section N" heading; else a paragraph
  titled   : BOOLEAN,            \* its heading says Definitions, Interpretation
  number   : Nat,                \* its own N or (N), 0 if none
  term     : Terms \cup {NoTerm},    \* opens with "term" means ...
  mentions : SUBSET Terms,
  refs     : Seq(Numbers),       \* what its text refers to, in order
  proviso  : BOOLEAN,            \* provided that; subsection does not apply
  notwithstanding : BOOLEAN ]

(* The position of the section that p is in, or that p is; 0 if none.      *)
SectionOf(doc, p) == Max({0} \cup {q \in 1..p : doc[q].section})
InDefinitions(doc, p) == SectionOf(doc, p) # 0 /\ doc[SectionOf(doc, p)].titled

(* The element id: of a section by its number, so that two sections of one *)
(* number are one element; of a paragraph by its kind and place.           *)
Kinds == {"section", "definition", "list_item", "paragraph"}
Ids == Kinds \X Nat
Kind(doc, p) ==
  IF doc[p].section THEN "section"
  ELSE IF InDefinitions(doc, p) THEN "definition"
  ELSE IF doc[p].number # 0 THEN "list_item" ELSE "paragraph"
Id(doc, p) == <<Kind(doc, p), IF doc[p].section THEN doc[p].number ELSE p>>
IdsOf(doc) == {Id(doc, p) : p \in DOMAIN doc}

NoId == <<"none", 0>>
ParentOf(doc, p) ==
  IF doc[p].section \/ SectionOf(doc, p) = 0 THEN NoId ELSE Id(doc, SectionOf(doc, p))

(* legal_numbering: a paragraph has one only under a section, and with "(N)".*)
NumberOf(doc, p) ==
  IF doc[p].section THEN <<doc[p].number, 0>>
  ELSE IF ParentOf(doc, p) = NoId \/ doc[p].number = 0 THEN <<0, 0>>
  ELSE <<doc[SectionOf(doc, p)].number, doc[p].number>>

(* A heading also mentions its own number.                                 *)
References(doc, p) == (IF doc[p].section THEN <<NumberOf(doc, p)>> ELSE <<>>) \o doc[p].refs

(* The first element with the number a reference in p names.               *)
Resolve(doc, p, ref) ==
  LET number == IF ref[1] = 0 THEN <<NumberOf(doc, p)[1], ref[2]>> ELSE ref
      named  == {q \in DOMAIN doc : NumberOf(doc, q) = number /\ number[1] # 0}
  IN  IF named = {} THEN NoId ELSE Id(doc, Min(named))

(* The other elements p refers to, in the order of its text.               *)
Targets(doc, p) ==
  Kept([n \in DOMAIN References(doc, p) |-> Resolve(doc, p, References(doc, p)[n])],
       Ids \ {Id(doc, p)})

-----------------------------------------------------------------------------
EdgeTypes == {"cross_reference", "defines", "proviso", "notwithstanding"}
Edge == [from : Ids, to : Ids, type : EdgeTypes]
EdgeOf(f, t, ty) == [from |-> f, to |-> t, type |-> ty]

CrossReferences(doc) ==
  FlattenSeq([p \in DOMAIN doc |->
    LET targets == Targets(doc, p)
    IN  [n \in DOMAIN targets |-> EdgeOf(Id(doc, p), targets[n], "cross_reference")]])

(* A definition is the first text in a definitions section to introduce    *)
(* its term.                                                               *)
Introduces(doc, p, t) == InDefinitions(doc, p) /\ doc[p].term = t
Defines(doc, p) ==
  /\ doc[p].term # NoTerm /\ Introduces(doc, p, doc[p].term)
  /\ \A q \in 1..(p - 1) : ~Introduces(doc, q, doc[p].term)

(* The places of the texts, in order, that are in S.                       *)
Places(doc, S) == Kept([p \in DOMAIN doc |-> p], S)

(* From each definition to every element, itself no definition, that       *)
(* mentions its term.                                                      *)
Used(doc, p) ==
  LET definers == {d \in DOMAIN doc : Defines(doc, d)}
  IN  IF Id(doc, p) \in {Id(doc, d) : d \in definers} THEN {}
      ELSE {d \in definers : doc[d].term \in doc[p].mentions}

Definitions(doc) ==
  FlattenSeq([p \in DOMAIN doc |->
    LET used == Places(doc, Used(doc, p))
    IN  [n \in DOMAIN used |-> EdgeOf(Id(doc, used[n]), Id(doc, p), "defines")]])

(* A proviso governs its parent or, without one, the sibling before it.    *)
Governed(doc, p) ==
  LET first    == Min({q \in DOMAIN doc : Id(doc, q) = Id(doc, p)})
      siblings == {q \in 1..(first - 1) : ParentOf(doc, q) = NoId}
  IN  IF ParentOf(doc, p) # NoId THEN ParentOf(doc, p)
      ELSE IF siblings = {} THEN NoId ELSE Id(doc, Max(siblings))

(* A notwithstanding clause governs what it refers to first or, without    *)
(* that, its parent.                                                       *)
Overridden(doc, p) ==
  IF Targets(doc, p) # <<>> THEN Head(Targets(doc, p)) ELSE ParentOf(doc, p)

(* An edge of a type from each of the elements S to what it governs.       *)
EdgesFrom(doc, S, To(_), type) ==
  LET from == Places(doc, {p \in S : To(p) # NoId})
  IN  [n \in DOMAIN from |-> EdgeOf(Id(doc, from[n]), To(from[n]), type)]

Provisos(doc) ==
  EdgesFrom(doc, {p \in DOMAIN doc : doc[p].proviso}, LAMBDA p : Governed(doc, p), "proviso")
Notwithstandings(doc) ==
  EdgesFrom(doc, {p \in DOMAIN doc : doc[p].notwithstanding},
            LAMBDA p : Overridden(doc, p), "notwithstanding")

(* Each edge once, where it is first.                                      *)
Once[s \in Seq(Edge)] ==
  LET first == {n \in DOMAIN s : \A m \in 1..(n - 1) : s[m] # s[n]}
      order == Kept([n \in DOMAIN s |-> n], first)
  IN  [i \in DOMAIN order |-> s[order[i]]]

Build(doc) ==
  Once[CrossReferences(doc) \o Definitions(doc) \o Provisos(doc) \o Notwithstandings(doc)]
=============================================================================
