---------------------------- MODULE RegimeProofs ----------------------------
(***************************************************************************)
(* Theorems about the regimes of clauses, for any documents and depth      *)
(* (Regime), and about the reading of PDF and HTML documents into elements *)
(* (Extraction), for any documents, layouts and likeness of texts.         *)
(***************************************************************************)
EXTENDS Regime, Extraction, FilterProofs, SequenceTheorems, FiniteSetTheorems

(* A sequence that gains a new element.                                    *)
LEMMA AppendNew ==
  ASSUME NEW S, NEW s \in Seq(S), NEW x \in S
  PROVE  /\ Append(s, x) \in Seq(S)
         /\ ToSet(Append(s, x)) = ToSet(s) \cup {x}
         /\ Distinct(s) /\ x \notin ToSet(s) => Distinct(Append(s, x))
<1>1. Append(s, x) \in Seq(S) /\ Len(Append(s, x)) = Len(s) + 1 /\ Len(s) \in Nat
  OBVIOUS
<1>2. DOMAIN s = 1..Len(s) /\ DOMAIN Append(s, x) = 1..(Len(s) + 1)
  OBVIOUS
<1>3. \A n \in 1..Len(s) : Append(s, x)[n] = s[n]
  OBVIOUS
<1>4. Append(s, x)[Len(s) + 1] = x
  OBVIOUS
<1>5. ToSet(Append(s, x)) = ToSet(s) \cup {x}
  BY <1>1, <1>2, <1>3, <1>4 DEF ToSet
<1>6. ASSUME Distinct(s), x \notin ToSet(s)
      PROVE  Distinct(Append(s, x))
  BY <1>1, <1>2, <1>3, <1>4, <1>6 DEF Distinct, ToSet
<1>7. QED
  BY <1>1, <1>5, <1>6

(* No sequence, no elements.                                               *)
LEMMA EmptyList == ToSet(<<>>) = {} /\ Distinct(<<>>) /\ \A S : <<>> \in Seq(S)
  BY DEF ToSet, Distinct

(* A sequence of one.                                                      *)
LEMMA SingleList ==
  ASSUME NEW S, NEW x \in S
  PROVE  <<x>> \in Seq(S) /\ ToSet(<<x>>) = {x} /\ Distinct(<<x>>)
  BY DEF ToSet, Distinct

-----------------------------------------------------------------------------
(***************************************************************************)
(* Facts about the operators of the graph.                                 *)
(***************************************************************************)

(* A sequence whose elements are all in U is one over U.                   *)
LEMMA SeqOver ==
  ASSUME NEW T, NEW s \in Seq(T), NEW U, \A i \in DOMAIN s : s[i] \in U
  PROVE  s \in Seq(U)
<1>1. s = [i \in 1..Len(s) |-> s[i]] /\ Len(s) \in Nat /\ DOMAIN s = 1..Len(s)
  OBVIOUS
<1>2. s \in [1..Len(s) -> U]
  BY <1>1
<1>3. QED
  BY <1>1, <1>2

(* What is kept for being in S is a sequence over S.                       *)
LEMMA KeptOver ==
  ASSUME NEW T, NEW s \in Seq(T), NEW S
  PROVE  Kept(s, S) \in Seq(S \cap T)
<1>1. Kept(s, S) \in Seq(T) /\ \A i \in DOMAIN Kept(s, S) : Kept(s, S)[i] \in S
  BY KeptProperties
<1> DEFINE kept == Kept(s, S)
<1> HIDE DEF kept
<1>2. kept \in Seq(T) /\ \A i \in DOMAIN kept : kept[i] \in S
  BY <1>1 DEF kept
<1>3. \A i \in DOMAIN kept : kept[i] \in S \cap T
  BY <1>2
<1>4. kept \in Seq(S \cap T)
  BY <1>2, <1>3, SeqOver
<1>5. QED
  BY <1>4 DEF kept

(* The concatenation of sequences over T is a sequence over T.             *)
LEMMA FlattenOver ==
  ASSUME NEW T, NEW ss \in Seq(Seq(T))
  PROVE  FlattenSeq(ss) \in Seq(T)
<1> DEFINE flatten == CHOOSE flatten : flatten =
             [i \in 1..Len(ss) |-> IF i = 1 THEN ss[i] ELSE flatten[i - 1] \o ss[i]]
           N == Len(ss)
           X == Seq(T)
           base == <<>>
           step == [p \in (1..N) \X X |-> p[2] \o ss[p[1]]]
<1>1. CASE Len(ss) = 0
  <2>1. ss = <<>>
    BY <1>1
  <2>2. FlattenSeq(ss) = ss
    BY <1>1 DEF FlattenSeq
  <2>3. <<>> \in Seq(T)
    OBVIOUS
  <2>4. QED
    BY <2>1, <2>2, <2>3, Zenon
<1>2. CASE Len(ss) # 0
  <2>1. StaysIn(step, N, X)
    BY DEF StaysIn
  <2>2. N \in Nat /\ base \in X /\ N \in 1..N
    BY <1>2
  <2>3. PICK f : Recursion(f, N, X, base, step)
    <3> HIDE DEF step, N, X, base
    <3>1. QED
      BY <2>1, <2>2, RecursionDefines
  <2>4. f \in [0..N -> X] /\ f[0] = <<>> /\ \A n \in 1..N : f[n] = step[<<n, f[n - 1]>>]
    BY <2>3 DEF Recursion
  <2> DEFINE g == [i \in 1..N |-> f[i]]
  <2>5. ASSUME NEW i \in 1..N
        PROVE  g[i] = IF i = 1 THEN ss[i] ELSE g[i - 1] \o ss[i]
    <3>1. i - 1 \in 0..N
      BY <2>2
    <3>2. f[i] = step[<<i, f[i - 1]>>]
      <4> HIDE DEF step
      <4>1. QED
        BY <2>4
    <3>3. f[i - 1] \in X
      BY <2>4, <3>1
    <3>4. f[i] = f[i - 1] \o ss[i]
      BY <3>2, <3>3
    <3>5. ss[i] \in Seq(T)
      OBVIOUS
    <3>6. CASE i = 1
      <4>1. f[i - 1] = <<>> /\ g[i] = f[i]
        BY <2>4, <3>6
      <4>2. <<>> \o ss[i] = ss[i]
        BY <3>5
      <4>3. QED
        BY <3>4, <3>6, <4>1, <4>2, Zenon
    <3>7. CASE i # 1
      <4>1. i - 1 \in 1..N
        BY <2>2, <3>7
      <4>2. g[i] = f[i] /\ g[i - 1] = f[i - 1]
        BY <4>1
      <4>3. QED
        BY <3>4, <3>7, <4>2, Zenon
    <3>8. QED
      BY <3>6, <3>7
  <2>6. g = [i \in 1..Len(ss) |-> IF i = 1 THEN ss[i] ELSE g[i - 1] \o ss[i]]
    BY <2>5
  <2>7. flatten = [i \in 1..Len(ss) |-> IF i = 1 THEN ss[i] ELSE flatten[i - 1] \o ss[i]]
    <3> HIDE DEF g
    <3>1. QED
      BY <2>6
  <2>8. FlattenSeq(ss) = flatten[Len(ss)]
    BY <1>2 DEF FlattenSeq
  <2> HIDE DEF flatten, step
  <2>9. ASSUME NEW i \in 1..N
        PROVE  flatten[i] = IF i = 1 THEN ss[i] ELSE flatten[i - 1] \o ss[i]
    BY <2>7, Zenon
  <2> DEFINE good == {n \in Nat : n = 0 \/ flatten[n] \in Seq(T)}
  <2>10. 0..N \subseteq good
    <3>1. 0 \in good
      OBVIOUS
    <3>2. ASSUME NEW n \in 0..N, n < N, n \in good PROVE n + 1 \in good
      <4>1. n + 1 \in 1..N /\ (n + 1) - 1 = n /\ n + 1 \in Nat /\ ss[n + 1] \in Seq(T)
        BY <3>2
      <4>2. flatten[n + 1] = IF n = 0 THEN ss[n + 1] ELSE flatten[n] \o ss[n + 1]
        BY <2>9, <4>1
      <4>3. flatten[n + 1] \in Seq(T)
        BY <3>2, <4>1, <4>2
      <4>4. QED
        BY <4>1, <4>3
    <3> HIDE DEF good
    <3>3. QED
      BY <2>2, <3>1, <3>2, Induction
  <2>11. flatten[N] \in Seq(T)
    BY <1>2, <2>2, <2>10
  <2>12. QED
    BY <2>8, <2>11
<1>3. QED
  BY <1>1, <1>2

(* Every element of a document has an id.                                  *)
LEMMA IdsAreIds == ASSUME NEW d \in Documents PROVE IdsOf(d) \subseteq Ids
<1>1. d \in Seq(Text)
  BY RegimeAssumption
<1>2. ASSUME NEW p \in DOMAIN d
      PROVE  Id(d, p) \in Ids
  <2>1. d[p] \in Text /\ p \in Nat
    BY <1>1
  <2>2. d[p].number \in Nat
    BY <2>1 DEF Text
  <2>3. Kind(d, p) \in Kinds
    BY DEF Kind, Kinds
  <2>4. QED
    BY <2>1, <2>2, <2>3 DEF Id, Ids
<1>3. QED
  BY <1>2 DEF IdsOf

(* The section a text is in is one of the document, or none.               *)
LEMMA SectionIn ==
  ASSUME NEW d \in Seq(Text), NEW p \in DOMAIN d
  PROVE  /\ SectionOf(d, p) \in 0..p
         /\ SectionOf(d, p) # 0 => SectionOf(d, p) \in DOMAIN d
<1> DEFINE S == {0} \cup {q \in 1..p : d[q].section}
<1>1. p \in Nat /\ p \in 1..Len(d) /\ DOMAIN d = 1..Len(d) /\ Len(d) \in Nat
  OBVIOUS
<1>2. S \in SUBSET (0..p) /\ S # {}
  BY <1>1
<1>3. Max(S) \in S
  <2> HIDE DEF S
  <2>1. QED
    BY <1>1, <1>2, MaxIn
<1>4. SectionOf(d, p) \in 0..p
  BY <1>2, <1>3 DEF SectionOf
<1>5. QED
  BY <1>1, <1>4

LEMMA ParentIn ==
  ASSUME NEW d \in Seq(Text), NEW p \in DOMAIN d
  PROVE  ParentOf(d, p) \in IdsOf(d) \cup {NoId}
BY SectionIn DEF ParentOf, IdsOf

LEMMA ResolveIn ==
  ASSUME NEW d \in Seq(Text), NEW p \in DOMAIN d, NEW ref
  PROVE  Resolve(d, p, ref) \in IdsOf(d) \cup {NoId}
<1> DEFINE number == IF ref[1] = 0 THEN <<NumberOf(d, p)[1], ref[2]>> ELSE ref
           named  == {q \in DOMAIN d : NumberOf(d, q) = number /\ number[1] # 0}
<1>1. named \in SUBSET DOMAIN d /\ named \in SUBSET Nat
  OBVIOUS
<1>2. Resolve(d, p, ref) = IF named = {} THEN NoId ELSE Id(d, Min(named))
  BY Zenon DEF Resolve
<1> HIDE DEF named
<1>3. named # {} => Min(named) \in DOMAIN d
  BY <1>1, MinIn
<1>4. QED
  BY <1>2, <1>3, Zenon DEF IdsOf

(* What a text refers to are elements of its document.                     *)
LEMMA TargetsIn ==
  ASSUME NEW d \in Seq(Text), NEW p \in DOMAIN d
  PROVE  Targets(d, p) \in Seq(IdsOf(d))
<1> DEFINE refs == References(d, p)
           all  == [n \in DOMAIN refs |-> Resolve(d, p, refs[n])]
           T    == IdsOf(d) \cup {NoId}
<1>1. refs \in Seq(Numbers \cup {NumberOf(d, p)})
  <2>1. d[p] \in Text
    OBVIOUS
  <2>2. d[p].refs \in Seq(Numbers \cup {NumberOf(d, p)})
    <3>1. d[p].refs \in Seq(Numbers)
      BY <2>1 DEF Text
    <3>2. \A i \in DOMAIN d[p].refs : d[p].refs[i] \in Numbers \cup {NumberOf(d, p)}
      BY <3>1
    <3>3. QED
      BY <3>1, <3>2, SeqOver
  <2>3. <<NumberOf(d, p)>> \in Seq(Numbers \cup {NumberOf(d, p)})
    OBVIOUS
  <2>4. <<>> \in Seq(Numbers \cup {NumberOf(d, p)})
    OBVIOUS
  <2> DEFINE own == IF d[p].section THEN <<NumberOf(d, p)>> ELSE <<>>
             U   == Numbers \cup {NumberOf(d, p)}
  <2>5. own \in Seq(U)
    BY <2>3, <2>4
  <2>6. refs = own \o d[p].refs
    BY DEF References
  <2> HIDE DEF own, U, refs
  <2>7. own \o d[p].refs \in Seq(U)
    BY <2>2, <2>5 DEF U
  <2>8. QED
    BY <2>6, <2>7 DEF U
<1>2. all \in Seq(T)
  <2>1. DOMAIN refs = 1..Len(refs) /\ Len(refs) \in Nat
    BY <1>1
  <2>2. \A n \in DOMAIN refs : Resolve(d, p, refs[n]) \in T
    BY ResolveIn
  <2> HIDE DEF refs, T
  <2>3. QED
    BY <2>1, <2>2
<1>3. Targets(d, p) = Kept(all, Ids \ {Id(d, p)})
  BY DEF Targets
<1>4. Kept(all, Ids \ {Id(d, p)}) \in Seq((Ids \ {Id(d, p)}) \cap T)
  <2> HIDE DEF all, T
  <2>1. QED
    BY <1>2, KeptOver
<1>5. NoId \notin Ids
  BY DEF NoId, Ids, Kinds
<1>6. (Ids \ {Id(d, p)}) \cap T \subseteq IdsOf(d)
  BY <1>5
<1> HIDE DEF all, T, refs
<1>7. \A i \in DOMAIN Targets(d, p) : Targets(d, p)[i] \in IdsOf(d)
  BY <1>3, <1>4, <1>6
<1>8. QED
  BY <1>3, <1>4, <1>7, SeqOver

LEMMA GovernedIn ==
  ASSUME NEW d \in Seq(Text), NEW p \in DOMAIN d
  PROVE  /\ Governed(d, p) \in IdsOf(d) \cup {NoId}
         /\ Overridden(d, p) \in IdsOf(d) \cup {NoId}
<1> DEFINE same     == {q \in DOMAIN d : Id(d, q) = Id(d, p)}
           siblings == {q \in 1..(Min(same) - 1) : ParentOf(d, q) = NoId}
<1>1. DOMAIN d = 1..Len(d) /\ Len(d) \in Nat
  OBVIOUS
<1>2. Min(same) \in 1..Len(d)
  <2>1. same \in SUBSET Nat /\ same # {} /\ same \subseteq 1..Len(d)
    BY <1>1
  <2> HIDE DEF same
  <2>2. QED
    BY <2>1, MinIn
<1> HIDE DEF same
<1>3. siblings \in SUBSET (0..Len(d)) /\ siblings \subseteq 1..Len(d)
  BY <1>1, <1>2
<1>4. siblings # {} => Max(siblings) \in DOMAIN d
  <2> HIDE DEF siblings
  <2>1. QED
    BY <1>1, <1>3, MaxIn
<1>5. Governed(d, p) = IF ParentOf(d, p) # NoId THEN ParentOf(d, p)
                       ELSE IF siblings = {} THEN NoId ELSE Id(d, Max(siblings))
  BY Zenon DEF Governed, same
<1> HIDE DEF siblings
<1>6. Governed(d, p) \in IdsOf(d) \cup {NoId}
  BY <1>4, <1>5, ParentIn DEF IdsOf
<1>7. Overridden(d, p) \in IdsOf(d) \cup {NoId}
  BY ParentIn, TargetsIn DEF Overridden
<1>8. QED
  BY <1>6, <1>7

(* The edges of a document are between its elements.                       *)
EdgesWithin(d) == [from : IdsOf(d), to : IdsOf(d), type : EdgeTypes]

LEMMA PlacesIn ==
  ASSUME NEW d \in Seq(Text), NEW S
  PROVE  Places(d, S) \in Seq(S \cap DOMAIN d)
<1>1. [p \in DOMAIN d |-> p] \in Seq(DOMAIN d)
  OBVIOUS
<1>2. QED
  BY <1>1, KeptOver DEF Places

(* Edges of one kind, from what a list of places refers to.                *)
LEMMA CrossReferencesIn ==
  ASSUME NEW d \in Seq(Text)
  PROVE  CrossReferences(d) \in Seq(EdgesWithin(d))
<1> DEFINE of(p) == LET targets == Targets(d, p)
                    IN  [n \in DOMAIN targets |-> EdgeOf(Id(d, p), targets[n], "cross_reference")]
<1>1. ASSUME NEW p \in DOMAIN d PROVE of(p) \in Seq(EdgesWithin(d))
  <2> DEFINE targets == Targets(d, p)
  <2>1. targets \in Seq(IdsOf(d)) /\ Id(d, p) \in IdsOf(d)
    BY TargetsIn DEF IdsOf
  <2> HIDE DEF targets
  <2>2. \A n \in DOMAIN targets : EdgeOf(Id(d, p), targets[n], "cross_reference") \in EdgesWithin(d)
    BY <2>1 DEF EdgeOf, EdgesWithin, EdgeTypes
  <2>3. [n \in DOMAIN targets |-> EdgeOf(Id(d, p), targets[n], "cross_reference")]
          \in Seq(EdgesWithin(d))
    BY <2>1, <2>2
  <2>4. QED
    BY <2>3 DEF targets
<1>2. [p \in DOMAIN d |-> of(p)] \in Seq(Seq(EdgesWithin(d)))
  <2> HIDE DEF of
  <2>1. QED
    BY <1>1
<1>3. QED
  BY <1>2, FlattenOver DEF CrossReferences

LEMMA DefinitionsIn ==
  ASSUME NEW d \in Seq(Text)
  PROVE  Definitions(d) \in Seq(EdgesWithin(d))
<1> DEFINE of(p) == LET used == Places(d, Used(d, p))
                    IN  [n \in DOMAIN used |-> EdgeOf(Id(d, used[n]), Id(d, p), "defines")]
<1>1. ASSUME NEW p \in DOMAIN d PROVE of(p) \in Seq(EdgesWithin(d))
  <2> DEFINE used == Places(d, Used(d, p))
  <2>1. used \in Seq(DOMAIN d)
    <3>1. used \in Seq(Used(d, p) \cap DOMAIN d)
      BY PlacesIn
    <3> HIDE DEF used
    <3>2. \A i \in DOMAIN used : used[i] \in DOMAIN d
      BY <3>1
    <3>3. QED
      BY <3>1, <3>2, SeqOver
  <2> HIDE DEF used
  <2>2. ASSUME NEW n \in DOMAIN used
        PROVE  EdgeOf(Id(d, used[n]), Id(d, p), "defines") \in EdgesWithin(d)
    <3>1. used[n] \in DOMAIN d
      BY <2>1
    <3>2. QED
      BY <3>1 DEF EdgeOf, EdgesWithin, EdgeTypes, IdsOf
  <2>3. [n \in DOMAIN used |-> EdgeOf(Id(d, used[n]), Id(d, p), "defines")]
          \in Seq(EdgesWithin(d))
    BY <2>1, <2>2
  <2>4. QED
    BY <2>3 DEF used
<1>2. [p \in DOMAIN d |-> of(p)] \in Seq(Seq(EdgesWithin(d)))
  <2> HIDE DEF of
  <2>1. QED
    BY <1>1
<1>3. QED
  BY <1>2, FlattenOver DEF Definitions

LEMMA ProvisosIn ==
  ASSUME NEW d \in Seq(Text)
  PROVE  Provisos(d) \in Seq(EdgesWithin(d)) /\ Notwithstandings(d) \in Seq(EdgesWithin(d))
<1>1. ASSUME NEW S \in SUBSET DOMAIN d, NEW to \in [DOMAIN d -> IdsOf(d) \cup {NoId}],
             NEW type \in EdgeTypes
      PROVE  LET from == Places(d, {p \in S : to[p] # NoId})
             IN  [n \in DOMAIN from |-> EdgeOf(Id(d, from[n]), to[from[n]], type)]
                   \in Seq(EdgesWithin(d))
  <2> DEFINE from == Places(d, {p \in S : to[p] # NoId})
  <2>1. from \in Seq({p \in S : to[p] # NoId} \cap DOMAIN d)
    BY PlacesIn
  <2> HIDE DEF from
  <2>2. ASSUME NEW n \in DOMAIN from
        PROVE  EdgeOf(Id(d, from[n]), to[from[n]], type) \in EdgesWithin(d)
    <3>1. from[n] \in DOMAIN d /\ to[from[n]] # NoId
      BY <2>1
    <3>2. to[from[n]] \in IdsOf(d) /\ Id(d, from[n]) \in IdsOf(d)
      BY <3>1 DEF IdsOf
    <3>3. QED
      BY <3>2 DEF EdgeOf, EdgesWithin
  <2>3. [n \in DOMAIN from |-> EdgeOf(Id(d, from[n]), to[from[n]], type)] \in Seq(EdgesWithin(d))
    BY <2>1, <2>2
  <2>4. QED
    BY <2>3 DEF from
<1>2. Provisos(d) \in Seq(EdgesWithin(d))
  <2> DEFINE S  == {p \in DOMAIN d : d[p].proviso}
             to == [p \in DOMAIN d |-> Governed(d, p)]
             from == Places(d, {p \in S : to[p] # NoId})
             plain == Places(d, {p \in S : Governed(d, p) # NoId})
  <2>1. to \in [DOMAIN d -> IdsOf(d) \cup {NoId}]
    BY GovernedIn
  <2>2. [n \in DOMAIN from |-> EdgeOf(Id(d, from[n]), to[from[n]], "proviso")]
          \in Seq(EdgesWithin(d))
    BY <1>1, <2>1 DEF EdgeTypes
  <2>3. {p \in S : to[p] # NoId} = {p \in S : Governed(d, p) # NoId}
    OBVIOUS
  <2>4. from = plain
    BY <2>3
  <2>5. from \in Seq({p \in S : to[p] # NoId} \cap DOMAIN d)
    BY PlacesIn
  <2>6. Provisos(d) = [n \in DOMAIN plain |-> EdgeOf(Id(d, plain[n]), Governed(d, plain[n]), "proviso")]
    BY DEF Provisos, EdgesFrom
  <2> HIDE DEF from, plain
  <2>7. \A n \in DOMAIN from : to[from[n]] = Governed(d, from[n])
    BY <2>5
  <2>8. QED
    BY <2>2, <2>4, <2>6, <2>7
<1>3. Notwithstandings(d) \in Seq(EdgesWithin(d))
  <2> DEFINE S  == {p \in DOMAIN d : d[p].notwithstanding}
             to == [p \in DOMAIN d |-> Overridden(d, p)]
             from == Places(d, {p \in S : to[p] # NoId})
             plain == Places(d, {p \in S : Overridden(d, p) # NoId})
  <2>1. to \in [DOMAIN d -> IdsOf(d) \cup {NoId}]
    BY GovernedIn
  <2>2. [n \in DOMAIN from |-> EdgeOf(Id(d, from[n]), to[from[n]], "notwithstanding")]
          \in Seq(EdgesWithin(d))
    BY <1>1, <2>1 DEF EdgeTypes
  <2>3. {p \in S : to[p] # NoId} = {p \in S : Overridden(d, p) # NoId}
    OBVIOUS
  <2>4. from = plain
    BY <2>3
  <2>5. from \in Seq({p \in S : to[p] # NoId} \cap DOMAIN d)
    BY PlacesIn
  <2>6. Notwithstandings(d) =
          [n \in DOMAIN plain |-> EdgeOf(Id(d, plain[n]), Overridden(d, plain[n]), "notwithstanding")]
    BY DEF Notwithstandings, EdgesFrom
  <2> HIDE DEF from, plain
  <2>7. \A n \in DOMAIN from : to[from[n]] = Overridden(d, from[n])
    BY <2>5
  <2>8. QED
    BY <2>2, <2>4, <2>6, <2>7
<1>4. QED
  BY <1>2, <1>3

LEMMA OnceOver ==
  ASSUME NEW T \in SUBSET Edge, NEW s \in Seq(T)
  PROVE  Once[s] \in Seq(T)
<1> DEFINE first == {n \in DOMAIN s : \A m \in 1..(n - 1) : s[m] # s[n]}
           order == Kept([n \in DOMAIN s |-> n], first)
<1>1. s \in Seq(Edge)
  BY SeqOver
<1>2. [n \in DOMAIN s |-> n] \in Seq(DOMAIN s)
  OBVIOUS
<1>3. order \in Seq(first \cap DOMAIN s)
  <2> HIDE DEF first
  <2>1. QED
    BY <1>2, KeptOver
<1>4. Once[s] = [i \in DOMAIN order |-> s[order[i]]]
  BY <1>1 DEF Once
<1> HIDE DEF order
<1>5. \A i \in DOMAIN order : s[order[i]] \in T
  BY <1>3
<1>6. QED
  BY <1>3, <1>4, <1>5

LEMMA BuildWithin ==
  ASSUME NEW d \in Documents
  PROVE  /\ Build(d) \in Seq(EdgesWithin(d)) /\ Build(d) \in Seq(Edge)
         /\ \A e \in ToSet(Build(d)) : e.from \in IdsOf(d) /\ e.to \in IdsOf(d)
<1>1. d \in Seq(Text)
  BY RegimeAssumption
<1> DEFINE all == CrossReferences(d) \o Definitions(d) \o Provisos(d) \o Notwithstandings(d)
<1>2. all \in Seq(EdgesWithin(d))
  BY <1>1, CrossReferencesIn, DefinitionsIn, ProvisosIn
<1>3. EdgesWithin(d) \in SUBSET Edge
  BY IdsAreIds DEF EdgesWithin, Edge
<1>4. Build(d) = Once[all]
  BY DEF Build
<1> HIDE DEF all
<1>5. Build(d) \in Seq(EdgesWithin(d))
  BY <1>2, <1>3, <1>4, OnceOver
<1>6. \A i \in DOMAIN Build(d) : Build(d)[i] \in EdgesWithin(d)
  BY <1>5
<1>7. Build(d) \in Seq(Edge)
  BY <1>3, <1>5, <1>6, SeqOver
<1>8. \A e \in ToSet(Build(d)) : e.from \in IdsOf(d) /\ e.to \in IdsOf(d)
  BY <1>6 DEF ToSet, EdgesWithin
<1>9. QED
  BY <1>5, <1>7, <1>8

-----------------------------------------------------------------------------
(* A level is only walked below the bound, and the clause a walk is about  *)
(* is in its regime from the start.                                        *)
RegimeInv ==
  /\ TypeOK /\ ListedOnce
  /\ frontier # <<>> => depth < MaxDepth
  /\ pc # "idle" => primary \in ToSet(members) /\ primary \in Ids

LEMMA RegimeInit == Init => RegimeInv
<1> SUFFICES ASSUME Init PROVE RegimeInv
  OBVIOUS
<1>1. rows \subseteq Ids
  BY IdsAreIds DEF Init
<1>2. TypeOK
  <2>1. <<>> \in Seq(Ids) /\ 0 \in 0..MaxDepth /\ 0 \in 0..MaxExtractions
    BY RegimeAssumption
  <2>2. /\ members \in Seq(Ids) /\ definitions \in Seq(Ids) /\ exceptions \in Seq(Ids)
        /\ depth \in 0..MaxDepth /\ extractions \in 0..MaxExtractions
    BY <2>1, Zenon DEF Init
  <2>3. /\ doc \in Documents /\ pc \in {"idle", "walk", "merge"} /\ fromStore \in BOOLEAN
        /\ scope \subseteq Ids /\ primary \in Ids \cup {NoId}
    BY DEF Init
  <2>4. QED
    BY <1>1, <2>2, <2>3 DEF TypeOK
<1>3. ListedOnce
  BY EmptyList DEF Init, ListedOnce
<1>4. QED
  BY <1>2, <1>3 DEF Init, RegimeInv

(* A walk that begins, over whatever edges and elements.                   *)
LEMMA WalkBegins ==
  ASSUME RegimeInv, NEW p \in Ids, NEW es, NEW ids \in SUBSET Ids,
         Walk(p, es, ids), fromStore' \in BOOLEAN
  PROVE  RegimeInv'
<1>1. TypeOK'
  BY EmptyList, SingleList, RegimeAssumption DEF RegimeInv, TypeOK, Walk, store
<1>2. ListedOnce'
  BY EmptyList, SingleList, Zenon DEF ListedOnce, Walk
<1>3. frontier' # <<>> => depth' < MaxDepth
  BY RegimeAssumption DEF Walk
<1>4. primary' \in ToSet(members') /\ primary' \in Ids
  BY SingleList DEF Walk
<1>5. QED
  BY <1>1, <1>2, <1>3, <1>4 DEF RegimeInv

(* A clause that joins the regime, in one role or none.                    *)
LEMMA ClauseJoins ==
  ASSUME TypeOK, ListedOnce, NEW id \in Ids, id \notin ToSet(members),
         primary \in ToSet(members), primary' = primary,
         members' = Append(members, id),
         \/ definitions' = definitions /\ exceptions' = exceptions
         \/ definitions' = Append(definitions, id) /\ exceptions' = exceptions
         \/ definitions' = definitions /\ exceptions' = Append(exceptions, id)
  PROVE  /\ ListedOnce' /\ primary' \in ToSet(members')
         /\ members' \in Seq(Ids) /\ definitions' \in Seq(Ids) /\ exceptions' \in Seq(Ids)
<1>1. members \in Seq(Ids) /\ definitions \in Seq(Ids) /\ exceptions \in Seq(Ids)
  BY DEF TypeOK
<1>2. /\ id \notin ToSet(definitions) /\ id \notin ToSet(exceptions) /\ id # primary
  BY DEF ListedOnce
<1>3. /\ members' \in Seq(Ids) /\ Distinct(members')
      /\ ToSet(members') = ToSet(members) \cup {id}
  BY <1>1, AppendNew DEF ListedOnce
<1>4. /\ definitions' \in Seq(Ids) /\ Distinct(definitions')
      /\ exceptions' \in Seq(Ids) /\ Distinct(exceptions')
  <2>1. Distinct(definitions) /\ Distinct(exceptions)
    BY DEF ListedOnce
  <2>2. Append(definitions, id) \in Seq(Ids) /\ Distinct(Append(definitions, id))
    BY <1>1, <1>2, <2>1, AppendNew
  <2>3. Append(exceptions, id) \in Seq(Ids) /\ Distinct(Append(exceptions, id))
    BY <1>1, <1>2, <2>1, AppendNew
  <2>4. QED
    BY <1>1, <2>1, <2>2, <2>3, Zenon
<1>5. \/ ToSet(definitions') = ToSet(definitions) /\ ToSet(exceptions') = ToSet(exceptions)
      \/ ToSet(definitions') = ToSet(definitions) \cup {id} /\ ToSet(exceptions') = ToSet(exceptions)
      \/ ToSet(definitions') = ToSet(definitions) /\ ToSet(exceptions') = ToSet(exceptions) \cup {id}
  BY <1>1, AppendNew
<1>6. ListedOnce'
  BY <1>2, <1>3, <1>4, <1>5 DEF ListedOnce
<1>7. QED
  BY <1>3, <1>4, <1>6

LEMMA RegimeStep == RegimeInv /\ [Next]_vars => RegimeInv'
<1> SUFFICES ASSUME RegimeInv, [Next]_vars PROVE RegimeInv'
  OBVIOUS
<1>1. ASSUME NEW d \in Documents, Extract(d)
      PROVE  RegimeInv'
  <2>1. rows' \subseteq Ids
    BY <1>1, IdsAreIds DEF RegimeInv, TypeOK, Extract, SaveElements
  <2>2. extractions' \in 0..MaxExtractions
    BY <1>1, RegimeAssumption DEF RegimeInv, TypeOK, Extract
  <2>3. QED
    BY <1>1, <2>1, <2>2, Zenon
    DEF RegimeInv, TypeOK, Extract, ListedOnce, graph, regime, walk
<1>2. ASSUME NEW p \in rows, WalkStore(p)
      PROVE  RegimeInv'
  <2>1. p \in Ids /\ StoreScope(stored, p) \in SUBSET Ids
    BY DEF RegimeInv, TypeOK, StoreScope
  <2>2. QED
    BY <1>2, <2>1, WalkBegins DEF WalkStore
<1>3. ASSUME NEW p \in rows, WalkState(p)
      PROVE  RegimeInv'
  <2>1. p \in Ids /\ IdsOf(doc) \in SUBSET Ids
    BY IdsAreIds DEF RegimeInv, TypeOK
  <2>2. QED
    BY <1>3, <2>1, WalkBegins DEF WalkState
<1>4. ASSUME Look
      PROVE  RegimeInv'
  <2>1. PICK n \in DOMAIN rest : See(rest[n])
    BY <1>4 DEF Look
  <2>2. UNCHANGED <<store, pc, graph, frontier, depth>> /\ pc = "walk"
    BY <1>4 DEF Look
  <2> DEFINE other == Other(rest[n], Head(frontier))
  <2>3. CASE other \in ToSet(members) \/ other \notin scope
    <3>1. UNCHANGED regime
      BY <2>1, <2>3 DEF See
    <3>2. QED
      BY <2>2, <3>1, Zenon DEF RegimeInv, TypeOK, ListedOnce, store, graph, regime
  <2>4. CASE other \notin ToSet(members) /\ other \in scope
    <3>1. other \in Ids
      BY <2>4 DEF RegimeInv, TypeOK
    <3>2. /\ members' = Append(members, other)
          /\ \/ definitions' = definitions /\ exceptions' = exceptions
             \/ definitions' = Append(definitions, other) /\ exceptions' = exceptions
             \/ definitions' = definitions /\ exceptions' = Append(exceptions, other)
      BY <2>1, <2>4 DEF See
    <3>3. /\ ListedOnce' /\ primary' \in ToSet(members')
          /\ members' \in Seq(Ids) /\ definitions' \in Seq(Ids) /\ exceptions' \in Seq(Ids)
      BY <2>2, <2>4, <3>1, <3>2, ClauseJoins DEF RegimeInv, graph
    <3>4. QED
      BY <2>2, <3>3 DEF RegimeInv, TypeOK, store, graph
  <2>5. QED
    BY <2>3, <2>4
<1>5. ASSUME NextSource
      PROVE  RegimeInv'
  <2>1. depth' = depth /\ depth < MaxDepth
    <3>1. depth' = depth /\ frontier # <<>>
      BY <1>5 DEF NextSource
    <3>2. QED
      BY <3>1 DEF RegimeInv
  <2>2. UNCHANGED <<store, pc, graph, regime>>
    BY <1>5 DEF NextSource
  <2>3. QED
    BY <2>1, <2>2, Zenon DEF RegimeInv, TypeOK, ListedOnce, store, graph, regime
<1>6. ASSUME NextLevel
      PROVE  RegimeInv'
  <2>1. depth' \in 0..MaxDepth /\ (frontier' # <<>> => depth' < MaxDepth)
    <3>1. /\ frontier # <<>> /\ depth' = depth + 1
          /\ frontier' # <<>> => depth + 1 # MaxDepth
      BY <1>6 DEF NextLevel
    <3>2. depth \in 0..MaxDepth /\ depth < MaxDepth
      BY <3>1 DEF RegimeInv, TypeOK
    <3>3. QED
      BY <3>1, <3>2, RegimeAssumption
  <2>2. UNCHANGED <<store, pc, graph, regime>>
    BY <1>6 DEF NextLevel
  <2>3. QED
    BY <2>1, <2>2, Zenon DEF RegimeInv, TypeOK, ListedOnce, store, graph, regime
<1>7. ASSUME Return, UNCHANGED store
      PROVE  RegimeInv'
  <2>1. TypeOK'
    <3>1. <<>> \in Seq(Ids) /\ 0 \in 0..MaxDepth
      BY RegimeAssumption
    <3>2. /\ members' \in Seq(Ids) /\ definitions' \in Seq(Ids) /\ exceptions' \in Seq(Ids)
          /\ depth' \in 0..MaxDepth
      BY <1>7, <3>1, Zenon DEF Return
    <3>3. /\ pc' \in {"idle", "walk", "merge"} /\ fromStore' \in BOOLEAN
          /\ scope' \subseteq Ids /\ primary' \in Ids \cup {NoId}
      BY <1>7 DEF Return
    <3>4. doc' = doc /\ rows' = rows /\ extractions' = extractions
      BY <1>7 DEF store
    <3>5. QED
      BY <3>2, <3>3, <3>4 DEF RegimeInv, TypeOK
  <2>2. ListedOnce'
    BY <1>7, EmptyList, Zenon DEF ListedOnce, Return
  <2>3. QED
    BY <1>7, <2>1, <2>2 DEF RegimeInv, Return
<1>8. ASSUME Finish
      PROVE  RegimeInv'
  <2>1. CASE fromStore
    BY <1>8, <2>1 DEF Finish, Walked, RegimeInv, TypeOK, ListedOnce, store, graph, regime, walk
  <2>2. CASE ~fromStore
    BY <1>7, <1>8, <2>2 DEF Finish
  <2>3. QED
    BY <2>1, <2>2
<1>9. ASSUME NEW id \in rows \cup {NoId}, Hint(id)
      PROVE  RegimeInv'
  <2>1. UNCHANGED <<store, pc, graph, walk>> /\ pc = "merge"
    BY <1>9 DEF Hint
  <2>2. CASE id \in ToSet(members) \/ id \notin rows
    <3>1. UNCHANGED regime
      BY <1>9, <2>2 DEF Hint
    <3>2. QED
      BY <2>1, <3>1, Zenon DEF RegimeInv, TypeOK, ListedOnce, store, graph, regime, walk
  <2>3. CASE id \notin ToSet(members) /\ id \in rows
    <3>1. id \in Ids
      BY <2>3 DEF RegimeInv, TypeOK
    <3>2. /\ members' = Append(members, id)
          /\ \/ definitions' = definitions /\ exceptions' = exceptions
             \/ definitions' = Append(definitions, id) /\ exceptions' = exceptions
      BY <1>9, <2>3 DEF Hint
    <3>3. /\ ListedOnce' /\ primary' \in ToSet(members')
          /\ members' \in Seq(Ids) /\ definitions' \in Seq(Ids) /\ exceptions' \in Seq(Ids)
      BY <2>1, <2>3, <3>1, <3>2, ClauseJoins DEF RegimeInv, graph
    <3>4. QED
      BY <2>1, <3>3 DEF RegimeInv, TypeOK, store, graph, walk
  <2>4. QED
    BY <2>2, <2>3
<1>10. ASSUME EndMerge
       PROVE  RegimeInv'
  BY <1>7, <1>10 DEF EndMerge
<1>11. ASSUME UNCHANGED vars
       PROVE  RegimeInv'
  BY <1>11, Zenon DEF vars, store, graph, regime, walk, RegimeInv, TypeOK, ListedOnce
<1>12. QED
  BY <1>1, <1>2, <1>3, <1>4, <1>5, <1>6, <1>8, <1>9, <1>10, <1>11 DEF Next

-----------------------------------------------------------------------------
(* What is stored joins stored elements, and the edges of the document     *)
(* extracted last are among it.  A walk knows both ends of every edge it   *)
(* may follow.                                                             *)
GraphInv ==
  /\ stored \in Seq(Edge) /\ \A e \in ToSet(stored) : e.from \in rows /\ e.to \in rows
  /\ ToSet(Build(doc)) \subseteq ToSet(stored)
  /\ pc = "walk" =>
       /\ edges \in Seq(Edge) /\ \A e \in ToSet(edges) : e.from \in scope /\ e.to \in scope
       /\ ~fromStore => ToSet(edges) \subseteq ToSet(stored)

(* At depth d, a walk has all that lies within d edges and nothing that    *)
(* does not lie within d + 1, and nothing new beyond d but what the next   *)
(* level begins with.  Of an edge that leaves what lies within d, the      *)
(* other end is in, or the edge is still to be looked at.                  *)
AtLevel(ball, d) ==
  /\ ball[d] \subseteq ToSet(members) /\ ToSet(members) \subseteq ball[d + 1]
  /\ ToSet(frontier) \subseteq ball[d]
  /\ ToSet(next) \subseteq ToSet(members) /\ ToSet(members) \ ToSet(next) \subseteq ball[d]
  /\ \A e \in ToSet(rest) : e \in ToSet(edges) /\ Head(frontier) \in {e.from, e.to}
  /\ \A x \in ball[d], e \in ToSet(edges) : x \in {e.from, e.to} =>
       \/ Other(e, x) \in ToSet(members)
       \/ x = Head(frontier) /\ e \in ToSet(rest)
       \/ x \in ToSet(Tail(frontier))

WalkInv == pc = "walk" =>
  /\ frontier \in Seq(Ids) /\ next \in Seq(Ids) /\ rest \in Seq(Edge)
  /\ frontier = <<>> => rest = <<>> /\ ToSet(members) = Ball(primary, ToSet(edges))[MaxDepth]
  /\ frontier # <<>> => AtLevel(Ball(primary, ToSet(edges)), depth)

(* Lists put together, and a list without one of its elements.             *)
LEMMA Concatenated ==
  ASSUME NEW T, NEW s \in Seq(T), NEW t \in Seq(T)
  PROVE  s \o t \in Seq(T) /\ ToSet(s \o t) = ToSet(s) \cup ToSet(t)
<1>1. s \o t \in Seq(T) /\ Len(s \o t) = Len(s) + Len(t) /\ Len(s) \in Nat /\ Len(t) \in Nat
  OBVIOUS
<1>2. \A i \in 1..Len(s) : (s \o t)[i] = s[i]
  OBVIOUS
<1>3. \A i \in 1..Len(t) : (s \o t)[Len(s) + i] = t[i]
  OBVIOUS
<1>4. ToSet(s \o t) \subseteq ToSet(s) \cup ToSet(t)
  <2>1. ASSUME NEW i \in 1..(Len(s) + Len(t))
        PROVE  (s \o t)[i] \in ToSet(s) \cup ToSet(t)
    <3>1. CASE i <= Len(s)
      <4>1. i \in 1..Len(s)
        BY <1>1, <3>1
      <4>2. QED
        BY <1>2, <4>1 DEF ToSet
    <3>2. CASE i > Len(s)
      <4>1. i - Len(s) \in 1..Len(t) /\ Len(s) + (i - Len(s)) = i
        BY <1>1, <3>2
      <4>2. (s \o t)[i] = t[i - Len(s)]
        BY <1>3, <4>1
      <4>3. QED
        BY <4>1, <4>2 DEF ToSet
    <3>3. QED
      BY <1>1, <3>1, <3>2
  <2>2. DOMAIN (s \o t) = 1..(Len(s) + Len(t))
    BY <1>1
  <2>3. QED
    BY <2>1, <2>2 DEF ToSet
<1>5. ToSet(s) \cup ToSet(t) \subseteq ToSet(s \o t)
  <2>1. \A i \in 1..Len(s) : i \in 1..(Len(s) + Len(t))
    BY <1>1
  <2>2. \A i \in 1..Len(t) : Len(s) + i \in 1..(Len(s) + Len(t))
    BY <1>1
  <2>3. DOMAIN (s \o t) = 1..(Len(s) + Len(t)) /\ DOMAIN s = 1..Len(s) /\ DOMAIN t = 1..Len(t)
    BY <1>1
  <2>4. QED
    BY <1>2, <1>3, <2>1, <2>2, <2>3 DEF ToSet
<1>6. QED
  BY <1>1, <1>4, <1>5

LEMMA Removed ==
  ASSUME NEW T, NEW s \in Seq(T), NEW n \in DOMAIN s
  PROVE  /\ RemoveAt(s, n) \in Seq(T)
         /\ ToSet(RemoveAt(s, n)) \subseteq ToSet(s)
         /\ ToSet(s) \subseteq ToSet(RemoveAt(s, n)) \cup {s[n]}
<1> DEFINE a == SubSeq(s, 1, n - 1)
           b == SubSeq(s, n + 1, Len(s))
<1>1. n \in 1..Len(s) /\ Len(s) \in Nat
  OBVIOUS
<1>2. a \in Seq(T) /\ Len(a) = n - 1 /\ \A i \in 1..(n - 1) : a[i] = s[i]
  BY <1>1
<1>3. b \in Seq(T) /\ Len(b) = Len(s) - n /\ DOMAIN b = 1..(Len(s) - n)
      /\ \A i \in 1..(Len(s) - n) : b[i] = s[n + i]
  BY <1>1
<1>3a. b = [i \in 1..(Len(s) - n) |-> s[n + i]]
  <2> HIDE DEF b
  <2>1. b = [i \in DOMAIN b |-> b[i]]
    BY <1>3
  <2>2. QED
    BY <1>3, <2>1
<1> HIDE DEF a, b
<1>4. a \o b \in Seq(T) /\ ToSet(a \o b) = ToSet(a) \cup ToSet(b)
  BY <1>2, <1>3, Concatenated
<1>5. ToSet(a) = {s[i] : i \in 1..(n - 1)}
  BY <1>2 DEF ToSet
<1>6. ToSet(b) = {s[n + i] : i \in 1..(Len(s) - n)}
  BY <1>3a DEF ToSet
<1>7. RemoveAt(s, n) = a \o b
  BY DEF RemoveAt, a, b
<1>8. ToSet(a) \cup ToSet(b) \subseteq ToSet(s)
  <2>1. \A i \in 1..(n - 1) : i \in 1..Len(s)
    BY <1>1
  <2>2. \A i \in 1..(Len(s) - n) : n + i \in 1..Len(s)
    BY <1>1
  <2>3. DOMAIN s = 1..Len(s)
    OBVIOUS
  <2>4. QED
    BY <1>5, <1>6, <2>1, <2>2, <2>3 DEF ToSet
<1>9. ASSUME NEW i \in DOMAIN s, i # n PROVE s[i] \in ToSet(a) \cup ToSet(b)
  <2>1. i \in 1..(n - 1) \/ (i - n \in 1..(Len(s) - n) /\ n + (i - n) = i)
    BY <1>1, <1>9
  <2>2. QED
    BY <1>5, <1>6, <2>1
<1>10. ToSet(s) \subseteq ToSet(a) \cup ToSet(b) \cup {s[n]}
  BY <1>9 DEF ToSet
<1>11. QED
  BY <1>4, <1>7, <1>8, <1>10

(* The tail of a list that is not empty.                                   *)
LEMMA HeadAndTail ==
  ASSUME NEW T, NEW s \in Seq(T), s # <<>>
  PROVE  /\ Head(s) \in ToSet(s) /\ Head(s) \in T /\ Head(s) = s[1]
         /\ Tail(s) \in Seq(T) /\ ToSet(s) = {Head(s)} \cup ToSet(Tail(s))
         /\ Len(s) = 1 <=> Tail(s) = <<>>
         /\ Len(s) > 1 => Head(Tail(s)) = s[2]
<1>1. Len(s) \in Nat /\ Len(s) >= 1 /\ DOMAIN s = 1..Len(s) /\ Head(s) = s[1] /\ s[1] \in T
  OBVIOUS
<1>2. Tail(s) \in Seq(T) /\ Len(Tail(s)) = Len(s) - 1 /\ DOMAIN Tail(s) = 1..(Len(s) - 1)
      /\ \A i \in 1..(Len(s) - 1) : Tail(s)[i] = s[i + 1]
  BY <1>1
<1>3. ToSet(s) = {Head(s)} \cup ToSet(Tail(s))
  <2>1. \A i \in 1..(Len(s) - 1) : i + 1 \in 1..Len(s)
    BY <1>1
  <2>2. \A i \in 1..Len(s) : i = 1 \/ (i - 1 \in 1..(Len(s) - 1) /\ (i - 1) + 1 = i)
    BY <1>1
  <2>3. 1 \in 1..Len(s)
    BY <1>1
  <2> DEFINE t == Tail(s)
  <2>4. DOMAIN t = 1..(Len(s) - 1) /\ \A i \in 1..(Len(s) - 1) : t[i] = s[i + 1]
    BY <1>2
  <2> HIDE DEF t
  <2>5. ToSet(t) \subseteq ToSet(s)
    BY <1>1, <2>1, <2>4 DEF ToSet
  <2>6. ASSUME NEW i \in 1..Len(s) PROVE s[i] = s[1] \/ s[i] \in ToSet(t)
    <3>1. CASE i = 1
      BY <3>1
    <3>2. CASE i # 1
      <4>1. i - 1 \in 1..(Len(s) - 1) /\ (i - 1) + 1 = i
        BY <2>2, <3>2
      <4>2. t[i - 1] = s[i] /\ i - 1 \in DOMAIN t
        BY <2>4, <4>1
      <4>3. QED
        BY <4>2 DEF ToSet
    <3>3. QED
      BY <3>1, <3>2
  <2>7. ToSet(s) = {s[1]} \cup ToSet(t)
    BY <1>1, <2>3, <2>5, <2>6 DEF ToSet
  <2>8. QED
    BY <1>1, <2>7 DEF t
<1>4. Len(s) = 1 <=> Tail(s) = <<>>
  BY <1>1, <1>2
<1>5. Len(s) > 1 => Head(Tail(s)) = s[2]
  BY <1>1, <1>2
<1>6. QED
  BY <1>1, <1>2, <1>3, <1>4, <1>5

-----------------------------------------------------------------------------
(***************************************************************************)
(* What lies within n edges.                                               *)
(***************************************************************************)

(* The ends of the edges of es that have an end in S.                      *)
Around(es, S) == UNION {{e.from, e.to} : e \in {e \in es : {e.from, e.to} \cap S # {}}}

LEMMA AroundIn ==
  ASSUME NEW es \in SUBSET Edge, NEW S
  PROVE  /\ Around(es, S) \subseteq Ids
         /\ \A e \in es, x \in S : x \in {e.from, e.to} => Other(e, x) \in Around(es, S)
         /\ \A y \in Around(es, S) :
              y \in S \/ \E e \in es, x \in S : x \in {e.from, e.to} /\ Other(e, x) = y
         /\ \A T : S \subseteq T => Around(es, S) \subseteq Around(es, T)
         /\ \A fs : es \subseteq fs => Around(es, S) \subseteq Around(fs, S)
BY DEF Around, Other, Edge

(* Ball satisfies the equations it is defined by.                          *)
LEMMA BallDef ==
  ASSUME NEW id \in Ids, NEW es \in SUBSET Edge
  PROVE  /\ Ball(id, es) \in [0..MaxDepth -> SUBSET Ids]
         /\ Ball(id, es)[0] = {id}
         /\ \A n \in 1..MaxDepth :
              Ball(id, es)[n] = Ball(id, es)[n - 1] \cup Around(es, Ball(id, es)[n - 1])
<1> DEFINE ball == CHOOSE ball : ball =
             [n \in 0..MaxDepth |-> IF n = 0 THEN {id}
                                    ELSE ball[n - 1] \cup Around(es, ball[n - 1])]
           X == SUBSET Ids
           N == MaxDepth
           base == {id}
           step == [p \in (1..N) \X X |-> p[2] \cup Around(es, p[2])]
<1>1. StaysIn(step, N, X)
  BY AroundIn DEF StaysIn
<1>2. N \in Nat /\ base \in X
  BY RegimeAssumption
<1>3. PICK f : Recursion(f, N, X, base, step)
  <2> HIDE DEF step, N, X, base
  <2>1. QED
    BY <1>1, <1>2, RecursionDefines
<1>4. f \in [0..N -> X] /\ f[0] = base /\ \A n \in 1..N : f[n] = step[<<n, f[n - 1]>>]
  BY <1>3 DEF Recursion
<1>5. ASSUME NEW n \in 1..N
      PROVE  f[n] = f[n - 1] \cup Around(es, f[n - 1])
  <2>1. n - 1 \in 0..N
    BY <1>2
  <2>2. f[n - 1] \in X
    BY <1>4, <2>1
  <2>3. f[n] = step[<<n, f[n - 1]>>]
    BY <1>4
  <2>4. QED
    BY <2>2, <2>3
<1>6. f = [n \in 0..MaxDepth |-> IF n = 0 THEN {id} ELSE f[n - 1] \cup Around(es, f[n - 1])]
  <2>1. ASSUME NEW n \in 0..MaxDepth
        PROVE  f[n] = IF n = 0 THEN {id} ELSE f[n - 1] \cup Around(es, f[n - 1])
    <3>1. n = 0 \/ n \in 1..N
      BY <1>2
    <3>2. QED
      BY <1>2, <1>4, <1>5, <3>1
  <2>2. DOMAIN f = 0..MaxDepth
    BY <1>4
  <2>3. f = [n \in 0..MaxDepth |-> f[n]]
    BY <1>4, <2>2
  <2>4. QED
    BY <2>1, <2>3, Zenon
<1>7. ball = [n \in 0..MaxDepth |-> IF n = 0 THEN {id}
                                    ELSE ball[n - 1] \cup Around(es, ball[n - 1])]
  BY <1>6
<1>8. Ball(id, es) = ball
  BY DEF Ball, Around
<1> HIDE DEF ball, step
<1>9. /\ ball[0] = base
      /\ \A n \in 1..N : ball[n] = ball[n - 1] \cup Around(es, ball[n - 1])
  <2>1. ASSUME NEW n \in 0..MaxDepth
        PROVE  ball[n] = IF n = 0 THEN {id} ELSE ball[n - 1] \cup Around(es, ball[n - 1])
    BY <1>7, Zenon
  <2>2. 0 \in 0..MaxDepth /\ \A n \in 1..N : n \in 0..MaxDepth /\ n # 0
    BY <1>2
  <2>3. QED
    BY <2>1, <2>2
<1> DEFINE good == {n \in Nat : ball[n] \in SUBSET Ids}
<1>10. 0..N \subseteq good
  <2>1. 0 \in good
    BY <1>2, <1>9
  <2>2. ASSUME NEW n \in 0..N, n < N, n \in good PROVE n + 1 \in good
    <3>1. n + 1 \in 1..N /\ (n + 1) - 1 = n /\ n + 1 \in Nat
      BY <1>2, <2>2
    <3>2. ball[n + 1] = ball[n] \cup Around(es, ball[n])
      BY <1>9, <3>1
    <3>3. QED
      BY <2>2, <3>1, <3>2, AroundIn
  <2> HIDE DEF good, N
  <2>3. QED
    BY <1>2, <2>1, <2>2, Induction
<1>11. ball \in [0..MaxDepth -> SUBSET Ids]
  BY <1>7, <1>10
<1>12. QED
  BY <1>8, <1>9, <1>11

(* One more edge.                                                          *)
LEMMA BallNext ==
  ASSUME NEW id \in Ids, NEW es \in SUBSET Edge, NEW n \in 0..MaxDepth, n < MaxDepth
  PROVE  /\ Ball(id, es)[n + 1] = Ball(id, es)[n] \cup Around(es, Ball(id, es)[n])
         /\ Ball(id, es)[n] \subseteq Ids
<1>1. n + 1 \in 1..MaxDepth /\ (n + 1) - 1 = n
  BY RegimeAssumption
<1> DEFINE ball == Ball(id, es)
<1>2. /\ ball \in [0..MaxDepth -> SUBSET Ids]
      /\ \A m \in 1..MaxDepth : ball[m] = ball[m - 1] \cup Around(es, ball[m - 1])
  BY BallDef
<1> HIDE DEF ball
<1>3. ball[n + 1] = ball[(n + 1) - 1] \cup Around(es, ball[(n + 1) - 1])
  BY <1>1, <1>2
<1>4. ball[n] \subseteq Ids
  BY <1>2
<1>5. QED
  BY <1>1, <1>3, <1>4 DEF ball

(* A set that has id and is closed under the edges has the whole ball.     *)
LEMMA BallClosed ==
  ASSUME NEW id \in Ids, NEW es \in SUBSET Edge, NEW S, id \in S, Around(es, S) \subseteq S
  PROVE  \A n \in 0..MaxDepth : Ball(id, es)[n] \subseteq S
<1> DEFINE ball == Ball(id, es)
           good == {n \in Nat : ball[n] \subseteq S}
<1>1. ball[0] = {id}
  BY BallDef
<1>2. \A n \in 0..MaxDepth : n < MaxDepth => ball[n + 1] = ball[n] \cup Around(es, ball[n])
  BY BallNext
<1> HIDE DEF ball
<1>3. 0 \in good
  BY <1>1
<1>4. ASSUME NEW n \in 0..MaxDepth, n < MaxDepth, n \in good PROVE n + 1 \in good
  <2>1. Around(es, ball[n]) \subseteq Around(es, S)
    BY <1>4, AroundIn
  <2>2. n + 1 \in Nat
    BY RegimeAssumption
  <2>3. QED
    BY <1>2, <1>4, <2>1, <2>2
<1>5. 0..MaxDepth \subseteq good
  <2> HIDE DEF good
  <2>1. QED
    BY <1>3, <1>4, RegimeAssumption, Induction
<1>6. QED
  BY <1>5 DEF ball

(* What lies within fewer edges lies within MaxDepth.                      *)
LEMMA BallGrows ==
  ASSUME NEW id \in Ids, NEW es \in SUBSET Edge, NEW d \in 0..MaxDepth
  PROVE  Ball(id, es)[d] \subseteq Ball(id, es)[MaxDepth]
<1> DEFINE ball == Ball(id, es)
           good == {n \in Nat : d <= n => ball[d] \subseteq ball[n]}
<1>1. \A n \in 0..MaxDepth : n < MaxDepth => ball[n] \subseteq ball[n + 1]
  BY BallNext
<1> HIDE DEF ball
<1>2. 0 \in good
  OBVIOUS
<1>3. ASSUME NEW n \in 0..MaxDepth, n < MaxDepth, n \in good PROVE n + 1 \in good
  <2>1. n + 1 \in Nat /\ (d <= n + 1 => d <= n \/ d = n + 1)
    BY RegimeAssumption
  <2>2. QED
    BY <1>1, <1>3, <2>1
<1>4. 0..MaxDepth \subseteq good
  <2> HIDE DEF good
  <2>1. QED
    BY <1>2, <1>3, RegimeAssumption, Induction
<1>5. MaxDepth \in 0..MaxDepth
  BY RegimeAssumption
<1>6. QED
  BY <1>4, <1>5 DEF ball

(* With more edges, nothing is further away.                               *)
LEMMA BallMonotone ==
  ASSUME NEW id \in Ids, NEW es \in SUBSET Edge, NEW fs \in SUBSET Edge, es \subseteq fs
  PROVE  Ball(id, es)[MaxDepth] \subseteq Ball(id, fs)[MaxDepth]
<1> DEFINE b == Ball(id, es)
           c == Ball(id, fs)
           good == {n \in Nat : b[n] \subseteq c[n]}
<1>1. b[0] = {id} /\ c[0] = {id}
  BY BallDef
<1>2. \A n \in 0..MaxDepth : n < MaxDepth =>
        b[n + 1] = b[n] \cup Around(es, b[n]) /\ c[n + 1] = c[n] \cup Around(fs, c[n])
  BY BallNext
<1> HIDE DEF b, c
<1>3. 0 \in good
  BY <1>1
<1>4. ASSUME NEW n \in 0..MaxDepth, n < MaxDepth, n \in good PROVE n + 1 \in good
  <2>1. Around(es, b[n]) \subseteq Around(es, c[n])
    BY <1>4, AroundIn
  <2>2. Around(es, c[n]) \subseteq Around(fs, c[n])
    BY AroundIn
  <2>3. n + 1 \in Nat
    BY RegimeAssumption
  <2>4. QED
    BY <1>2, <1>4, <2>1, <2>2, <2>3
<1>5. 0..MaxDepth \subseteq good
  <2> HIDE DEF good
  <2>1. QED
    BY <1>3, <1>4, RegimeAssumption, Induction
<1>6. MaxDepth \in 0..MaxDepth
  BY RegimeAssumption
<1>7. QED
  BY <1>5, <1>6 DEF b, c

-----------------------------------------------------------------------------
(***************************************************************************)
(* The graph a walk is over.                                               *)
(***************************************************************************)

LEMMA GraphInit == Init => GraphInv
<1> SUFFICES ASSUME Init PROVE GraphInv
  OBVIOUS
<1>1. Build(doc) \in Seq(Edge)
      /\ \A e \in ToSet(Build(doc)) : e.from \in IdsOf(doc) /\ e.to \in IdsOf(doc)
  BY BuildWithin DEF Init
<1>2. QED
  BY <1>1, Zenon DEF Init, GraphInv

(* What is saved joins what is stored, and so do its elements.             *)
LEMMA SaveKeepsGraph ==
  ASSUME GraphInv, NEW d \in Documents, Extract(d)
  PROVE  GraphInv'
<1> DEFINE new == Kept(Build(d), ToSet(Build(d)) \ ToSet(stored))
<1>1. /\ doc' = d /\ rows' = rows \cup IdsOf(d) /\ stored' = stored \o new
      /\ UNCHANGED <<pc, edges, scope, fromStore>>
  BY DEF Extract, SaveElements, graph
<1>2. /\ Build(d) \in Seq(Edge)
      /\ \A e \in ToSet(Build(d)) : e.from \in IdsOf(d) /\ e.to \in IdsOf(d)
  BY BuildWithin
<1>3. ToSet(new) = ToSet(Build(d)) \ ToSet(stored)
  <2>1. ToSet(new) = ToSet(Build(d)) \cap (ToSet(Build(d)) \ ToSet(stored))
    BY <1>2, KeptSet
  <2>2. QED
    BY <2>1
<1>4. new \in Seq(Edge)
  <2>1. new \in Seq((ToSet(Build(d)) \ ToSet(stored)) \cap Edge)
    BY <1>2, KeptOver
  <2> HIDE DEF new
  <2>2. \A i \in DOMAIN new : new[i] \in Edge
    BY <2>1
  <2>3. QED
    BY <2>1, <2>2, SeqOver
<1> HIDE DEF new
<1>5. stored' \in Seq(Edge) /\ ToSet(stored') = ToSet(stored) \cup ToSet(new)
  BY <1>1, <1>4, Concatenated DEF GraphInv
<1>6. \A e \in ToSet(stored') : e.from \in rows' /\ e.to \in rows'
  BY <1>1, <1>2, <1>3, <1>5 DEF GraphInv
<1>7. ToSet(Build(doc)') \subseteq ToSet(stored')
  BY <1>1, <1>3, <1>5
<1>8. QED
  BY <1>1, <1>5, <1>6, <1>7 DEF GraphInv

LEMMA GraphStep == RegimeInv /\ GraphInv /\ [Next]_vars => GraphInv'
<1> SUFFICES ASSUME RegimeInv, GraphInv, [Next]_vars PROVE GraphInv'
  OBVIOUS
<1>1. CASE UNCHANGED <<store, pc, graph>>
  BY <1>1, Zenon DEF store, graph, GraphInv
<1>2. ASSUME NEW p \in rows, WalkStore(p)
      PROVE  GraphInv'
  <2>1. /\ edges' = stored /\ scope' = StoreScope(stored, p) /\ pc' = "walk" /\ fromStore'
        /\ UNCHANGED store
    BY <1>2 DEF WalkStore, Walk
  <2>2. \A e \in ToSet(stored) : e.from \in StoreScope(stored, p) /\ e.to \in StoreScope(stored, p)
    BY DEF GraphInv, StoreScope, ToSet
  <2>3. QED
    BY <2>1, <2>2, Zenon DEF GraphInv, store
<1>3. ASSUME NEW p \in rows, WalkState(p)
      PROVE  GraphInv'
  <2>1. /\ edges' = Build(doc) /\ scope' = IdsOf(doc) /\ pc' = "walk" /\ UNCHANGED store
    BY <1>3 DEF WalkState, Walk
  <2>2. /\ Build(doc) \in Seq(Edge)
        /\ \A e \in ToSet(Build(doc)) : e.from \in IdsOf(doc) /\ e.to \in IdsOf(doc)
    BY BuildWithin DEF RegimeInv, TypeOK
  <2>3. QED
    BY <2>1, <2>2, Zenon DEF GraphInv, store
<1>4. CASE pc' # "walk" /\ UNCHANGED store
  BY <1>4, Zenon DEF GraphInv, store
<1>5. CASE Look \/ NextSource \/ NextLevel
  BY <1>1, <1>5 DEF Look, NextSource, NextLevel
<1>6. CASE Finish \/ EndMerge
  BY <1>4, <1>6 DEF Finish, EndMerge, Return
<1>7. ASSUME NEW id \in rows \cup {NoId}, Hint(id)
      PROVE  GraphInv'
  BY <1>1, <1>7 DEF Hint
<1>8. CASE UNCHANGED vars
  BY <1>1, <1>8 DEF vars
<1>9. QED
  BY <1>2, <1>3, <1>5, <1>6, <1>7, <1>8, SaveKeepsGraph DEF Next

-----------------------------------------------------------------------------
(***************************************************************************)
(* The walk, level by level.                                               *)
(***************************************************************************)

LEMMA TouchingSet ==
  ASSUME NEW es \in Seq(Edge), NEW id
  PROVE  /\ Touching(es, id) \in Seq(Edge)
         /\ ToSet(Touching(es, id)) = {e \in ToSet(es) : id \in {e.from, e.to}}
<1> DEFINE S == {e \in ToSet(es) : id \in {e.from, e.to}}
<1>1. Touching(es, id) = Kept(es, S)
  BY DEF Touching
<1>2. S \subseteq ToSet(es)
  OBVIOUS
<1> HIDE DEF S
<1>3. Kept(es, S) \in Seq(S \cap Edge) /\ ToSet(Kept(es, S)) = ToSet(es) \cap S
  BY KeptOver, KeptSet
<1>4. \A i \in DOMAIN Kept(es, S) : Kept(es, S)[i] \in Edge
  BY <1>3
<1>5. Kept(es, S) \in Seq(Edge)
  BY <1>3, <1>4, SeqOver
<1>6. ToSet(Kept(es, S)) = S
  BY <1>2, <1>3
<1>7. QED
  BY <1>1, <1>5, <1>6 DEF S

LEMMA SetOfEdges == ASSUME NEW es \in Seq(Edge) PROVE ToSet(es) \in SUBSET Edge
  BY DEF ToSet

LEMMA WalkStarts ==
  ASSUME NEW p \in Ids, NEW es \in Seq(Edge), NEW ids, Walk(p, es, ids)
  PROVE  WalkInv'
<1> DEFINE ball == Ball(p, ToSet(es))
<1>1. /\ edges' = es /\ primary' = p /\ members' = <<p>> /\ depth' = 0 /\ next' = <<>>
      /\ \/ MaxDepth = 0 /\ frontier' = <<>> /\ rest' = <<>>
         \/ MaxDepth # 0 /\ frontier' = <<p>> /\ rest' = Touching(es, p)
  BY DEF Walk
<1>2. ToSet(<<p>>) = {p} /\ <<p>> \in Seq(Ids) /\ <<>> \in Seq(Ids) /\ <<>> \in Seq(Edge)
      /\ ToSet(<<>>) = {} /\ Head(<<p>>) = p
  BY SingleList, EmptyList
<1>3. ball[0] = {p} /\ (MaxDepth # 0 => ball[0] \subseteq ball[0 + 1])
  BY BallDef, BallNext, SetOfEdges, RegimeAssumption
<1> HIDE DEF ball
<1>4. CASE MaxDepth = 0
  <2>1. frontier' = <<>> /\ rest' = <<>> /\ ToSet(members') = ball[MaxDepth]
    BY <1>1, <1>2, <1>3, <1>4, Zenon
  <2>2. QED
    BY <1>1, <1>2, <2>1, Zenon DEF WalkInv, ball
<1>5. CASE MaxDepth # 0
  <2>1. frontier' = <<p>> /\ rest' = Touching(es, p)
    BY <1>1, <1>5
  <2>2. /\ rest' \in Seq(Edge)
        /\ ToSet(rest') = {e \in ToSet(es) : p \in {e.from, e.to}}
    BY <2>1, TouchingSet
  <2>3. ASSUME NEW b, b = ball PROVE AtLevel(b, depth)'
    BY <1>1, <1>2, <1>3, <1>5, <2>1, <2>2, <2>3 DEF AtLevel
  <2>4. AtLevel(Ball(primary, ToSet(edges)), depth)'
    BY <1>1, <2>3 DEF ball, AtLevel
  <2>5. frontier' # <<>>
    BY <2>1
  <2>6. QED
    BY <1>1, <1>2, <2>1, <2>2, <2>4, <2>5, Zenon DEF WalkInv
<1>6. QED
  BY <1>4, <1>5

(* What holds while a level is walked.                                     *)
LEMMA AtWork ==
  ASSUME RegimeInv, GraphInv, WalkInv, pc = "walk", frontier # <<>>
  PROVE  /\ frontier \in Seq(Ids) /\ next \in Seq(Ids) /\ rest \in Seq(Edge)
         /\ edges \in Seq(Edge) /\ ToSet(edges) \in SUBSET Edge
         /\ depth \in 0..MaxDepth /\ depth < MaxDepth /\ primary \in Ids
         /\ members \in Seq(Ids)
         /\ AtLevel(Ball(primary, ToSet(edges)), depth)
         /\ Ball(primary, ToSet(edges))[depth + 1] =
              Ball(primary, ToSet(edges))[depth]
                \cup Around(ToSet(edges), Ball(primary, ToSet(edges))[depth])
<1>1. /\ edges \in Seq(Edge) /\ depth \in 0..MaxDepth /\ depth < MaxDepth /\ primary \in Ids
      /\ members \in Seq(Ids)
  BY DEF RegimeInv, TypeOK, GraphInv
<1>2. ToSet(edges) \in SUBSET Edge
  BY <1>1, SetOfEdges
<1>3. QED
  BY <1>1, <1>2, BallNext DEF WalkInv

(* An edge of the head of the frontier is looked at: its other end is in,  *)
(* or joins.                                                               *)
LEMMA LookKeepsWalk ==
  ASSUME RegimeInv, GraphInv, WalkInv, Look
  PROVE  WalkInv'
<1> DEFINE ball == Ball(primary, ToSet(edges))
           x == Head(frontier)
<1>1. PICK n \in DOMAIN rest : See(rest[n]) /\ rest' = RemoveAt(rest, n)
  BY DEF Look
<1> DEFINE e == rest[n]
           other == Other(e, x)
<1>2. pc = "walk" /\ rest # <<>> /\ UNCHANGED <<pc, edges, scope, primary, frontier, depth>>
  BY DEF Look, graph
<1>3. frontier # <<>>
  BY <1>2 DEF WalkInv
<1>4. /\ frontier \in Seq(Ids) /\ next \in Seq(Ids) /\ rest \in Seq(Edge)
      /\ edges \in Seq(Edge) /\ ToSet(edges) \in SUBSET Edge
      /\ members \in Seq(Ids)
      /\ AtLevel(ball, depth)
      /\ ball[depth + 1] = ball[depth] \cup Around(ToSet(edges), ball[depth])
  BY <1>2, <1>3, AtWork
<1> HIDE DEF ball
<1>5. /\ rest' \in Seq(Edge) /\ ToSet(rest') \subseteq ToSet(rest)
      /\ ToSet(rest) \subseteq ToSet(rest') \cup {e}
  BY <1>1, <1>4, Removed
<1>6. e \in ToSet(rest) /\ e \in ToSet(edges) /\ x \in {e.from, e.to} /\ e \in Edge
  <2>1. e \in ToSet(rest)
    BY DEF ToSet
  <2>2. QED
    BY <1>4, <2>1 DEF AtLevel
<1>7. x \in ball[depth]
  BY <1>3, <1>4, HeadAndTail DEF AtLevel
<1>8. other \in ball[depth + 1] /\ other \in scope /\ other \in Ids
  <2>1. other \in Around(ToSet(edges), ball[depth])
    BY <1>4, <1>6, <1>7, AroundIn
  <2>2. other \in scope
    BY <1>2, <1>6 DEF GraphInv, Other
  <2>3. other \in Ids
    BY <1>6 DEF Other, Edge
  <2>4. QED
    BY <1>4, <2>1, <2>2, <2>3
<1>9. /\ ToSet(members') = ToSet(members) \cup {other}
      /\ next' \in Seq(Ids)
      /\ ToSet(next) \subseteq ToSet(next')
      /\ ToSet(next') \subseteq ToSet(next) \cup (ToSet(members') \ ToSet(members))
      /\ ToSet(members') \ ToSet(members) \subseteq ToSet(next')
      /\ ToSet(next') \subseteq ToSet(next) \cup {other}
  <2>1. CASE other \in ToSet(members)
    <3>1. UNCHANGED <<members, next>>
      BY <1>1, <2>1 DEF See, regime
    <3>2. QED
      BY <1>4, <2>1, <3>1
  <2>2. CASE other \notin ToSet(members)
    <3>1. members' = Append(members, other) /\ next' = Append(next, other)
      BY <1>1, <1>8, <2>2 DEF See
    <3>2. ToSet(members') = ToSet(members) \cup {other}
      BY <1>4, <1>8, <3>1, AppendNew
    <3>3. ToSet(next') = ToSet(next) \cup {other} /\ next' \in Seq(Ids)
      BY <1>4, <1>8, <3>1, AppendNew
    <3>4. QED
      BY <2>2, <3>2, <3>3
  <2>3. QED
    BY <2>1, <2>2
<1> HIDE DEF e
<1>10. ASSUME NEW b, b = ball PROVE AtLevel(b, depth)'
  <2>1. b[depth] \subseteq ToSet(members') /\ ToSet(members') \subseteq b[depth + 1]
    BY <1>4, <1>8, <1>9, <1>10 DEF AtLevel
  <2>2. /\ ToSet(frontier) \subseteq b[depth]
        /\ ToSet(next') \subseteq ToSet(members') /\ ToSet(members') \ ToSet(next') \subseteq b[depth]
    BY <1>4, <1>9, <1>10 DEF AtLevel
  <2>3. \A f \in ToSet(rest') : f \in ToSet(edges) /\ Head(frontier) \in {f.from, f.to}
    BY <1>4, <1>5 DEF AtLevel
  <2>4. ASSUME NEW y \in b[depth], NEW f \in ToSet(edges), y \in {f.from, f.to}
        PROVE  \/ Other(f, y) \in ToSet(members')
               \/ y = Head(frontier) /\ f \in ToSet(rest')
               \/ y \in ToSet(Tail(frontier))
    <3>1. \/ Other(f, y) \in ToSet(members)
          \/ y = Head(frontier) /\ f \in ToSet(rest)
          \/ y \in ToSet(Tail(frontier))
      BY <1>4, <1>10, <2>4 DEF AtLevel
    <3>2. y = Head(frontier) /\ f = e => Other(f, y) = other
      OBVIOUS
    <3>3. QED
      BY <1>5, <1>9, <3>1, <3>2
  <2>5. QED
    BY <1>2, <2>1, <2>2, <2>3, <2>4 DEF AtLevel
<1>11. AtLevel(Ball(primary, ToSet(edges)), depth)'
  BY <1>2, <1>10 DEF ball, AtLevel
<1>12. QED
  BY <1>2, <1>3, <1>4, <1>5, <1>9, <1>11, Zenon DEF WalkInv

(* The next element of the level.                                          *)
LEMMA SourceKeepsWalk ==
  ASSUME RegimeInv, GraphInv, WalkInv, NextSource
  PROVE  WalkInv'
<1> DEFINE ball == Ball(primary, ToSet(edges))
<1>1. /\ pc = "walk" /\ rest = <<>> /\ Len(frontier) > 1
      /\ frontier' = Tail(frontier) /\ rest' = Touching(edges, frontier[2])
      /\ UNCHANGED <<pc, edges, primary, members, next, depth>>
  BY DEF NextSource, graph, regime
<1>2. frontier # <<>>
  BY <1>1
<1>3. /\ frontier \in Seq(Ids) /\ next \in Seq(Ids) /\ edges \in Seq(Edge)
      /\ AtLevel(ball, depth)
  BY <1>1, <1>2, AtWork
<1> HIDE DEF ball
<1>4. /\ Tail(frontier) \in Seq(Ids) /\ Tail(frontier) # <<>>
      /\ ToSet(frontier) = {Head(frontier)} \cup ToSet(Tail(frontier))
      /\ Head(Tail(frontier)) = frontier[2]
  BY <1>1, <1>2, <1>3, HeadAndTail
<1>5. ToSet(Tail(frontier)) = {frontier[2]} \cup ToSet(Tail(Tail(frontier)))
  BY <1>4, HeadAndTail
<1>6. /\ rest' \in Seq(Edge)
      /\ ToSet(rest') = {e \in ToSet(edges) : frontier[2] \in {e.from, e.to}}
  BY <1>1, <1>3, TouchingSet
<1>7. ToSet(rest) = {}
  BY <1>1, EmptyList
<1>8. ASSUME NEW b, b = ball PROVE AtLevel(b, depth)'
  <2>1. ToSet(frontier') \subseteq b[depth]
    BY <1>1, <1>3, <1>4, <1>8 DEF AtLevel
  <2>2. \A e \in ToSet(rest') : e \in ToSet(edges) /\ Head(frontier') \in {e.from, e.to}
    BY <1>1, <1>4, <1>6
  <2>3. ASSUME NEW y \in b[depth], NEW f \in ToSet(edges), y \in {f.from, f.to}
        PROVE  \/ Other(f, y) \in ToSet(members)
               \/ y = Head(frontier') /\ f \in ToSet(rest')
               \/ y \in ToSet(Tail(frontier'))
    <3>1. Other(f, y) \in ToSet(members) \/ y \in ToSet(Tail(frontier))
      BY <1>3, <1>7, <1>8, <2>3 DEF AtLevel
    <3>2. QED
      BY <1>1, <1>4, <1>5, <1>6, <2>3, <3>1
  <2>4. QED
    BY <1>1, <1>3, <1>8, <2>1, <2>2, <2>3 DEF AtLevel
<1>9. AtLevel(Ball(primary, ToSet(edges)), depth)'
  BY <1>1, <1>8 DEF ball, AtLevel
<1>10. QED
  BY <1>1, <1>3, <1>4, <1>6, <1>9, Zenon DEF WalkInv

(* A level is done: the walk has all that lies within one edge more.       *)
LEMMA LevelKeepsWalk ==
  ASSUME RegimeInv, GraphInv, WalkInv, NextLevel
  PROVE  WalkInv'
<1> DEFINE ball == Ball(primary, ToSet(edges))
           M == ToSet(members)
<1>1. /\ pc = "walk" /\ rest = <<>> /\ Len(frontier) = 1
      /\ depth' = depth + 1 /\ next' = <<>>
      /\ UNCHANGED <<pc, edges, primary, members>>
  BY DEF NextLevel, graph, regime
<1>2. frontier # <<>>
  BY <1>1
<1>3. /\ frontier \in Seq(Ids) /\ next \in Seq(Ids) /\ edges \in Seq(Edge)
      /\ ToSet(edges) \in SUBSET Edge /\ primary \in Ids
      /\ depth \in 0..MaxDepth /\ depth < MaxDepth
      /\ AtLevel(ball, depth)
      /\ ball[depth + 1] = ball[depth] \cup Around(ToSet(edges), ball[depth])
  BY <1>1, <1>2, AtWork
<1>4. /\ primary \in ball[0] /\ ball[0] = {primary}
      /\ \A d \in 0..MaxDepth : ball[d] \subseteq ball[MaxDepth]
      /\ \A d \in 0..MaxDepth : d < MaxDepth => ball[d] \subseteq ball[d + 1]
  BY <1>3, BallDef, BallGrows, BallNext
<1>5. \A S : primary \in S /\ Around(ToSet(edges), S) \subseteq S => ball[MaxDepth] \subseteq S
  BY <1>3, BallClosed, RegimeAssumption
<1> HIDE DEF ball
<1>6. ToSet(rest) = {} /\ ToSet(Tail(frontier)) = {} /\ ToSet(<<>>) = {}
  BY <1>1, <1>2, <1>3, HeadAndTail, EmptyList
<1>7. \A y \in ball[depth], f \in ToSet(edges) : y \in {f.from, f.to} => Other(f, y) \in M
  BY <1>3, <1>6 DEF AtLevel
<1>8. Around(ToSet(edges), ball[depth]) \subseteq M
  <2>1. \A y \in Around(ToSet(edges), ball[depth]) :
           y \in ball[depth]
           \/ \E e \in ToSet(edges), x \in ball[depth] : x \in {e.from, e.to} /\ Other(e, x) = y
    BY <1>3, AroundIn
  <2>2. ball[depth] \subseteq M
    BY <1>3 DEF AtLevel
  <2>3. QED
    <3> HIDE DEF M
    <3>1. QED
      BY <1>7, <2>1, <2>2
<1>9. M = ball[depth + 1]
  BY <1>3, <1>8 DEF AtLevel
<1>10. CASE next = <<>> \/ depth + 1 = MaxDepth
  <2>1. frontier' = <<>> /\ rest' = <<>>
    BY <1>10 DEF NextLevel
  <2>2. M = ball[MaxDepth]
    <3>1. CASE depth + 1 = MaxDepth
      BY <1>9, <3>1
    <3>2. CASE next = <<>>
      <4>1. M \subseteq ball[depth]
        BY <1>3, <1>6, <3>2 DEF AtLevel
      <4>2. M = ball[depth]
        BY <1>3, <4>1 DEF AtLevel
      <4>3. primary \in M
        BY <1>1 DEF RegimeInv
      <4>4. ball[MaxDepth] \subseteq M
        BY <1>5, <1>8, <4>2, <4>3
      <4>5. QED
        BY <1>3, <1>4, <4>2, <4>4
    <3>3. QED
      BY <1>10, <3>1, <3>2
  <2>3. <<>> \in Seq(Ids) /\ <<>> \in Seq(Edge)
    BY EmptyList
  <2>4. QED
    BY <1>1, <2>1, <2>2, <2>3, Zenon DEF WalkInv, ball
<1>11. CASE next # <<>> /\ depth + 1 # MaxDepth
  <2>1. frontier' = next /\ rest' = Touching(edges, Head(next))
    BY <1>11 DEF NextLevel
  <2>2. /\ rest' \in Seq(Edge)
        /\ ToSet(rest') = {e \in ToSet(edges) : Head(next) \in {e.from, e.to}}
    BY <1>3, <2>1, TouchingSet
  <2>3. ToSet(next) = {Head(next)} \cup ToSet(Tail(next))
    BY <1>3, <1>11, HeadAndTail
  <2>4. M \subseteq ball[depth + 1 + 1]
    <3>1. depth + 1 \in 0..MaxDepth /\ depth + 1 < MaxDepth
      BY <1>3, <1>11, RegimeAssumption
    <3>2. QED
      BY <1>4, <1>9, <3>1
  <2>5. ASSUME NEW b, b = ball PROVE AtLevel(b, depth)'
    <3>1. b[depth'] \subseteq M /\ M \subseteq b[depth' + 1]
      BY <1>1, <1>9, <2>4, <2>5
    <3>2. ToSet(frontier') \subseteq b[depth'] /\ M \ ToSet(next') \subseteq b[depth']
          /\ ToSet(next') \subseteq M
      BY <1>1, <1>3, <1>6, <1>9, <2>1, <2>5 DEF AtLevel
    <3>3. \A e \in ToSet(rest') : e \in ToSet(edges) /\ Head(frontier') \in {e.from, e.to}
      BY <2>1, <2>2
    <3>4. ASSUME NEW y \in b[depth'], NEW f \in ToSet(edges), y \in {f.from, f.to}
          PROVE  \/ Other(f, y) \in M
                 \/ y = Head(frontier') /\ f \in ToSet(rest')
                 \/ y \in ToSet(Tail(frontier'))
      <4>1. y \in M
        BY <1>1, <1>9, <2>5, <3>4
      <4>2. CASE y \in ToSet(next)
        BY <2>1, <2>2, <2>3, <3>4, <4>2
      <4>3. CASE y \notin ToSet(next)
        <5>1. y \in ball[depth]
          BY <1>3, <4>1, <4>3 DEF AtLevel
        <5>2. QED
          BY <1>7, <3>4, <5>1
      <4>4. QED
        BY <4>2, <4>3
    <3>5. QED
      BY <1>1, <3>1, <3>2, <3>3, <3>4 DEF AtLevel
  <2>6. AtLevel(Ball(primary, ToSet(edges)), depth)'
    BY <1>1, <2>5 DEF ball, AtLevel
  <2>7. QED
    BY <1>1, <1>3, <1>11, <2>1, <2>2, <2>6, EmptyList, Zenon DEF WalkInv
<1>12. QED
  BY <1>10, <1>11

LEMMA WalkStep == RegimeInv /\ GraphInv /\ WalkInv /\ [Next]_vars => WalkInv'
<1> SUFFICES ASSUME RegimeInv, GraphInv, WalkInv, [Next]_vars PROVE WalkInv'
  OBVIOUS
<1>1. CASE UNCHANGED <<pc, edges, primary, members, walk>>
  BY <1>1, Zenon DEF walk, WalkInv, AtLevel
<1>2. CASE pc' # "walk"
  BY <1>2 DEF WalkInv
<1>3. ASSUME NEW p \in rows, WalkStore(p)
      PROVE  WalkInv'
  BY <1>3, WalkStarts DEF WalkStore, RegimeInv, TypeOK, GraphInv
<1>4. ASSUME NEW p \in rows, WalkState(p)
      PROVE  WalkInv'
  <2>1. Build(doc) \in Seq(Edge) /\ p \in Ids
    BY BuildWithin DEF RegimeInv, TypeOK
  <2>2. QED
    BY <1>4, <2>1, WalkStarts DEF WalkState
<1>5. ASSUME NEW d \in Documents, Extract(d)
      PROVE  WalkInv'
  BY <1>1, <1>5 DEF Extract, graph, regime
<1>6. CASE Finish \/ EndMerge
  BY <1>2, <1>6 DEF Finish, EndMerge, Return
<1>7. ASSUME NEW id \in rows \cup {NoId}, Hint(id)
      PROVE  WalkInv'
  BY <1>2, <1>7 DEF Hint
<1>8. CASE UNCHANGED vars
  BY <1>1, <1>8 DEF vars, graph, regime
<1>9. QED
  BY <1>3, <1>4, <1>5, <1>6, <1>7, <1>8, LookKeepsWalk, SourceKeepsWalk, LevelKeepsWalk DEF Next

(* assemble_regime keeps its lists within their types and its levels       *)
(* within max_depth, for every document and depth.                         *)
THEOREM RegimeTypeOK == Spec => []TypeOK
<1>1. RegimeInv => TypeOK
  BY DEF RegimeInv
<1>2. QED
  BY <1>1, RegimeInit, RegimeStep, PTL DEF Spec

(* No clause is listed twice or in two roles, whatever the graph and       *)
(* whatever the classifier hints at (assemble_regime,                      *)
(* merge_llm_regime_hints).                                                *)
THEOREM RegimeListedOnce == Spec => []ListedOnce
<1>1. RegimeInv => ListedOnce
  BY DEF RegimeInv
<1>2. QED
  BY <1>1, RegimeInit, RegimeStep, PTL DEF Spec

(* A walk takes in exactly what lies within max_depth edges of the clause, *)
(* in whatever order edges come, for any documents and depth; and the walk *)
(* over an extraction finds nothing that one over the store would not      *)
(* (assemble_regime, save_elements).                                       *)
THEOREM RegimeIsTheBall == Spec => []RegimeIsBall
<1>1. Init => WalkInv
  BY DEF Init, WalkInv
<1>2. ASSUME RegimeInv, GraphInv, WalkInv
      PROVE  RegimeIsBall
  <2>1. SUFFICES ASSUME Walked
                 PROVE  /\ ToSet(members) = Ball(primary, ToSet(edges))[MaxDepth]
                        /\ ~fromStore =>
                             ToSet(members) \subseteq Ball(primary, ToSet(stored))[MaxDepth]
    BY DEF RegimeIsBall
  <2>2. ToSet(members) = Ball(primary, ToSet(edges))[MaxDepth]
    BY <1>2, <2>1 DEF WalkInv, Walked
  <2>3. /\ primary \in Ids /\ edges \in Seq(Edge) /\ stored \in Seq(Edge)
        /\ ~fromStore => ToSet(edges) \subseteq ToSet(stored)
    BY <1>2, <2>1 DEF RegimeInv, GraphInv, Walked
  <2>4. QED
    BY <2>2, <2>3, BallMonotone, SetOfEdges
<1>3. RegimeInv /\ GraphInv /\ WalkInv => RegimeIsBall
  BY <1>2
<1>4. QED
  BY <1>1, <1>3, RegimeInit, RegimeStep, GraphInit, GraphStep, WalkStep, PTL DEF Spec

-----------------------------------------------------------------------------
(* The pages elements are on.                                              *)
PagesOf(es) == {e.page : e \in ToSet(es)}

(* Elements in order, no two of one id but by their number.                *)
Follows(es) ==
  \A j, k \in DOMAIN es : j < k =>
    /\ es[j].end <= es[k].start /\ es[j].page <= es[k].page
    /\ es[j].id = es[k].id => es[j].id.by = "number"

(* What is before place k under the id h: a heading of the chapter there.  *)
HeadingAt(es, h, k) ==
  \E i \in 1..(k - 1) :
    /\ es[i].id = h /\ es[i].kind \in Headings
    /\ \A j \in (i + 1)..(k - 1) : es[j].kind # "chapter"

(* A walk that has come to page p: its elements, which end where it is,    *)
(* have ids it will not give again, and they and the headings in force are *)
(* under headings of their chapter.                                        *)
Sound(w, p) ==
  LET es == w.elements
  IN  /\ Follows(es)
      /\ \A k \in DOMAIN es :
           /\ es[k].start <= es[k].end /\ es[k].end <= w.offset /\ es[k].page <= p
           /\ es[k].id.by # "none"
           /\ es[k].id.by = "place" /\ es[k].id.kind # "empty" => es[k].id.at < w.index
           /\ es[k].id.by = "place" /\ es[k].id.kind = "empty" => es[k].id.page = es[k].page
           /\ es[k].parent # NoElement => HeadingAt(es, es[k].parent, k)
      /\ \A h \in {w.chapter, w.section} : h # NoElement => HeadingAt(es, h, Len(es) + 1)

(* A walk adds an element at its offset, with a new id, under a heading in *)
(* force; in force stays what is of its chapter, or it is itself.          *)
LEMMA SoundAppend ==
  ASSUME NEW w \in Outline, NEW x \in Outline, NEW p \in Nat, Sound(w, p), NEW e \in Extracted,
         x.elements = Append(w.elements, e), x.index = w.index + 1, x.offset >= e.end,
         e.start = w.offset, e.end >= w.offset, e.page >= p, e.id.by # "none",
         e.id.by = "place" /\ e.id.kind # "empty" => e.id.at = w.index,
         e.id.by = "place" /\ e.id.kind = "empty" => e.id.page = e.page /\ e.page > p,
         e.parent \in {NoElement, w.chapter, w.section},
         \A h \in {x.chapter, x.section} :
           \/ h = NoElement
           \/ h = e.id /\ e.kind \in Headings
           \/ h \in {w.chapter, w.section} /\ e.kind # "chapter"
  PROVE  Sound(x, e.page) /\ PagesOf(x.elements) = PagesOf(w.elements) \cup {e.page}
<1> DEFINE es == w.elements
           xs == x.elements
           N  == Len(es)
<1>1. /\ es \in Seq(Extracted) /\ w.offset \in Nat /\ w.index \in Nat
      /\ xs \in Seq(Extracted) /\ x.offset \in Nat /\ x.index \in Nat
      /\ e.start \in Nat /\ e.end \in Nat /\ e.page \in Nat /\ e.id \in ElementIds
  BY DEF Outline, Extracted
<1>2. /\ N \in Nat /\ DOMAIN es = 1..N /\ DOMAIN xs = 1..(N + 1) /\ Len(xs) = N + 1
      /\ \A k \in 1..N : xs[k] = es[k] /\ es[k] \in Extracted
      /\ xs[N + 1] = e
  BY <1>1
<1>3. \A k \in 1..N :
        /\ es[k].start \in Nat /\ es[k].end \in Nat /\ es[k].page \in Nat
        /\ es[k].id \in ElementIds /\ es[k].id.at \in Nat /\ es[k].id.page \in Nat
  BY <1>2 DEF Extracted, ElementIds
<1>4. /\ Follows(es)
      /\ \A k \in 1..N :
           /\ es[k].start <= es[k].end /\ es[k].end <= w.offset /\ es[k].page <= p
           /\ es[k].id.by # "none"
           /\ es[k].id.by = "place" /\ es[k].id.kind # "empty" => es[k].id.at < w.index
           /\ es[k].id.by = "place" /\ es[k].id.kind = "empty" => es[k].id.page = es[k].page
           /\ es[k].parent # NoElement => HeadingAt(es, es[k].parent, k)
      /\ \A h \in {w.chapter, w.section} : h # NoElement => HeadingAt(es, h, N + 1)
  BY <1>2 DEF Sound
<1> HIDE DEF es, xs, N
<1>5. ASSUME NEW k \in 1..(N + 1), NEW h, HeadingAt(es, h, k) PROVE HeadingAt(xs, h, k)
  <2>1. PICK i \in 1..(k - 1) :
          /\ es[i].id = h /\ es[i].kind \in Headings
          /\ \A j \in (i + 1)..(k - 1) : es[j].kind # "chapter"
    BY <1>5 DEF HeadingAt
  <2>2. \A j \in i..(k - 1) : j \in 1..N
    BY <1>2
  <2>3. xs[i] = es[i] /\ \A j \in (i + 1)..(k - 1) : xs[j] = es[j]
    BY <2>2, <1>2
  <2>4. QED
    BY <2>1, <2>3 DEF HeadingAt
<1>6. ASSUME NEW h, HeadingAt(es, h, N + 1), e.kind # "chapter" PROVE HeadingAt(xs, h, N + 2)
  <2>1. PICK i \in 1..N :
          /\ es[i].id = h /\ es[i].kind \in Headings
          /\ \A j \in (i + 1)..N : es[j].kind # "chapter"
    BY <1>6, <1>2 DEF HeadingAt
  <2>2. \A j \in (i + 1)..(N + 1) : xs[j].kind # "chapter"
    <3> TAKE j \in (i + 1)..(N + 1)
    <3>1. CASE j = N + 1
      BY <3>1, <1>2, <1>6
    <3>2. CASE j # N + 1
      <4>1. j \in (i + 1)..N /\ j \in 1..N
        BY <3>2, <1>2
      <4>2. QED
        BY <4>1, <1>2, <2>1
    <3>3. QED
      BY <3>1, <3>2
  <2>3. xs[i].id = h /\ xs[i].kind \in Headings /\ i \in 1..((N + 2) - 1) /\ (N + 2) - 1 = N + 1
    BY <2>1, <1>2
  <2>4. QED
    BY <2>2, <2>3 DEF HeadingAt
<1>7. e.kind \in Headings => HeadingAt(xs, e.id, N + 2)
  <2>1. xs[N + 1].id = e.id /\ xs[N + 1].kind = e.kind /\ N + 1 \in 1..((N + 2) - 1)
    BY <1>2
  <2>2. \A j \in ((N + 1) + 1)..((N + 2) - 1) : FALSE
    BY <1>2
  <2>3. QED
    BY <2>1, <2>2 DEF HeadingAt
<1>8. \A k \in 1..N : es[k].id = e.id => e.id.by = "number"
  <2> SUFFICES ASSUME NEW k \in 1..N, es[k].id = e.id, e.id.by # "number" PROVE FALSE
    OBVIOUS
  <2>1. e.id.by = "place"
    BY <1>1 DEF ElementIds
  <2>2. CASE e.id.kind = "empty"
    <3>1. es[k].page = e.page /\ es[k].page <= p /\ e.page > p
      BY <2>1, <2>2, <1>4
    <3>2. QED
      BY <3>1, <1>1, <1>3
  <2>3. CASE e.id.kind # "empty"
    <3>1. e.id.at < w.index /\ e.id.at = w.index
      BY <2>1, <2>3, <1>4
    <3>2. QED
      BY <3>1, <1>1
  <2>4. QED
    BY <2>2, <2>3
<1>9. Follows(xs)
  <2> SUFFICES ASSUME NEW j \in 1..(N + 1), NEW k \in 1..(N + 1), j < k
               PROVE  /\ xs[j].end <= xs[k].start /\ xs[j].page <= xs[k].page
                      /\ xs[j].id = xs[k].id => xs[j].id.by = "number"
    BY <1>2 DEF Follows
  <2>1. j \in 1..N /\ xs[j] = es[j]
    BY <1>2
  <2>2. CASE k = N + 1
    <3>1. xs[k] = e /\ es[j].end <= w.offset /\ es[j].page <= p
      BY <2>1, <2>2, <1>2, <1>4
    <3>2. xs[j].end <= xs[k].start /\ xs[j].page <= xs[k].page
      BY <3>1, <2>1, <1>1, <1>3
    <3>3. QED
      BY <3>1, <3>2, <2>1, <1>8
  <2>3. CASE k # N + 1
    <3>1. k \in 1..N /\ xs[k] = es[k]
      BY <2>3, <1>2
    <3>2. QED
      BY <3>1, <2>1, <1>2, <1>4 DEF Follows
  <2>4. QED
    BY <2>2, <2>3
<1>10. ASSUME NEW k \in 1..(N + 1)
       PROVE  /\ xs[k].start <= xs[k].end /\ xs[k].end <= x.offset /\ xs[k].page <= e.page
              /\ xs[k].id.by # "none"
              /\ xs[k].id.by = "place" /\ xs[k].id.kind # "empty" => xs[k].id.at < x.index
              /\ xs[k].id.by = "place" /\ xs[k].id.kind = "empty" => xs[k].id.page = xs[k].page
              /\ xs[k].parent # NoElement => HeadingAt(xs, xs[k].parent, k)
  <2>1. CASE k = N + 1
    <3>1. xs[k] = e
      BY <2>1, <1>2
    <3>2. e.parent # NoElement => HeadingAt(es, e.parent, k)
      BY <2>1, <1>4
    <3>3. e.parent # NoElement => HeadingAt(xs, e.parent, k)
      BY <3>2, <1>5
    <3>4. e.id.at = w.index => e.id.at < x.index
      BY <1>1
    <3>5. QED
      BY <3>1, <3>3, <3>4, <1>1
  <2>2. CASE k # N + 1
    <3>1. k \in 1..N /\ xs[k] = es[k]
      BY <2>2, <1>2
    <3>2. es[k].parent # NoElement => HeadingAt(xs, es[k].parent, k)
      BY <3>1, <1>4, <1>5
    <3>3. es[k].end <= x.offset /\ es[k].page <= e.page
      BY <3>1, <1>1, <1>3, <1>4
    <3>4. es[k].id.at < w.index => es[k].id.at < x.index
      BY <3>1, <1>1, <1>3
    <3>5. QED
      BY <3>1, <3>2, <3>3, <3>4, <1>4
  <2>3. QED
    BY <2>1, <2>2
<1>11. \A h \in {x.chapter, x.section} : h # NoElement => HeadingAt(xs, h, Len(xs) + 1)
  <2> SUFFICES ASSUME NEW h \in {x.chapter, x.section}, h # NoElement
               PROVE  HeadingAt(xs, h, N + 2)
    BY <1>2
  <2>1. CASE h = e.id /\ e.kind \in Headings
    BY <2>1, <1>7
  <2>2. CASE h \in {w.chapter, w.section} /\ e.kind # "chapter"
    BY <2>2, <1>4, <1>6
  <2>3. QED
    BY <2>1, <2>2
<1>12. Sound(x, e.page)
  BY <1>2, <1>9, <1>10, <1>11 DEF Sound, xs
<1>13. PagesOf(xs) = PagesOf(es) \cup {e.page}
  <2>1. PagesOf(es) = {es[k].page : k \in 1..N}
    BY <1>2 DEF PagesOf, ToSet
  <2>2. PagesOf(xs) = {xs[k].page : k \in 1..(N + 1)}
    BY <1>2 DEF PagesOf, ToSet
  <2>3. \A k \in 1..(N + 1) : xs[k].page = e.page \/ (k \in 1..N /\ xs[k].page = es[k].page)
    BY <1>2
  <2>4. N + 1 \in 1..(N + 1) /\ xs[N + 1].page = e.page
    BY <1>2
  <2>5. \A k \in 1..N : k \in 1..(N + 1) /\ xs[k].page = es[k].page
    BY <1>2
  <2>6. QED
    BY <2>1, <2>2, <2>3, <2>4, <2>5
<1>14. QED
  BY <1>12, <1>13 DEF xs, es

(* What a walk knows is true of any later page and offset.                 *)
LEMMA SoundMonotone ==
  ASSUME NEW w \in Outline, NEW p \in Nat, NEW q \in Nat, p <= q, Sound(w, p)
  PROVE  Sound(w, q) /\ Sound([w EXCEPT !.offset = @ + 1], q)
<1> DEFINE x == [w EXCEPT !.offset = @ + 1]
           es == w.elements
<1>1. /\ es \in Seq(Extracted) /\ w.offset \in Nat
      /\ x.elements = es /\ x.index = w.index /\ x.offset = w.offset + 1
      /\ x.chapter = w.chapter /\ x.section = w.section
  BY DEF Outline
<1>2. \A k \in DOMAIN es : es[k].end \in Nat /\ es[k].page \in Nat
  <2>1. \A k \in DOMAIN es : es[k] \in Extracted
    BY <1>1
  <2>2. QED
    BY <2>1 DEF Extracted
<1> HIDE DEF x
<1>3. \A k \in DOMAIN es : es[k].end <= w.offset /\ es[k].page <= p
  BY DEF Sound
<1>4. \A k \in DOMAIN es : es[k].end <= x.offset /\ es[k].page <= q
  BY <1>1, <1>2, <1>3
<1>5. Sound(w, q)
  BY <1>4 DEF Sound
<1>6. Sound(x, q)
  BY <1>1, <1>4 DEF Sound
<1>7. QED
  BY <1>5, <1>6 DEF x

LEMMA SoundStart ==
  /\ OutlineStart \in Outline /\ Sound(OutlineStart, 0) /\ PagesOf(OutlineStart.elements) = {}
  /\ OutlineStart.elements = <<>> /\ OutlineStart.chapter = NoElement
<1>1. NoElement \in ElementIds
  BY DEF NoElement, ElementIds
<1>2. OutlineStart \in Outline
  BY <1>1 DEF OutlineStart, Outline
<1>3. /\ OutlineStart.elements = <<>> /\ OutlineStart.chapter = NoElement
      /\ OutlineStart.section = NoElement
  BY DEF OutlineStart
<1>4. DOMAIN OutlineStart.elements = {}
  BY <1>3
<1>5. Sound(OutlineStart, 0)
  BY <1>3, <1>4 DEF Sound, Follows
<1>6. PagesOf(OutlineStart.elements) = {}
  BY <1>4 DEF PagesOf, ToSet
<1>7. QED
  BY <1>2, <1>3, <1>5, <1>6

-----------------------------------------------------------------------------
(* Ids and blocks.                                                         *)
LEMMA IdTyped ==
  ASSUME NEW b \in Block, NEW page \in Nat, NEW at \in Nat
  PROVE  /\ IdOf(b, page, at) \in ElementIds /\ IdOf(b, page, at).by # "none"
         /\ IdOf(b, page, at).kind = b.kind /\ b.kind # "empty"
         /\ IdOf(b, page, at).by = "place" => IdOf(b, page, at).at = at
<1>1. b.kind \in BlockKinds /\ b.number \in Nat /\ b.kind # "empty"
  BY ExtractionAssumption DEF Block
<1>2. CASE b.number # 0
  BY <1>1, <1>2 DEF IdOf, ElementIds
<1>3. CASE b.number = 0
  BY <1>1, <1>3 DEF IdOf, ElementIds
<1>4. QED
  BY <1>2, <1>3

LEMMA NestedKeeps ==
  ASSUME NEW w \in Outline, NEW b \in Block, NEW idPage \in Nat, NEW gap \in Nat
  PROVE  /\ Nested(w, b, idPage, gap) \in Outline
         /\ \A p \in Nat : p <= b.page /\ Sound(w, p) =>
              /\ Sound(Nested(w, b, idPage, gap), b.page)
              /\ PagesOf(Nested(w, b, idPage, gap).elements) = PagesOf(w.elements) \cup {b.page}
<1> DEFINE id == IdOf(b, idPage, w.index)
           above == CASE b.kind = "chapter" -> NoElement
                      [] b.kind = "section" -> w.chapter
                      [] OTHER              -> Under(w)
           e == ElementOf(b, id, above, w.offset)
           x == Nested(w, b, idPage, gap)
<1>1. /\ w.elements \in Seq(Extracted) /\ w.offset \in Nat /\ w.index \in Nat
      /\ w.chapter \in ElementIds /\ w.section \in ElementIds /\ NoElement \in ElementIds
  BY DEF Outline, NoElement, ElementIds
<1>2. /\ id \in ElementIds /\ id.by # "none" /\ id.kind # "empty"
      /\ id.by = "place" => id.at = w.index
  BY <1>1, IdTyped
<1>3. above \in {NoElement, w.chapter, w.section}
  BY DEF Under
<1>4. /\ x.elements = Append(w.elements, e)
      /\ x.chapter = (IF b.kind = "chapter" THEN id ELSE w.chapter)
      /\ x.section = (IF b.kind = "chapter" THEN NoElement
                      ELSE IF b.kind = "section" THEN id ELSE w.section)
      /\ x.offset = w.offset + 1 + gap /\ x.index = w.index + 1
      /\ x = [elements |-> x.elements, chapter |-> x.chapter, section |-> x.section,
              offset |-> x.offset, index |-> x.index]
  BY DEF Nested
<1> HIDE DEF id, above, x
<1>5. /\ e \in Extracted /\ e.id = id /\ e.kind = b.kind /\ e.parent = above /\ e.page = b.page
      /\ e.start = w.offset /\ e.end = w.offset + 1
  <2>1. above \in ElementIds
    BY <1>1, <1>3
  <2>2. PICK v \in ElementIds : v = id
    BY <1>2
  <2>3. PICK u \in ElementIds : u = above
    BY <2>1
  <2>4. /\ ElementOf(b, v, u, w.offset) \in Extracted
        /\ ElementOf(b, v, u, w.offset).id = v /\ ElementOf(b, v, u, w.offset).kind = b.kind
        /\ ElementOf(b, v, u, w.offset).parent = u /\ ElementOf(b, v, u, w.offset).page = b.page
        /\ ElementOf(b, v, u, w.offset).start = w.offset
        /\ ElementOf(b, v, u, w.offset).end = w.offset + 1
    BY <1>1 DEF ElementOf, Extracted, Block
  <2>5. e = ElementOf(b, v, u, w.offset)
    BY <2>2, <2>3
  <2>6. QED
    BY <2>2, <2>3, <2>4, <2>5
<1> HIDE DEF e
<1>6. x \in Outline
  <2>1. /\ x.elements \in Seq(Extracted) /\ x.chapter \in ElementIds /\ x.section \in ElementIds
        /\ x.offset \in Nat /\ x.index \in Nat
    BY <1>1, <1>2, <1>4, <1>5
  <2>2. QED
    BY <1>4, <2>1 DEF Outline
<1>7. ASSUME NEW p \in Nat, p <= b.page, Sound(w, p)
      PROVE  Sound(x, b.page) /\ PagesOf(x.elements) = PagesOf(w.elements) \cup {b.page}
  <2>1. \A h \in {x.chapter, x.section} :
           \/ h = NoElement
           \/ h = e.id /\ e.kind \in Headings
           \/ h \in {w.chapter, w.section} /\ e.kind # "chapter"
    BY <1>4, <1>5 DEF Headings
  <2>2. b.page \in Nat /\ x.offset >= e.end /\ e.end >= w.offset /\ e.page >= p
    BY <1>1, <1>4, <1>5, <1>7 DEF Block
  <2>3. Sound(x, e.page) /\ PagesOf(x.elements) = PagesOf(w.elements) \cup {e.page}
    BY <1>2, <1>3, <1>4, <1>5, <1>6, <1>7, <2>1, <2>2, SoundAppend
  <2>4. QED
    BY <2>3, <1>5
<1>8. QED
  BY <1>6, <1>7 DEF x

LEMMA FlatKeeps ==
  ASSUME NEW w \in Outline, NEW b \in Block
  PROVE  /\ Flat(w, b) \in Outline
         /\ \A p \in Nat : p <= b.page /\ Sound(w, p) /\ w.chapter = NoElement =>
              Sound(Flat(w, b), b.page) /\ Flat(w, b).chapter = NoElement
<1> DEFINE id == IdOf(b, 0, w.index)
           above == IF b.kind \in Headings THEN NoElement ELSE w.section
           e == ElementOf(b, id, above, w.offset)
           x == Flat(w, b)
<1>1. /\ w.elements \in Seq(Extracted) /\ w.offset \in Nat /\ w.index \in Nat
      /\ w.chapter \in ElementIds /\ w.section \in ElementIds /\ NoElement \in ElementIds
  BY DEF Outline, NoElement, ElementIds
<1>2. /\ id \in ElementIds /\ id.by # "none" /\ id.kind # "empty"
      /\ id.by = "place" => id.at = w.index
  BY <1>1, IdTyped
<1>3. above \in {NoElement, w.chapter, w.section}
  OBVIOUS
<1>4. /\ x.elements = Append(w.elements, e) /\ x.chapter = w.chapter
      /\ x.section = (IF b.kind \in Headings THEN id ELSE w.section)
      /\ x.offset = w.offset + 2 /\ x.index = w.index + 1
      /\ x = [elements |-> x.elements, chapter |-> x.chapter, section |-> x.section,
              offset |-> x.offset, index |-> x.index]
  <2> DEFINE y == [elements |-> Append(w.elements, e), chapter |-> w.chapter,
                   section |-> IF b.kind \in Headings THEN id ELSE w.section,
                   offset |-> w.offset + 2, index |-> w.index + 1]
  <2>1. x = y
    <3>1. w = [elements |-> w.elements, chapter |-> w.chapter, section |-> w.section,
               offset |-> w.offset, index |-> w.index]
      BY DEF Outline
    <3>2. x = [w EXCEPT !.elements = Append(@, e),
                        !.section  = IF b.kind \in Headings THEN id ELSE @,
                        !.offset   = @ + 2,
                        !.index    = @ + 1]
      BY DEF Flat
    <3> HIDE DEF x, e, id
    <3>3. QED
      BY <3>1, <3>2
  <2> HIDE DEF x, e, id
  <2>2. QED
    BY <2>1
<1> HIDE DEF id, above, x
<1>5. /\ e \in Extracted /\ e.id = id /\ e.kind = b.kind /\ e.parent = above /\ e.page = b.page
      /\ e.start = w.offset /\ e.end = w.offset + 1
  <2>1. above \in ElementIds
    BY <1>1, <1>3
  <2>2. PICK v \in ElementIds : v = id
    BY <1>2
  <2>3. PICK u \in ElementIds : u = above
    BY <2>1
  <2>4. /\ ElementOf(b, v, u, w.offset) \in Extracted
        /\ ElementOf(b, v, u, w.offset).id = v /\ ElementOf(b, v, u, w.offset).kind = b.kind
        /\ ElementOf(b, v, u, w.offset).parent = u /\ ElementOf(b, v, u, w.offset).page = b.page
        /\ ElementOf(b, v, u, w.offset).start = w.offset
        /\ ElementOf(b, v, u, w.offset).end = w.offset + 1
    BY <1>1 DEF ElementOf, Extracted, Block
  <2>5. e = ElementOf(b, v, u, w.offset)
    BY <2>2, <2>3
  <2>6. QED
    BY <2>2, <2>3, <2>4, <2>5
<1> HIDE DEF e
<1>6. x \in Outline
  <2>1. /\ x.elements \in Seq(Extracted) /\ x.chapter \in ElementIds /\ x.section \in ElementIds
        /\ x.offset \in Nat /\ x.index \in Nat
    BY <1>1, <1>2, <1>4, <1>5
  <2>2. QED
    BY <1>4, <2>1 DEF Outline
<1>7. ASSUME NEW p \in Nat, p <= b.page, Sound(w, p), w.chapter = NoElement
      PROVE  Sound(x, b.page) /\ x.chapter = NoElement
  <2>1. \A h \in {x.chapter, x.section} :
           \/ h = NoElement
           \/ h = e.id /\ e.kind \in Headings
           \/ h \in {w.chapter, w.section} /\ e.kind # "chapter"
    BY <1>4, <1>5, <1>7 DEF Headings
  <2>2. b.page \in Nat /\ x.offset >= e.end /\ e.end >= w.offset /\ e.page >= p
    BY <1>1, <1>4, <1>5, <1>7 DEF Block
  <2>3. Sound(x, e.page)
    BY <1>2, <1>3, <1>4, <1>5, <1>6, <1>7, <2>1, <2>2, SoundAppend
  <2>4. QED
    BY <2>3, <1>4, <1>5, <1>7
<1>8. QED
  BY <1>6, <1>7 DEF x

(* The mark of a page without text, later than all pages before.           *)
LEMMA BlankKeeps ==
  ASSUME NEW w \in Outline, NEW page \in Nat
  PROVE  /\ Blank(w, page) \in Outline
         /\ \A p \in Nat : p < page /\ Sound(w, p) =>
              /\ Sound(Blank(w, page), page)
              /\ PagesOf(Blank(w, page).elements) = PagesOf(w.elements) \cup {page}
<1> DEFINE b  == [kind |-> "paragraph", number |-> 0, text |-> "", page |-> page]
           id == [by |-> "place", kind |-> "empty", page |-> page, at |-> 0]
           e  == [ElementOf(b, id, Under(w), w.offset) EXCEPT !.end = w.offset]
           x  == Blank(w, page)
<1>1. /\ w.elements \in Seq(Extracted) /\ w.offset \in Nat /\ w.index \in Nat
      /\ w.chapter \in ElementIds /\ w.section \in ElementIds
  BY DEF Outline
<1>2. id \in ElementIds /\ id.by = "place" /\ id.kind = "empty" /\ id.page = page
  BY DEF ElementIds
<1>3. Under(w) \in {w.chapter, w.section}
  BY DEF Under
<1>4. /\ x.elements = Append(w.elements, e) /\ x.chapter = w.chapter /\ x.section = w.section
      /\ x.offset = w.offset /\ x.index = w.index + 1
      /\ x = [elements |-> x.elements, chapter |-> x.chapter, section |-> x.section,
              offset |-> x.offset, index |-> x.index]
  <2> DEFINE y == [elements |-> Append(w.elements, e), chapter |-> w.chapter,
                   section |-> w.section, offset |-> w.offset, index |-> w.index + 1]
  <2>1. x = y
    <3>1. w = [elements |-> w.elements, chapter |-> w.chapter, section |-> w.section,
               offset |-> w.offset, index |-> w.index]
      BY DEF Outline
    <3>2. x = [w EXCEPT !.elements = Append(@, e), !.index = @ + 1]
      BY DEF Blank
    <3> HIDE DEF x, e
    <3>3. QED
      BY <3>1, <3>2
  <2> HIDE DEF x, e
  <2>2. QED
    BY <2>1
<1>5. "paragraph" \in BlockKinds /\ "" \in Texts
  BY ExtractionAssumption
<1>6. /\ e \in Extracted /\ e.id = id /\ e.kind = "paragraph" /\ e.parent = Under(w)
      /\ e.page = page /\ e.start = w.offset /\ e.end = w.offset
  <2>1. Under(w) \in ElementIds
    BY <1>1, <1>3
  <2>2. PICK f : f = ElementOf(b, id, Under(w), w.offset)
    OBVIOUS
  <2>3. /\ f \in Extracted /\ f.id = id /\ f.kind = "paragraph" /\ f.parent = Under(w)
        /\ f.page = page /\ f.start = w.offset
    <3>1. PICK u : u = Under(w)
      OBVIOUS
    <3>2. f = [id |-> id, kind |-> "paragraph", number |-> 0, text |-> "", parent |-> u,
               page |-> page, start |-> w.offset, end |-> w.offset + 1]
      BY <2>2, <3>1 DEF ElementOf
    <3>3. PICK t \in Texts : t = ""
      BY <1>5
    <3>4. f = [id |-> id, kind |-> "paragraph", number |-> 0, text |-> t, parent |-> u,
               page |-> page, start |-> w.offset, end |-> w.offset + 1]
      BY <3>2, <3>3
    <3> HIDE DEF id
    <3>5. w.offset + 1 \in Nat /\ 0 \in Nat /\ u \in ElementIds /\ id \in ElementIds
      BY <2>1, <3>1, <1>1, <1>2
    <3>6. QED
      BY <3>1, <3>4, <3>5, <1>1, <1>5 DEF Extracted
  <2>4. e = [f EXCEPT !.end = w.offset]
    BY <2>2
  <2> HIDE DEF e, id
  <2>5. QED
    BY <2>3, <2>4, <1>1 DEF Extracted
<1> HIDE DEF e, id, x
<1>7. x \in Outline
  BY <1>1, <1>4, <1>6 DEF Outline
<1>8. ASSUME NEW p \in Nat, p < page, Sound(w, p)
      PROVE  Sound(x, page) /\ PagesOf(x.elements) = PagesOf(w.elements) \cup {page}
  <2>1. \A h \in {x.chapter, x.section} : h \in {w.chapter, w.section} /\ e.kind # "chapter"
    BY <1>4, <1>6
  <2>2. /\ x.offset >= e.end /\ e.end >= w.offset /\ e.page >= p /\ e.page > p
        /\ e.parent \in {NoElement, w.chapter, w.section}
    BY <1>1, <1>3, <1>4, <1>6, <1>8
  <2>3. /\ e.id.by # "none"
        /\ e.id.by = "place" /\ e.id.kind # "empty" => e.id.at = w.index
        /\ e.id.by = "place" /\ e.id.kind = "empty" => e.id.page = e.page /\ e.page > p
        /\ \A h \in {x.chapter, x.section} :
             \/ h = NoElement
             \/ h = e.id /\ e.kind \in Headings
             \/ h \in {w.chapter, w.section} /\ e.kind # "chapter"
    BY <1>2, <1>6, <2>1, <2>2
  <2>4. Sound(x, e.page) /\ PagesOf(x.elements) = PagesOf(w.elements) \cup {e.page}
    BY <1>4, <1>6, <1>7, <1>8, <2>2, <2>3, SoundAppend
  <2>5. QED
    BY <2>4, <1>6
<1>9. QED
  BY <1>7, <1>8 DEF x

(* The three ways of reading a block.                                      *)
Ways == {"pdf", "scan", "flat"}

LEMMA BlockKeeps ==
  ASSUME NEW how \in Ways, NEW w \in Outline, NEW b \in Block
  PROVE  /\ ReadBlock(how, w, b) \in Outline
         /\ \A p \in Nat : p <= b.page /\ Sound(w, p) /\ (how = "flat" => w.chapter = NoElement) =>
              /\ Sound(ReadBlock(how, w, b), b.page)
              /\ how = "flat" => ReadBlock(how, w, b).chapter = NoElement
              /\ how = "scan" =>
                   PagesOf(ReadBlock(how, w, b).elements) = PagesOf(w.elements) \cup {b.page}
<1>1. b.page \in Nat
  BY DEF Block
<1>2. CASE how = "pdf" /\ b.kind = "blank"
  <2>1. ReadBlock(how, w, b) = [w EXCEPT !.offset = @ + 1]
    BY <1>2 DEF ReadBlock
  <2>2. [w EXCEPT !.offset = @ + 1] \in Outline
    BY DEF Outline
  <2>3. QED
    BY <1>1, <1>2, <2>1, <2>2, SoundMonotone
<1>3. CASE how = "pdf" /\ b.kind # "blank"
  <2>1. ReadBlock(how, w, b) = Nested(w, b, 0, 0)
    BY <1>3 DEF ReadBlock
  <2>2. QED
    BY <1>3, <2>1, NestedKeeps
<1>4. CASE how = "scan"
  <2>1. ReadBlock(how, w, b) = Nested(w, b, b.page, 2)
    BY <1>4 DEF ReadBlock
  <2>2. PICK page \in Nat : page = b.page
    BY <1>1
  <2>3. ReadBlock(how, w, b) = Nested(w, b, page, 2)
    BY <2>1, <2>2
  <2>4. PICK x : x = Nested(w, b, page, 2)
    OBVIOUS
  <2>5. /\ x \in Outline
        /\ \A p \in Nat : p <= b.page /\ Sound(w, p) =>
             Sound(x, b.page) /\ PagesOf(x.elements) = PagesOf(w.elements) \cup {b.page}
    BY <2>4, NestedKeeps
  <2>6. QED
    BY <1>4, <2>3, <2>4, <2>5
<1>5. CASE how = "flat" /\ b.kind = "blank"
  <2>1. ReadBlock(how, w, b) = w
    BY <1>5 DEF ReadBlock
  <2>2. QED
    BY <1>1, <1>5, <2>1, SoundMonotone
<1>6. CASE how = "flat" /\ b.kind # "blank"
  <2>1. ReadBlock(how, w, b) = Flat(w, b)
    BY <1>6 DEF ReadBlock
  <2>2. QED
    BY <1>6, <2>1, FlatKeeps
<1>7. QED
  BY <1>2, <1>3, <1>4, <1>5, <1>6 DEF Ways

(* A walk satisfies the equations it is defined by.                        *)
LEMMA BlocksDef ==
  ASSUME NEW how \in Ways, NEW w \in Outline, NEW bs \in Seq(Block)
  PROVE  /\ ReadBlocks(how, w, bs) \in [0..Len(bs) -> Outline] /\ ReadBlocks(how, w, bs)[0] = w
         /\ \A n \in 1..Len(bs) :
              ReadBlocks(how, w, bs)[n] = ReadBlock(how, ReadBlocks(how, w, bs)[n - 1], bs[n])
<1> DEFINE walked == CHOOSE walked : walked =
             [n \in 0..Len(bs) |-> IF n = 0 THEN w ELSE ReadBlock(how, walked[n - 1], bs[n])]
           N == Len(bs)
           step == [p \in (1..N) \X Outline |-> ReadBlock(how, p[2], bs[p[1]])]
<1>1. N \in Nat /\ DOMAIN bs = 1..N /\ \A n \in 1..N : bs[n] \in Block
  BY ElementOfSeq, LenProperties
<1>2. \A n \in 1..N, x \in Outline : step[<<n, x>>] = ReadBlock(how, x, bs[n])
  OBVIOUS
<1>3. \A n \in 1..N, x \in Outline : ReadBlock(how, x, bs[n]) \in Outline
  BY <1>1, BlockKeeps
<1> HIDE DEF step
<1>4. StaysIn(step, N, Outline)
  BY <1>2, <1>3 DEF StaysIn
<1>5. PICK f : Recursion(f, N, Outline, w, step)
  <2> HIDE DEF N
  <2>1. QED
    BY <1>1, <1>4, RecursionDefines
<1>6. f \in [0..N -> Outline] /\ f[0] = w /\ \A n \in 1..N : f[n] = step[<<n, f[n - 1]>>]
  BY <1>5 DEF Recursion
<1>7. \A n \in 1..N : f[n] = ReadBlock(how, f[n - 1], bs[n])
  <2> TAKE n \in 1..N
  <2>1. n - 1 \in 0..N
    BY <1>1
  <2>2. f[n - 1] \in Outline
    BY <1>6, <2>1
  <2>3. QED
    BY <1>2, <1>6, <2>2
<1>8. f = [n \in 0..N |-> IF n = 0 THEN w ELSE ReadBlock(how, f[n - 1], bs[n])]
  <2> HIDE DEF N
  <2>1. \A n \in 0..N : n # 0 => n \in 1..N
    BY <1>1
  <2>2. \A n \in 0..N : f[n] = IF n = 0 THEN w ELSE ReadBlock(how, f[n - 1], bs[n])
    BY <2>1, <1>6, <1>7
  <2>3. QED
    BY <2>2, <1>6
<1>9. walked = [n \in 0..N |-> IF n = 0 THEN w ELSE ReadBlock(how, walked[n - 1], bs[n])]
  BY <1>8, Zenon
<1>10. ReadBlocks(how, w, bs) = walked
  BY Zenon DEF ReadBlocks
<1> HIDE DEF walked
<1>11. DOMAIN walked = 0..N /\ walked[0] = w
  BY <1>1, <1>9
<1>12. \A n \in 1..N : walked[n] = ReadBlock(how, walked[n - 1], bs[n])
  BY <1>1, <1>9
<1>13. \A n \in 0..N : walked[n] \in Outline
  <2> DEFINE good == {n \in Nat : walked[n] \in Outline}
  <2>1. 0 \in good
    BY <1>11
  <2>2. ASSUME NEW n \in 0..N, n < N, n \in good PROVE n + 1 \in good
    <3>1. n + 1 \in 1..N /\ (n + 1) - 1 = n /\ n + 1 \in Nat
      BY <1>1, <2>2
    <3>2. walked[n + 1] \in Outline
      BY <1>3, <1>12, <2>2, <3>1
    <3>3. QED
      BY <3>1, <3>2
  <2> HIDE DEF good, N
  <2>3. 0..N \subseteq good
    BY <1>1, <2>1, <2>2, Induction
  <2>4. QED
    BY <2>3 DEF good
<1>14. walked \in [0..N -> Outline]
  BY <1>9, <1>11, <1>13
<1>15. QED
  BY <1>10, <1>11, <1>12, <1>14

(* Blocks page by page, from the page the walk has come to.                *)
InPageOrder(bs, p) ==
  /\ \A n \in DOMAIN bs : p <= bs[n].page
  /\ \A m, n \in DOMAIN bs : m < n => bs[m].page <= bs[n].page

(* A walk over any blocks is one, and over blocks in order it is sound.    *)
LEMMA ReadAllKeeps ==
  ASSUME NEW how \in Ways, NEW w \in Outline, NEW bs \in Seq(Block), NEW p \in Nat
  PROVE  /\ ReadAll(how, w, bs) \in Outline
         /\ Sound(w, p) /\ InPageOrder(bs, p) /\ (how = "flat" => w.chapter = NoElement) =>
              /\ \E q \in Nat : Sound(ReadAll(how, w, bs), q) /\ q \in {p} \cup PagesOf(bs)
              /\ how = "scan" =>
                   PagesOf(ReadAll(how, w, bs).elements) = PagesOf(w.elements) \cup PagesOf(bs)
<1> DEFINE f == ReadBlocks(how, w, bs)
           N == Len(bs)
           At(n) == IF n = 0 THEN p ELSE bs[n].page
           Read(n) == {bs[m].page : m \in 1..n}
           good == {n \in Nat :
                      /\ Sound(f[n], At(n)) /\ (how = "flat" => f[n].chapter = NoElement)
                      /\ how = "scan" => PagesOf(f[n].elements) = PagesOf(w.elements) \cup Read(n)}
<1>1. N \in Nat /\ DOMAIN bs = 1..N /\ \A n \in 1..N : bs[n] \in Block /\ bs[n].page \in Nat
  <2>1. N \in Nat /\ DOMAIN bs = 1..N /\ \A n \in 1..N : bs[n] \in Block
    BY ElementOfSeq, LenProperties
  <2>2. QED
    BY <2>1 DEF Block
<1>2. f \in [0..N -> Outline] /\ f[0] = w /\ \A n \in 1..N : f[n] = ReadBlock(how, f[n - 1], bs[n])
  BY BlocksDef
<1>3. ReadAll(how, w, bs) = f[N]
  BY DEF ReadAll
<1> HIDE DEF f
<1>4. f[N] \in Outline
  BY <1>1, <1>2
<1>5. ASSUME Sound(w, p), InPageOrder(bs, p), how = "flat" => w.chapter = NoElement
      PROVE  0..N \subseteq good
  <2>1. 0 \in good
    <3>1. Read(0) = {}
      OBVIOUS
    <3>2. QED
      BY <1>2, <1>5, <3>1
  <2>2. ASSUME NEW n \in 0..N, n < N, n \in good PROVE n + 1 \in good
    <3>1. n + 1 \in 1..N /\ (n + 1) - 1 = n /\ n + 1 \in Nat /\ n \in Nat /\ n + 1 # 0
      BY <1>1, <2>2
    <3>2. At(n) \in Nat /\ At(n) <= bs[n + 1].page /\ At(n + 1) = bs[n + 1].page
      <4>1. CASE n = 0
        BY <1>1, <1>5, <3>1, <4>1 DEF InPageOrder
      <4>2. CASE n # 0
        <5>1. n \in 1..N /\ n < n + 1
          BY <3>1, <4>2, <2>2
        <5>2. QED
          BY <1>1, <1>5, <3>1, <4>2, <5>1 DEF InPageOrder
      <4>3. QED
        BY <4>1, <4>2
    <3>3. PICK a \in Nat : a = At(n)
      BY <3>2
    <3>4. PICK b \in Block : b = bs[n + 1]
      BY <1>1, <3>1
    <3>5. PICK y \in Outline : y = f[n]
      BY <1>2
    <3>6. f[n + 1] = ReadBlock(how, y, b) /\ a <= b.page /\ Sound(y, a)
          /\ (how = "flat" => y.chapter = NoElement)
          /\ (how = "scan" => PagesOf(y.elements) = PagesOf(w.elements) \cup Read(n))
      BY <1>2, <2>2, <3>1, <3>2, <3>3, <3>4, <3>5
    <3>7. /\ Sound(ReadBlock(how, y, b), b.page)
          /\ how = "flat" => ReadBlock(how, y, b).chapter = NoElement
          /\ how = "scan" => PagesOf(ReadBlock(how, y, b).elements) = PagesOf(y.elements) \cup {b.page}
      BY <3>6, BlockKeeps
    <3>8. Read(n + 1) = Read(n) \cup {bs[n + 1].page}
      <4>1. \A m \in 1..(n + 1) : m \in 1..n \/ m = n + 1
        BY <3>1
      <4>2. (\A m \in 1..n : m \in 1..(n + 1)) /\ n + 1 \in 1..(n + 1)
        BY <3>1
      <4>3. QED
        BY <4>1, <4>2
    <3> HIDE DEF At, Read
    <3>9. QED
      BY <3>1, <3>2, <3>4, <3>6, <3>7, <3>8
  <2> HIDE DEF good, N
  <2>3. QED
    BY <1>1, <2>1, <2>2, Induction
<1>6. Read(N) = PagesOf(bs)
  BY <1>1 DEF PagesOf, ToSet
<1>7. At(N) \in Nat /\ At(N) \in {p} \cup PagesOf(bs)
  <2>1. CASE N = 0
    BY <2>1
  <2>2. CASE N # 0
    <3>1. N \in 1..N
      BY <1>1, <2>2
    <3>2. QED
      BY <1>1, <2>2, <3>1 DEF PagesOf, ToSet
  <2>3. QED
    BY <2>1, <2>2
<1> HIDE DEF At, Read, N
<1>8. ASSUME 0..N \subseteq good PROVE N \in good
  BY <1>1, <1>8
<1>9. ASSUME Sound(w, p), InPageOrder(bs, p), how = "flat" => w.chapter = NoElement
      PROVE  /\ \E q \in Nat : Sound(f[N], q) /\ q \in {p} \cup PagesOf(bs)
             /\ how = "scan" => PagesOf(f[N].elements) = PagesOf(w.elements) \cup PagesOf(bs)
  <2>1. N \in good
    BY <1>5, <1>8, <1>9
  <2>2. Sound(f[N], At(N)) /\ (how = "scan" => PagesOf(f[N].elements) = PagesOf(w.elements) \cup Read(N))
    BY <2>1
  <2>3. QED
    BY <2>2, <1>6, <1>7
<1>10. QED
  BY <1>3, <1>4, <1>9

-----------------------------------------------------------------------------
(* A document's blocks are page by page, and so are they all on page one.  *)
LEMMA PaperInOrder ==
  ASSUME paper \in Papers
  PROVE  /\ paper.blocks \in Seq(Block) /\ paper.pageCount \in Nat
         /\ InPageOrder(paper.blocks, 0)
         /\ OnePage(paper.blocks) \in Seq(Block) /\ InPageOrder(OnePage(paper.blocks), 0)
<1> DEFINE bs == paper.blocks
           os == OnePage(bs)
<1>1. /\ bs \in Seq(Block) /\ paper.pageCount \in Nat
      /\ \A n \in DOMAIN bs : bs[n].page \in 1..paper.pageCount
      /\ \A m, n \in DOMAIN bs : m < n => bs[m].page <= bs[n].page
  BY ExtractionAssumption
<1>2. Len(bs) \in Nat /\ DOMAIN bs = 1..Len(bs) /\ \A n \in DOMAIN bs : bs[n] \in Block
  BY <1>1, ElementOfSeq, LenProperties
<1>3. InPageOrder(bs, 0)
  BY <1>1 DEF InPageOrder
<1>4. os = [n \in 1..Len(bs) |-> [bs[n] EXCEPT !.page = 1]]
  BY <1>2 DEF OnePage
<1> HIDE DEF os, bs
<1>5. \A b \in Block : [b EXCEPT !.page = 1] \in Block /\ [b EXCEPT !.page = 1].page = 1
  BY DEF Block
<1>6. os \in [1..Len(bs) -> Block] /\ \A n \in DOMAIN os : os[n].page = 1
  BY <1>2, <1>4, <1>5
<1>7. os \in Seq(Block)
  BY <1>2, <1>6, SeqDef
<1>8. InPageOrder(os, 0)
  BY <1>6 DEF InPageOrder
<1>9. QED
  BY <1>1, <1>3, <1>7, <1>8 DEF os, bs

(* What is read of a page is on it.                                        *)
LEMMA TextOnPage ==
  ASSUME paper \in Papers, NEW page \in Nat
  PROVE  /\ TextOn(page) \in Seq(Block) /\ \A n \in DOMAIN TextOn(page) : TextOn(page)[n].page = page
<1>1. paper.blocks \in Seq(Block)
  BY PaperInOrder
<1>2. PICK S : S = {b \in ToSet(paper.blocks) : b.page = page /\ b.kind # "blank"}
  OBVIOUS
<1>3. PICK k : k = Kept(paper.blocks, S)
  OBVIOUS
<1>4. k \in Seq(Block) /\ \A n \in DOMAIN k : k[n] \in S
  BY <1>1, <1>3, KeptProperties
<1>5. TextOn(page) = k
  BY <1>2, <1>3 DEF TextOn
<1>6. QED
  BY <1>2, <1>4, <1>5

(* One page of a scan, after the pages before it.                          *)
LEMMA ReadPageKeeps ==
  ASSUME NEW w \in Outline, NEW page \in Nat \ {0}, NEW bs \in Seq(Block),
         \A n \in DOMAIN bs : bs[n].page = page
  PROVE  /\ ReadPage(w, bs, page) \in Outline
         /\ Sound(w, page - 1) =>
              /\ Sound(ReadPage(w, bs, page), page)
              /\ PagesOf(ReadPage(w, bs, page).elements) = PagesOf(w.elements) \cup {page}
<1>1. page \in Nat /\ page - 1 \in Nat /\ page - 1 < page
  OBVIOUS
<1>2. CASE bs = <<>>
  <2>1. ReadPage(w, bs, page) = Blank(w, page)
    BY <1>2 DEF ReadPage
  <2>2. QED
    BY <1>1, <2>1, BlankKeeps
<1>3. CASE bs # <<>>
  <2>1. ReadPage(w, bs, page) = ReadAll("scan", w, bs)
    BY <1>3 DEF ReadPage
  <2>2. PICK x : x = ReadAll("scan", w, bs)
    OBVIOUS
  <2>3. "scan" \in Ways
    BY DEF Ways
  <2>4. /\ x \in Outline
        /\ Sound(w, page - 1) /\ InPageOrder(bs, page - 1) =>
             /\ \E q \in Nat : Sound(x, q) /\ q \in {page - 1} \cup PagesOf(bs)
             /\ PagesOf(x.elements) = PagesOf(w.elements) \cup PagesOf(bs)
    BY <1>1, <2>2, <2>3, ReadAllKeeps
  <2>5. InPageOrder(bs, page - 1)
    BY <1>1 DEF InPageOrder
  <2>6. PagesOf(bs) = {page}
    <3>1. 1 \in DOMAIN bs
      BY <1>3, EmptySeq
    <3>2. QED
      BY <3>1 DEF PagesOf, ToSet
  <2>7. ASSUME Sound(w, page - 1) PROVE Sound(x, page)
    <3>1. PICK q \in Nat : Sound(x, q) /\ q \in {page - 1} \cup {page}
      BY <2>4, <2>5, <2>6, <2>7
    <3>2. q <= page
      BY <3>1, <1>1
    <3>3. QED
      BY <3>1, <3>2, <2>4, <1>1, SoundMonotone
  <2>8. QED
    BY <2>1, <2>2, <2>4, <2>5, <2>6, <2>7
<1>4. QED
  BY <1>2, <1>3

(* The merge changes kinds, numbers and parents only.                      *)
LEMMA MergeKeeps ==
  ASSUME NEW pdf \in Seq(Extracted), NEW layout \in Seq(Extracted)
  PROVE  /\ Merge(pdf, layout) \in Seq(Extracted)
         /\ Follows(pdf) => Follows(Merge(pdf, layout))
<1>1. ASSUME NEW e \in Extracted, NEW d \in Extracted
      PROVE  /\ Enriched(e, d) \in Extracted
             /\ Enriched(e, d).id = e.id /\ Enriched(e, d).page = e.page
             /\ Enriched(e, d).start = e.start /\ Enriched(e, d).end = e.end
  BY DEF Enriched, Extracted
<1>2. ASSUME NEW e \in Extracted
      PROVE  /\ Merged(e, layout) \in Extracted
             /\ Merged(e, layout).id = e.id /\ Merged(e, layout).page = e.page
             /\ Merged(e, layout).start = e.start /\ Merged(e, layout).end = e.end
  <2> DEFINE best == Best(e, layout)
  <2>1. CASE best = {}
    BY <2>1 DEF Merged
  <2>2. CASE best # {}
    <3>1. best \subseteq DOMAIN layout /\ DOMAIN layout \subseteq Nat
      BY DEF Best
    <3>2. best \in SUBSET Nat
      BY <3>1
    <3> HIDE DEF best
    <3>3. Min(best) \in best
      BY <2>2, <3>2, MinIn, Zenon
    <3>4. PICK k \in DOMAIN layout : k = Min(best)
      BY <3>1, <3>3
    <3>5. Merged(e, layout) = Enriched(e, layout[k])
      BY <2>2, <3>4 DEF Merged, best
    <3>6. layout[k] \in Extracted
      OBVIOUS
    <3>7. QED
      BY <1>1, <3>5, <3>6
  <2>3. QED
    BY <2>1, <2>2
<1> DEFINE m == Merge(pdf, layout)
<1>3. Len(pdf) \in Nat /\ DOMAIN pdf = 1..Len(pdf) /\ \A n \in DOMAIN pdf : pdf[n] \in Extracted
  BY ElementOfSeq, LenProperties
<1>4. m = [n \in 1..Len(pdf) |-> Merged(pdf[n], layout)]
  BY <1>3 DEF Merge
<1> HIDE DEF m
<1>5. DOMAIN m = 1..Len(pdf)
  BY <1>4
<1>6. \A n \in 1..Len(pdf) :
        /\ m[n] \in Extracted /\ m[n].id = pdf[n].id /\ m[n].page = pdf[n].page
        /\ m[n].start = pdf[n].start /\ m[n].end = pdf[n].end
  BY <1>2, <1>3, <1>4
<1>7. m \in [1..Len(pdf) -> Extracted]
  <2>1. m = [n \in 1..Len(pdf) |-> m[n]]
    BY <1>4
  <2>2. QED
    BY <2>1, <1>6
<1>8. m \in Seq(Extracted)
  BY <1>3, <1>7, SeqDef
<1>9. ASSUME Follows(pdf) PROVE Follows(m)
  BY <1>3, <1>5, <1>6, <1>9 DEF Follows
<1>10. QED
  BY <1>8, <1>9 DEF m

-----------------------------------------------------------------------------
(* The inductive invariant: the walk is sound up to some page, and in a    *)
(* scan up to the page before the one to transcribe, with an element from  *)
(* every page so far; before the document is read there is no walk; what   *)
(* is extracted is in order, and of a scan it is the walk.                 *)
ExtractionInv ==
  /\ ExtractionTypeOK /\ Follows(extracted) /\ \E p \in Nat : Sound(outline, p)
  /\ reading \in {"pick", "read"} => tries < Attempts
  /\ reading = "pick" => adapter = "none"
  /\ adapter # "vlm" => pageNo = 1 /\ (reading \in {"pick", "read"} => outline = OutlineStart)
  /\ adapter = "vlm" => Sound(outline, pageNo - 1) /\ PagesOf(outline.elements) = 1..(pageNo - 1)
  /\ reading = "done" /\ adapter = "vlm" =>
       extracted = outline.elements /\ pageNo = paper.pageCount + 1

LEMMA ExtractionInitInv ==
  ASSUME ExtractionInit
  PROVE  ExtractionInv
<1>1. paper \in Papers /\ paper.pageCount \in Nat /\ Attempts \in Nat \ {0}
  BY ExtractionAssumption DEF ExtractionInit
<1>2. extracted \in Seq(Extracted) /\ DOMAIN extracted = {}
  BY DEF ExtractionInit
<1>3. Follows(extracted)
  BY <1>2 DEF Follows
<1>4. ExtractionTypeOK
  BY <1>1, <1>2, SoundStart DEF ExtractionInit, ExtractionTypeOK
<1>5. \E p \in Nat : Sound(outline, p)
  BY SoundStart DEF ExtractionInit
<1>6. QED
  BY <1>1, <1>3, <1>4, <1>5 DEF ExtractionInit, ExtractionInv

(* A document that is read in one step.                                    *)
LEMMA ReadAtOnce ==
  ASSUME ExtractionInv, reading = "read", reading' = "done", adapter # "vlm",
         UNCHANGED <<paper, useVlm, adapter, pageNo, tries>>,
         outline' \in Outline, \E p \in Nat : Sound(outline, p)',
         extracted' \in Seq(Extracted), Follows(extracted')
  PROVE  ExtractionInv'
<1>1. ExtractionTypeOK'
  BY DEF ExtractionInv, ExtractionTypeOK
<1>2. QED
  BY <1>1 DEF ExtractionInv, Follows, Sound, HeadingAt

LEMMA ExtractionStep ==
  ASSUME ExtractionInv, [ExtractionNext]_extractionVars
  PROVE  ExtractionInv'
<1>1. /\ ExtractionTypeOK /\ paper \in Papers /\ paper.pageCount \in Nat /\ Attempts \in Nat \ {0}
      /\ outline \in Outline /\ pageNo \in Nat \ {0} /\ tries \in Nat
  <2>1. ExtractionTypeOK /\ paper \in Papers
    BY DEF ExtractionInv, ExtractionTypeOK
  <2>2. paper.pageCount \in Nat /\ Attempts \in Nat \ {0}
    BY <2>1, ExtractionAssumption
  <2>3. QED
    BY <2>1, <2>2 DEF ExtractionTypeOK
<1>2. CASE Pick
  <2>1. /\ reading = "pick" /\ adapter = "none" /\ pageNo = 1 /\ outline = OutlineStart
        /\ adapter' = PickAdapter /\ reading' \in {"done", "read"}
        /\ reading' = "done" => adapter' = "text"
        /\ UNCHANGED <<paper, useVlm, pageNo, tries, outline, extracted>>
    BY <1>2 DEF Pick, ExtractionInv
  <2>2. adapter' \in {"vlm", "stub", "pdf", "html", "text"}
    BY <2>1 DEF PickAdapter
  <2>3. tries < Attempts
    BY <1>2 DEF Pick, ExtractionInv
  <2>4. ExtractionTypeOK'
    BY <1>1, <2>1, <2>2 DEF ExtractionTypeOK
  <2>5. Sound(outline, pageNo - 1) /\ PagesOf(outline.elements) = 1..(pageNo - 1)
    BY <2>1, SoundStart
  <2>6. QED
    BY <2>1, <2>2, <2>3, <2>4, <2>5 DEF ExtractionInv
<1>3. ASSUME NEW layout \in Layouts, ReadPdf(layout) PROVE ExtractionInv'
  <2>1. /\ reading = "read" /\ reading' = "done" /\ adapter = "pdf"
        /\ UNCHANGED <<paper, useVlm, adapter, pageNo, tries>>
        /\ outline' = ReadAll("pdf", OutlineStart, paper.blocks)
        /\ extracted' = IF layout \in {Unavailable, <<>>} THEN outline'.elements
                        ELSE Merge(outline'.elements, ReadAll("flat", OutlineStart, layout).elements)
    BY <1>3 DEF ReadPdf
  <2>2. outline' \in Outline /\ \E p \in Nat : Sound(outline', p)
    <3>1. "pdf" \in Ways
      BY DEF Ways
    <3>2. QED
      BY <1>1, <2>1, <3>1, PaperInOrder, SoundStart, ReadAllKeeps
  <2>3. PICK es \in Seq(Extracted) : es = outline'.elements /\ Follows(es)
    BY <2>2 DEF Outline, Sound
  <2>4. extracted' \in Seq(Extracted) /\ Follows(extracted')
    <3>1. CASE layout \in {Unavailable, <<>>}
      BY <2>1, <2>3, <3>1
    <3>2. CASE layout \notin {Unavailable, <<>>}
      <4>1. layout \in Seq(Block) /\ "flat" \in Ways
        BY <3>2, ExtractionAssumption DEF Ways
      <4>2. ReadAll("flat", OutlineStart, layout) \in Outline
        BY <4>1, SoundStart, ReadAllKeeps
      <4>3. PICK ls \in Seq(Extracted) : ls = ReadAll("flat", OutlineStart, layout).elements
        BY <4>2 DEF Outline
      <4>4. QED
        BY <2>1, <2>3, <3>2, <4>3, MergeKeeps
    <3>3. QED
      BY <3>1, <3>2
  <2>5. \E p \in Nat : Sound(outline, p)'
    BY <2>2 DEF Sound, HeadingAt, Follows
  <2>6. QED
    BY <2>1, <2>2, <2>4, <2>5, ReadAtOnce
<1>4. CASE ReadHtml
  <2>1. /\ reading = "read" /\ reading' = "done" /\ adapter = "html"
        /\ UNCHANGED <<paper, useVlm, adapter, pageNo, tries>>
        /\ outline' = ReadAll("flat", OutlineStart, OnePage(paper.blocks))
        /\ extracted' = outline'.elements
    BY <1>4 DEF ReadHtml
  <2>2. outline' \in Outline /\ \E p \in Nat : Sound(outline', p)
    <3>1. "flat" \in Ways
      BY DEF Ways
    <3>2. QED
      BY <1>1, <2>1, <3>1, PaperInOrder, SoundStart, ReadAllKeeps
  <2>3. extracted' \in Seq(Extracted) /\ Follows(extracted')
    BY <2>1, <2>2 DEF Outline, Sound
  <2>4. \E p \in Nat : Sound(outline, p)'
    BY <2>2 DEF Sound, HeadingAt, Follows
  <2>5. QED
    BY <2>1, <2>2, <2>3, <2>4, ReadAtOnce
<1>5. CASE ReadStub
  <2>1. /\ reading = "read" /\ reading' = "done" /\ adapter = "stub"
        /\ UNCHANGED <<paper, useVlm, adapter, pageNo, tries, outline>>
        /\ extracted' = Blank(OutlineStart, 1).elements
    BY <1>5 DEF ReadStub
  <2>2. Blank(OutlineStart, 1) \in Outline /\ Sound(Blank(OutlineStart, 1), 1)
    BY SoundStart, BlankKeeps
  <2>3. extracted' \in Seq(Extracted) /\ Follows(extracted')
    BY <2>1, <2>2 DEF Outline, Sound
  <2>4. \E p \in Nat : Sound(outline, p)'
    BY <2>1 DEF ExtractionInv, Sound, HeadingAt, Follows
  <2>5. QED
    BY <1>1, <2>1, <2>3, <2>4, ReadAtOnce
<1>6. ASSUME NEW legible \in BOOLEAN, Transcribe(legible) PROVE ExtractionInv'
  <2> DEFINE bs == IF legible THEN TextOn(pageNo) ELSE <<>>
  <2>1. /\ reading = "read" /\ adapter = "vlm" /\ pageNo <= paper.pageCount
        /\ outline' = ReadPage(outline, bs, pageNo) /\ pageNo' = pageNo + 1 /\ tries' = 0
        /\ UNCHANGED <<paper, useVlm, adapter, extracted, reading>>
    BY <1>6 DEF Transcribe
  <2>2. bs \in Seq(Block) /\ \A n \in DOMAIN bs : bs[n].page = pageNo
    <3>1. CASE legible
      BY <1>1, <3>1, TextOnPage
    <3>2. CASE ~legible
      <4>1. bs = <<>>
        BY <3>2
      <4> HIDE DEF bs
      <4>2. DOMAIN bs = {} /\ bs \in Seq(Block)
        BY <4>1
      <4>3. QED
        BY <4>2
    <3>3. QED
      BY <3>1, <3>2
  <2> HIDE DEF bs
  <2>3. Sound(outline, pageNo - 1) /\ PagesOf(outline.elements) = 1..(pageNo - 1)
    BY <2>1 DEF ExtractionInv
  <2>4. /\ outline' \in Outline /\ Sound(outline', pageNo)
        /\ PagesOf(outline'.elements) = PagesOf(outline.elements) \cup {pageNo}
    BY <1>1, <2>1, <2>2, <2>3, ReadPageKeeps
  <2>5. pageNo' - 1 = pageNo /\ pageNo' \in 1..(paper.pageCount + 1)
        /\ 1..pageNo = (1..(pageNo - 1)) \cup {pageNo}
    BY <1>1, <2>1
  <2>6. PagesOf(outline'.elements) = 1..(pageNo' - 1)
    BY <2>3, <2>4, <2>5
  <2>7. (Sound(outline, pageNo - 1) /\ PagesOf(outline.elements) = 1..(pageNo - 1))'
    BY <2>4, <2>5, <2>6 DEF Sound, HeadingAt, Follows, PagesOf
  <2>8. (\E p \in Nat : Sound(outline, p))'
    <3>1. \E p \in Nat : Sound(outline', p)
      BY <2>4, <1>1
    <3>2. QED
      BY <3>1 DEF Sound, HeadingAt, Follows
  <2>9. ExtractionTypeOK'
    BY <1>1, <2>1, <2>4, <2>5 DEF ExtractionTypeOK
  <2>10. Follows(extracted)'
    BY <2>1 DEF ExtractionInv, Follows
  <2>11. QED
    BY <1>1, <2>1, <2>7, <2>8, <2>9, <2>10 DEF ExtractionInv
<1>7. CASE TranscribeFails
  <2>1. /\ reading = "read" /\ adapter = "vlm" /\ tries' = tries + 1
        /\ reading' = (IF tries' = Attempts THEN "failed" ELSE reading)
        /\ UNCHANGED <<paper, useVlm, adapter, pageNo, outline, extracted>>
    BY <1>7 DEF TranscribeFails
  <2>2. tries < Attempts /\ tries' \in 0..Attempts /\ (reading' = "read" => tries' < Attempts)
    BY <1>1, <2>1 DEF ExtractionInv
  <2>3. ExtractionTypeOK'
    BY <1>1, <2>1, <2>2 DEF ExtractionTypeOK
  <2>4. reading' \in {"read", "failed"}
    BY <2>1
  <2>5. QED
    BY <2>1, <2>2, <2>3, <2>4 DEF ExtractionInv, Follows, Sound, HeadingAt, PagesOf
<1>8. CASE EndScan
  <2>1. /\ reading = "read" /\ adapter = "vlm" /\ pageNo > paper.pageCount
        /\ extracted' = outline.elements /\ reading' = "done"
        /\ UNCHANGED <<paper, useVlm, adapter, pageNo, tries, outline>>
    BY <1>8 DEF EndScan
  <2>2. pageNo = paper.pageCount + 1
    BY <1>1, <2>1 DEF ExtractionTypeOK
  <2>3. extracted' \in Seq(Extracted) /\ Follows(extracted')
    BY <1>1, <2>1 DEF ExtractionInv, Sound, Outline
  <2>4. ExtractionTypeOK'
    BY <1>1, <2>1, <2>3 DEF ExtractionTypeOK
  <2>5. QED
    BY <2>1, <2>2, <2>3, <2>4 DEF ExtractionInv, Follows, Sound, HeadingAt, PagesOf
<1>9. CASE Unreadable
  <2>1. /\ reading = "read" /\ reading' = "failed"
        /\ UNCHANGED <<paper, useVlm, adapter, pageNo, tries, outline, extracted>>
    BY <1>9 DEF Unreadable
  <2>2. ExtractionTypeOK'
    BY <1>1, <2>1 DEF ExtractionTypeOK
  <2>3. QED
    BY <2>1, <2>2 DEF ExtractionInv, Follows, Sound, HeadingAt, PagesOf
<1>10. CASE UNCHANGED extractionVars
  <2>1. UNCHANGED <<paper, useVlm, adapter, pageNo, tries, outline, extracted, reading>>
    BY <1>10 DEF extractionVars
  <2>2. ExtractionTypeOK'
    BY <1>1, <2>1 DEF ExtractionTypeOK
  <2>3. QED
    BY <2>1, <2>2 DEF ExtractionInv, Follows, Sound, HeadingAt, PagesOf
<1>11. QED
  BY <1>2, <1>3, <1>4, <1>5, <1>6, <1>7, <1>8, <1>9, <1>10 DEF ExtractionNext

LEMMA ExtractionSound ==
  ASSUME ExtractionInv
  PROVE  OutlineIsSound
<1>1. PICK p \in Nat : Sound(outline, p)
  BY DEF ExtractionInv
<1>2. outline.elements \in Seq(Extracted)
  BY DEF ExtractionInv, ExtractionTypeOK, Outline
<1>3. ASSUME NEW k \in DOMAIN outline.elements, outline.elements[k].parent # NoElement
      PROVE  HeadingAt(outline.elements, outline.elements[k].parent, k)
  BY <1>1, <1>3 DEF Sound
<1>4. ASSUME reading = "done", adapter = "vlm"
      PROVE  {e.page : e \in ToSet(extracted)} = 1..paper.pageCount
  <2>1. /\ extracted = outline.elements /\ pageNo = paper.pageCount + 1
        /\ PagesOf(outline.elements) = 1..(pageNo - 1) /\ paper \in Papers
    BY <1>4 DEF ExtractionInv, ExtractionTypeOK
  <2>2. (paper.pageCount + 1) - 1 = paper.pageCount
    <3>1. PICK c \in Nat : c = paper.pageCount
      BY <2>1, ExtractionAssumption
    <3>2. QED
      BY <3>1
  <2>3. QED
    BY <2>1, <2>2 DEF PagesOf
<1>5. Follows(extracted)
  BY DEF ExtractionInv
<1>6. QED
  BY <1>3, <1>4, <1>5 DEF OutlineIsSound, HeadingAt, Follows

(* Whatever the documents, their blocks and layouts, the variables of the  *)
(* extraction keep their types, and the walk its shape.                    *)
THEOREM ExtractionTyped == ExtractionSpec => []ExtractionTypeOK
<1>1. ExtractionSpec => []ExtractionInv
  BY ExtractionInitInv, ExtractionStep, PTL DEF ExtractionSpec
<1>2. ExtractionInv => ExtractionTypeOK
  BY DEF ExtractionInv
<1>3. QED
  BY <1>1, <1>2, PTL

(* However a document is read, its elements follow one another, only       *)
(* headings of one number share an id, none is put under a heading of      *)
(* another chapter or a later one, and a scan leaves something of every    *)
(* page (the extractors' loops).                                           *)
THEOREM OutlinesSound == ExtractionSpec => []OutlineIsSound
<1>1. ExtractionSpec => []ExtractionInv
  BY ExtractionInitInv, ExtractionStep, PTL DEF ExtractionSpec
<1>2. QED
  BY <1>1, ExtractionSound, PTL
=============================================================================
