----------------------------- MODULE FilterProofs -----------------------------
(***************************************************************************)
(* Induction over the natural numbers as facts about sets, functions       *)
(* defined by recursion on them, and what Kept returns.                    *)
(***************************************************************************)
EXTENDS Filter, SequencesExt, FiniteSetsExt, FiniteSetTheorems, SequenceTheorems,
        WellFoundedInduction, TLAPS

(* A set of natural numbers with an element has a least one.  Induction is *)
(* used in this form: the least counterexample to a claim leads to a       *)
(* contradiction.                                                          *)
LEMMA LeastElement ==
  ASSUME NEW S \in SUBSET Nat, S # {}
  PROVE  \E n \in S : \A m \in S : n <= m
<1>1. PICK n \in S : \A m \in S : ~ (<<m, n>> \in OpToRel(<, Nat))
  BY NatLessThanWellFounded, WFMin
<1>2. \A m \in S : ~(m < n)
  BY <1>1 DEF OpToRel
<1>3. QED
  BY <1>2

(* Induction up to a bound, for the numbers a claim holds of.              *)
LEMMA Induction ==
  ASSUME NEW N \in Nat, NEW S, 0 \in S,
         \A n \in 0..N : n < N /\ n \in S => n + 1 \in S
  PROVE  0..N \subseteq S
<1> DEFINE bad == {n \in 0..N : n \notin S}
<1> SUFFICES ASSUME bad # {} PROVE FALSE
  OBVIOUS
<1>0. bad \in SUBSET Nat
  OBVIOUS
<1>1. PICK n \in bad : \A m \in bad : n <= m
  <2> HIDE DEF bad
  <2>1. QED
    BY <1>0, LeastElement
<1>2. n # 0 /\ n - 1 \in 0..N /\ n - 1 < N /\ (n - 1) + 1 = n
  BY <1>1
<1>3. n - 1 \in S
  BY <1>1, <1>2
<1>4. QED
  BY <1>1, <1>2, <1>3

(* f is the function with values in X that starts with base and goes on    *)
(* by step, which takes the number and the value before it.                *)
StaysIn(step, N, X) == \A n \in 1..N, x \in X : step[<<n, x>>] \in X

Recursion(f, N, X, base, step) ==
  /\ f \in [0..N -> X] /\ f[0] = base
  /\ \A n \in 1..N : f[n] = step[<<n, f[n - 1]>>]

(* A recursion step that stays in X defines a function into X.             *)
LEMMA RecursionDefines ==
  ASSUME NEW N \in Nat, NEW X, NEW base \in X, NEW step, StaysIn(step, N, X)
  PROVE  \E f : Recursion(f, N, X, base, step)
<1> DEFINE good == {m \in Nat : \E f : Recursion(f, m, X, base, step)}
<1>1. 0 \in good
  <2> DEFINE f == [n \in 0..0 |-> base]
  <2>1. Recursion(f, 0, X, base, step)
    BY DEF Recursion
  <2> HIDE DEF f
  <2>2. QED
    BY <2>1
<1>2. ASSUME NEW m \in 0..N, m < N, m \in good PROVE m + 1 \in good
  <2>0. PICK f : Recursion(f, m, X, base, step)
    BY <1>2
  <2>1. /\ f \in [0..m -> X] /\ f[0] = base
        /\ \A n \in 1..m : f[n] = step[<<n, f[n - 1]>>]
    BY <2>0 DEF Recursion
  <2> DEFINE g == [n \in 0..(m + 1) |-> IF n = m + 1 THEN step[<<m + 1, f[m]>>] ELSE f[n]]
  <2>2. g \in [0..(m + 1) -> X] /\ g[0] = base
    BY <1>2, <2>1 DEF StaysIn
  <2>3. ASSUME NEW n \in 1..(m + 1) PROVE g[n] = step[<<n, g[n - 1]>>]
    <3>1. CASE n = m + 1
      <4>1. g[n - 1] = f[m] /\ g[n] = step[<<m + 1, f[m]>>]
        BY <3>1
      <4>2. QED
        BY <3>1, <4>1
    <3>2. CASE n # m + 1
      <4>1. n \in 1..m /\ g[n] = f[n] /\ g[n - 1] = f[n - 1]
        BY <3>2
      <4>2. QED
        BY <2>1, <4>1
    <3>3. QED
      BY <3>1, <3>2
  <2>4. Recursion(g, m + 1, X, base, step)
    BY <2>2, <2>3 DEF Recursion
  <2>5. m + 1 \in Nat
    OBVIOUS
  <2> HIDE DEF g
  <2>6. QED
    BY <2>4, <2>5
<1>3. N \in good
  <2> HIDE DEF good
  <2>1. 0..N \subseteq good
    BY <1>1, <1>2, Induction
  <2>2. QED
    BY <2>1
<1>4. QED
  BY <1>3

-----------------------------------------------------------------------------
(* KeptOf satisfies the equations it is defined by.                        *)
LEMMA KeptOfDef ==
  ASSUME NEW T, NEW s \in Seq(T), NEW S
  PROVE  /\ KeptOf(s, S) \in [0..Len(s) -> Seq(T)]
         /\ KeptOf(s, S)[0] = <<>>
         /\ \A n \in 1..Len(s) :
              KeptOf(s, S)[n] = IF s[n] \in S THEN Append(KeptOf(s, S)[n - 1], s[n])
                                ELSE KeptOf(s, S)[n - 1]
<1> DEFINE kept == CHOOSE kept : kept =
             [n \in 0..Len(s) |-> IF n = 0 THEN <<>>
                                  ELSE IF s[n] \in S THEN Append(kept[n - 1], s[n])
                                  ELSE kept[n - 1]]
           step == [p \in (1..Len(s)) \X Seq(T) |->
                      IF s[p[1]] \in S THEN Append(p[2], s[p[1]]) ELSE p[2]]
           N == Len(s)
           X == Seq(T)
           base == <<>>
<1>1. StaysIn(step, N, X)
  BY DEF StaysIn
<1>2. N \in Nat /\ base \in X
  OBVIOUS
<1>3. PICK f : Recursion(f, N, X, base, step)
  <2> HIDE DEF step, N, X, base
  <2>1. QED
    BY <1>1, <1>2, RecursionDefines
<1>4. f = [n \in 0..Len(s) |-> IF n = 0 THEN <<>>
                               ELSE IF s[n] \in S THEN Append(f[n - 1], s[n])
                               ELSE f[n - 1]]
  <2>0. f \in [0..N -> X] /\ f[0] = <<>> /\ \A n \in 1..N : f[n] = step[<<n, f[n - 1]>>]
    BY <1>3 DEF Recursion
  <2>1. ASSUME NEW n \in 0..Len(s), n # 0
        PROVE  step[<<n, f[n - 1]>>] = IF s[n] \in S THEN Append(f[n - 1], s[n]) ELSE f[n - 1]
    <3>1. n \in 1..Len(s) /\ n - 1 \in 0..N
      BY <1>2, <2>1
    <3>2. f[n - 1] \in Seq(T)
      BY <2>0, <3>1
    <3>3. QED
      BY <3>1, <3>2
  <2> HIDE DEF step
  <2>2. ASSUME NEW n \in 0..Len(s)
        PROVE  f[n] = IF n = 0 THEN <<>>
                      ELSE IF s[n] \in S THEN Append(f[n - 1], s[n])
                      ELSE f[n - 1]
    <3>1. CASE n = 0
      BY <2>0, <3>1
    <3>2. CASE n # 0
      <4>1. n \in 1..N
        BY <3>2, <1>2
      <4>2. f[n] = step[<<n, f[n - 1]>>]
        BY <2>0, <4>1
      <4>3. QED
        BY <2>1, <3>2, <4>2
    <3>3. QED
      BY <3>1, <3>2
  <2>3. DOMAIN f = 0..Len(s)
    BY <2>0
  <2>4. f = [n \in 0..Len(s) |-> f[n]]
    BY <2>0, <2>3
  <2>5. QED
    BY <2>2, <2>4, Zenon
<1>5. kept = [n \in 0..Len(s) |-> IF n = 0 THEN <<>>
                                  ELSE IF s[n] \in S THEN Append(kept[n - 1], s[n])
                                  ELSE kept[n - 1]]
  BY <1>4
<1>6. KeptOf(s, S) = kept
  BY DEF KeptOf
<1> HIDE DEF kept, step
<1>7. kept[0] = <<>> /\ \A n \in 1..Len(s) :
        kept[n] = IF s[n] \in S THEN Append(kept[n - 1], s[n]) ELSE kept[n - 1]
  <2>1. ASSUME NEW n \in 0..Len(s)
        PROVE  kept[n] = IF n = 0 THEN <<>>
                         ELSE IF s[n] \in S THEN Append(kept[n - 1], s[n])
                         ELSE kept[n - 1]
    BY <1>5, Zenon
  <2>2. 0 \in 0..Len(s) /\ \A n \in 1..Len(s) : n \in 0..Len(s) /\ n # 0
    BY <1>2
  <2>3. QED
    BY <2>1, <2>2
<1> DEFINE good == {n \in Nat : kept[n] \in Seq(T)}
<1>8. 0..Len(s) \subseteq good
  <2>1. 0 \in good
    BY <1>2, <1>7
  <2>2. ASSUME NEW n \in 0..Len(s), n < Len(s), n \in good PROVE n + 1 \in good
    <3>1. n + 1 \in 1..Len(s) /\ (n + 1) - 1 = n /\ s[n + 1] \in T
      BY <2>2
    <3>2. kept[n] \in Seq(T) /\ Append(kept[n], s[n + 1]) \in Seq(T)
      BY <2>2, <3>1
    <3>3. kept[n + 1] = Append(kept[n], s[n + 1]) \/ kept[n + 1] = kept[n]
      BY <1>7, <3>1
    <3>4. n + 1 \in Nat
      BY <2>2
    <3>5. QED
      BY <2>2, <3>2, <3>3, <3>4
  <2> HIDE DEF good
  <2>3. QED
    BY <1>2, <2>1, <2>2, Induction
<1>9. kept \in [0..Len(s) -> Seq(T)]
  BY <1>5, <1>8
<1>10. QED
  BY <1>6, <1>7, <1>9

(* What is kept of s is the elements of s that are in S.                   *)
LEMMA KeptProperties ==
  ASSUME NEW T, NEW s \in Seq(T), NEW S
  PROVE  /\ Kept(s, S) \in Seq(T)
         /\ \A i \in DOMAIN Kept(s, S) :
              /\ Kept(s, S)[i] \in S
              /\ \E j \in DOMAIN s : Kept(s, S)[i] = s[j]
         /\ \A j \in DOMAIN s : s[j] \in S => \E i \in DOMAIN Kept(s, S) : Kept(s, S)[i] = s[j]
<1> DEFINE kept == KeptOf(s, S)
           Sound(n)    == \A i \in DOMAIN kept[n] : kept[n][i] \in S /\ \E j \in 1..n : kept[n][i] = s[j]
           Complete(n) == \A j \in 1..n : s[j] \in S => \E i \in DOMAIN kept[n] : kept[n][i] = s[j]
           good == {n \in Nat : Sound(n) /\ Complete(n)}
<1>1. Len(s) \in Nat /\ DOMAIN s = 1..Len(s)
  OBVIOUS
<1>2. /\ kept \in [0..Len(s) -> Seq(T)] /\ kept[0] = <<>>
      /\ \A n \in 1..Len(s) :
           kept[n] = IF s[n] \in S THEN Append(kept[n - 1], s[n]) ELSE kept[n - 1]
  BY KeptOfDef
<1>3. 0 \in good
  <2>1. DOMAIN kept[0] = {} /\ 1..0 = {}
    BY <1>2
  <2>2. QED
    BY <2>1
<1>4. ASSUME NEW n \in 0..Len(s), n < Len(s), n \in good PROVE n + 1 \in good
  <2> HIDE DEF kept
  <2>0. n + 1 \in Nat /\ n + 1 \in 1..Len(s) /\ (n + 1) - 1 = n /\ 1..(n + 1) = (1..n) \cup {n + 1}
    BY <1>4
  <2>1. kept[n] \in Seq(T) /\ s[n + 1] \in T
    BY <1>2, <2>0
  <2>2. CASE s[n + 1] \in S
    <3>1. kept[n + 1] = Append(kept[n], s[n + 1])
      BY <1>2, <2>0, <2>2
    <3> DEFINE last == Len(kept[n]) + 1
    <3>2. /\ DOMAIN kept[n + 1] = DOMAIN kept[n] \cup {last}
          /\ \A i \in DOMAIN kept[n] : kept[n + 1][i] = kept[n][i]
          /\ kept[n + 1][last] = s[n + 1]
      BY <2>1, <3>1
    <3> HIDE DEF last
    <3>3. Sound(n + 1)
      BY <1>4, <2>0, <2>2, <3>2
    <3>4. Complete(n + 1)
      BY <1>4, <2>0, <3>2
    <3>5. QED
      BY <2>0, <3>3, <3>4
  <2>3. CASE s[n + 1] \notin S
    <3>1. kept[n + 1] = kept[n]
      BY <1>2, <2>0, <2>3
    <3>2. Sound(n + 1)
      BY <1>4, <2>0, <3>1
    <3>3. Complete(n + 1)
      BY <1>4, <2>0, <2>3, <3>1
    <3>4. QED
      BY <2>0, <3>2, <3>3
  <2>4. QED
    BY <2>2, <2>3
<1>5. Len(s) \in good
  <2> HIDE DEF good
  <2>1. 0..Len(s) \subseteq good
    BY <1>1, <1>3, <1>4, Induction
  <2>2. QED
    BY <1>1, <2>1
<1>6. Kept(s, S) = kept[Len(s)] /\ kept[Len(s)] \in Seq(T)
  BY <1>1, <1>2 DEF Kept
<1> HIDE DEF kept
<1>7. QED
  BY <1>1, <1>5, <1>6

(* A list without repetitions is filtered into one without repetitions.    *)
LEMMA KeptDistinct ==
  ASSUME NEW T, NEW s \in Seq(T), NEW S, Distinct(s)
  PROVE  Distinct(Kept(s, S))
<1> DEFINE kept == KeptOf(s, S)
           Early(n) == \A i \in DOMAIN kept[n] : \E j \in 1..n : kept[n][i] = s[j]
           good == {n \in Nat : Distinct(kept[n]) /\ Early(n)}
<1>1. Len(s) \in Nat /\ DOMAIN s = 1..Len(s)
  OBVIOUS
<1>2. /\ kept \in [0..Len(s) -> Seq(T)] /\ kept[0] = <<>>
      /\ \A n \in 1..Len(s) :
           kept[n] = IF s[n] \in S THEN Append(kept[n - 1], s[n]) ELSE kept[n - 1]
  BY KeptOfDef
<1>3. 0 \in good
  <2>1. DOMAIN kept[0] = {}
    BY <1>2
  <2>2. QED
    BY <2>1 DEF Distinct
<1>4. ASSUME NEW n \in 0..Len(s), n < Len(s), n \in good PROVE n + 1 \in good
  <2> HIDE DEF kept
  <2>0. n + 1 \in Nat /\ n + 1 \in 1..Len(s) /\ (n + 1) - 1 = n /\ 1..(n + 1) = (1..n) \cup {n + 1}
    BY <1>4
  <2>1. kept[n] \in Seq(T) /\ s[n + 1] \in T
    BY <1>2, <2>0
  <2>2. CASE s[n + 1] \in S
    <3>1. kept[n + 1] = Append(kept[n], s[n + 1])
      BY <1>2, <2>0, <2>2
    <3> DEFINE last == Len(kept[n]) + 1
    <3>2. /\ DOMAIN kept[n + 1] = DOMAIN kept[n] \cup {last}
          /\ \A i \in DOMAIN kept[n] : kept[n + 1][i] = kept[n][i]
          /\ kept[n + 1][last] = s[n + 1]
      BY <2>1, <3>1
    <3> HIDE DEF last
    <3>3. \A j \in 1..n : s[j] # s[n + 1]
      BY <1>1, <2>0 DEF Distinct
    <3>4. \A i \in DOMAIN kept[n] : kept[n + 1][i] # kept[n + 1][last]
      BY <1>4, <3>2, <3>3
    <3>5. Distinct(kept[n + 1])
      BY <1>4, <3>2, <3>4 DEF Distinct
    <3>6. Early(n + 1)
      BY <1>4, <2>0, <3>2
    <3>7. QED
      BY <2>0, <3>5, <3>6
  <2>3. CASE s[n + 1] \notin S
    <3>1. kept[n + 1] = kept[n]
      BY <1>2, <2>0, <2>3
    <3>2. Distinct(kept[n + 1]) /\ Early(n + 1)
      BY <1>4, <2>0, <3>1
    <3>3. QED
      BY <2>0, <3>2
  <2>4. QED
    BY <2>2, <2>3
<1>5. Len(s) \in good
  <2> HIDE DEF good
  <2>1. 0..Len(s) \subseteq good
    BY <1>1, <1>3, <1>4, Induction
  <2>2. QED
    BY <1>1, <2>1
<1>6. QED
  BY <1>1, <1>5 DEF Kept

(* What is kept is in the order it had.                                    *)
LEMMA KeptOrdered ==
  ASSUME NEW T, NEW s \in Seq(T), NEW S,
         NEW k \in DOMAIN Kept(s, S), NEW l \in DOMAIN Kept(s, S), k < l
  PROVE  \E i, j \in DOMAIN s : i < j /\ Kept(s, S)[k] = s[i] /\ Kept(s, S)[l] = s[j]
<1> DEFINE kept == KeptOf(s, S)
           Early(n) == \A i \in DOMAIN kept[n] : \E j \in 1..n : kept[n][i] = s[j]
           Ordered(n) == \A x, y \in DOMAIN kept[n] : x < y =>
                           \E i, j \in 1..n : i < j /\ kept[n][x] = s[i] /\ kept[n][y] = s[j]
           good == {n \in Nat : Early(n) /\ Ordered(n)}
<1>1. Len(s) \in Nat /\ DOMAIN s = 1..Len(s)
  OBVIOUS
<1>2. /\ kept \in [0..Len(s) -> Seq(T)] /\ kept[0] = <<>>
      /\ \A n \in 1..Len(s) :
           kept[n] = IF s[n] \in S THEN Append(kept[n - 1], s[n]) ELSE kept[n - 1]
  BY KeptOfDef
<1>3. 0 \in good
  <2>1. DOMAIN kept[0] = {}
    BY <1>2
  <2>2. QED
    BY <2>1
<1>4. ASSUME NEW n \in 0..Len(s), n < Len(s), n \in good PROVE n + 1 \in good
  <2> HIDE DEF kept
  <2>0. n \in Nat /\ n + 1 \in Nat /\ n + 1 \in 1..Len(s) /\ (n + 1) - 1 = n
        /\ 1..(n + 1) = (1..n) \cup {n + 1}
    BY <1>4
  <2>1. kept[n] \in Seq(T) /\ s[n + 1] \in T
    BY <1>2, <2>0
  <2>2. CASE s[n + 1] \in S
    <3>1. kept[n + 1] = Append(kept[n], s[n + 1])
      BY <1>2, <2>0, <2>2
    <3> DEFINE last == Len(kept[n]) + 1
    <3>2. /\ DOMAIN kept[n + 1] = DOMAIN kept[n] \cup {last}
          /\ \A i \in DOMAIN kept[n] : i < last /\ kept[n + 1][i] = kept[n][i]
          /\ kept[n + 1][last] = s[n + 1] /\ last \in Nat
      BY <2>1, <3>1
    <3> HIDE DEF last
    <3>3. Early(n + 1)
      BY <1>4, <2>0, <3>2
    <3>4. ASSUME NEW x \in DOMAIN kept[n + 1], NEW y \in DOMAIN kept[n + 1], x < y
          PROVE  \E i, j \in 1..(n + 1) : i < j /\ kept[n + 1][x] = s[i] /\ kept[n + 1][y] = s[j]
      <4>1. x \in DOMAIN kept[n]
        <5>1. x # last
          <6>1. y <= last /\ y \in Nat
            BY <2>1, <3>2
          <6>2. QED
            BY <3>2, <3>4, <6>1
        <5>2. QED
          BY <3>2, <5>1
      <4>2. CASE y = last
        <5>1. PICK i \in 1..n : kept[n][x] = s[i]
          BY <1>4, <4>1
        <5>2. i < n + 1 /\ i \in 1..(n + 1) /\ n + 1 \in 1..(n + 1)
          BY <2>0, <5>1
        <5>3. kept[n + 1][x] = s[i] /\ kept[n + 1][y] = s[n + 1]
          BY <3>2, <4>1, <4>2, <5>1
        <5>4. QED
          BY <5>2, <5>3
      <4>3. CASE y \in DOMAIN kept[n]
        <5>1. PICK i \in 1..n, j \in 1..n : i < j /\ kept[n][x] = s[i] /\ kept[n][y] = s[j]
          BY <1>4, <3>4, <4>1, <4>3
        <5>2. kept[n + 1][x] = s[i] /\ kept[n + 1][y] = s[j] /\ i \in 1..(n + 1) /\ j \in 1..(n + 1)
          BY <2>0, <3>2, <4>1, <4>3, <5>1
        <5>3. QED
          BY <5>1, <5>2
      <4>4. QED
        BY <3>2, <4>2, <4>3
    <3>5. Ordered(n + 1)
      BY <3>4
    <3>6. QED
      BY <2>0, <3>3, <3>5
  <2>3. CASE s[n + 1] \notin S
    <3>1. kept[n + 1] = kept[n]
      BY <1>2, <2>0, <2>3
    <3>2. Early(n + 1)
      BY <1>4, <2>0, <3>1
    <3>3. Ordered(n + 1)
      BY <1>4, <2>0, <3>1
    <3>4. QED
      BY <2>0, <3>2, <3>3
  <2>4. QED
    BY <2>2, <2>3
<1>5. Len(s) \in good
  <2> HIDE DEF good
  <2>1. 0..Len(s) \subseteq good
    BY <1>1, <1>3, <1>4, Induction
  <2>2. QED
    BY <1>1, <2>1
<1>6. QED
  BY <1>1, <1>5 DEF Kept

(* A list all of whose elements are in S is kept whole.                    *)
LEMMA KeptWhole ==
  ASSUME NEW T, NEW s \in Seq(T), NEW S, \A j \in DOMAIN s : s[j] \in S
  PROVE  Len(Kept(s, S)) = Len(s)
<1> DEFINE kept == KeptOf(s, S)
           good == {n \in Nat : Len(kept[n]) = n}
<1>1. Len(s) \in Nat /\ DOMAIN s = 1..Len(s)
  OBVIOUS
<1>2. /\ kept \in [0..Len(s) -> Seq(T)] /\ kept[0] = <<>>
      /\ \A n \in 1..Len(s) :
           kept[n] = IF s[n] \in S THEN Append(kept[n - 1], s[n]) ELSE kept[n - 1]
  BY KeptOfDef
<1>3. 0 \in good
  BY <1>2
<1>4. ASSUME NEW n \in 0..Len(s), n < Len(s), n \in good PROVE n + 1 \in good
  <2> HIDE DEF kept
  <2>1. n + 1 \in Nat /\ n + 1 \in 1..Len(s) /\ (n + 1) - 1 = n
    BY <1>4
  <2>2. kept[n] \in Seq(T) /\ s[n + 1] \in T /\ s[n + 1] \in S
    BY <1>1, <1>2, <2>1
  <2>3. kept[n + 1] = Append(kept[n], s[n + 1])
    BY <1>2, <2>1, <2>2
  <2>4. QED
    BY <1>4, <2>1, <2>2, <2>3
<1>5. Len(s) \in good
  <2> HIDE DEF good
  <2>1. 0..Len(s) \subseteq good
    BY <1>1, <1>3, <1>4, Induction
  <2>2. QED
    BY <1>1, <2>1
<1>6. QED
  BY <1>1, <1>5 DEF Kept

(* The least and the greatest of a set of places.                          *)
LEMMA MinIn ==
  ASSUME NEW S \in SUBSET Nat, S # {}
  PROVE  Min(S) \in S /\ \A m \in S : Min(S) <= m
<1>1. \E n \in S : \A m \in S : n <= m
  BY LeastElement
<1>2. QED
  BY <1>1 DEF Min

LEMMA MaxIn ==
  ASSUME NEW N \in Nat, NEW S \in SUBSET (0..N), S # {}
  PROVE  Max(S) \in S /\ \A m \in S : m <= Max(S)
<1> DEFINE T == {N - n : n \in S}
<1>1. T \in SUBSET Nat /\ T # {}
  <2>1. \A n \in S : n \in 0..N /\ N - n \in Nat
    OBVIOUS
  <2>2. QED
    BY <2>1
<1>2. PICK t \in T : \A m \in T : t <= m
  <2> HIDE DEF T
  <2>1. QED
    BY <1>1, LeastElement
<1>3. PICK n \in S : t = N - n
  OBVIOUS
<1>4. \A m \in S : n >= m
  <2>1. ASSUME NEW m \in S PROVE n >= m
    <3>1. N - m \in T
      OBVIOUS
    <3>2. N - n <= N - m
      BY <1>2, <1>3, <3>1
    <3>3. QED
      BY <3>2
  <2>2. QED
    BY <2>1
<1>5. QED
  BY <1>4 DEF Max

(* The lesser of two numbers.                                              *)
LEMMA MinOfTwo ==
  ASSUME NEW a \in Nat, NEW b \in Nat
  PROVE  Min({a, b}) = IF a <= b THEN a ELSE b
<1> DEFINE m == IF a <= b THEN a ELSE b
<1>1. m \in {a, b} /\ \A y \in {a, b} : m =< y
  OBVIOUS
<1>2. \A x \in {a, b} : (\A y \in {a, b} : x =< y) => x = m
  OBVIOUS
<1>3. QED
  BY <1>1, <1>2 DEF Min

(* A list maps its places onto its elements.                               *)
LEMMA ListIsOntoItsElements ==
  ASSUME NEW T, NEW s \in Seq(T)
  PROVE  s \in Surjection(1..Len(s), ToSet(s))
<1>1. Len(s) \in Nat /\ DOMAIN s = 1..Len(s) /\ s \in [1..Len(s) -> T]
  OBVIOUS
<1>2. \A i \in 1..Len(s) : s[i] \in ToSet(s)
  BY <1>1 DEF ToSet
<1>3. s \in [1..Len(s) -> ToSet(s)]
  BY <1>1, <1>2
<1>4. \A x \in ToSet(s) : \E i \in 1..Len(s) : s[i] = x
  BY <1>1 DEF ToSet
<1>5. QED
  BY <1>3, <1>4 DEF Surjection

(* A list without repetitions is as long as it has elements.               *)
LEMMA DistinctCount ==
  ASSUME NEW T, NEW s \in Seq(T), Distinct(s)
  PROVE  IsFiniteSet(ToSet(s)) /\ Cardinality(ToSet(s)) = Len(s)
<1>1. Len(s) \in Nat /\ DOMAIN s = 1..Len(s)
  OBVIOUS
<1>2. s \in Surjection(1..Len(s), ToSet(s))
  BY ListIsOntoItsElements
<1>3. s \in Injection(1..Len(s), ToSet(s))
  BY <1>1, <1>2, Zenon DEF Injection, IsInjective, Surjection, Distinct
<1>4. ExistsBijection(1..Len(s), ToSet(s))
  BY <1>2, <1>3 DEF ExistsBijection, Bijection
<1>5. QED
  BY <1>1, <1>4, FS_CountingElements, FS_NatBijection

(* Filtering a list without repetitions is intersecting with a set.        *)
LEMMA KeptCount ==
  ASSUME NEW T, NEW s \in Seq(T), NEW S, Distinct(s)
  PROVE  /\ Kept(s, S) \in Seq(T) /\ Distinct(Kept(s, S))
         /\ ToSet(Kept(s, S)) = ToSet(s) \cap S
         /\ Len(Kept(s, S)) = Cardinality(ToSet(s) \cap S) /\ Len(Kept(s, S)) \in Nat
<1>1. PICK k : k = Kept(s, S)
  OBVIOUS
<1>2. /\ k \in Seq(T) /\ Distinct(k)
      /\ \A i \in DOMAIN k : k[i] \in S /\ \E j \in DOMAIN s : k[i] = s[j]
      /\ \A j \in DOMAIN s : s[j] \in S => \E i \in DOMAIN k : k[i] = s[j]
  BY <1>1, KeptProperties, KeptDistinct
<1>3. ToSet(k) = ToSet(s) \cap S
  BY <1>2 DEF ToSet
<1>4. Cardinality(ToSet(k)) = Len(k) /\ Len(k) \in Nat
  BY <1>2, DistinctCount
<1>5. QED
  BY <1>1, <1>2, <1>3, <1>4

(* What Kept keeps, as a set.                                              *)
LEMMA KeptSet ==
  ASSUME NEW T, NEW s \in Seq(T), NEW S
  PROVE  Kept(s, S) \in Seq(T) /\ ToSet(Kept(s, S)) = ToSet(s) \cap S
<1>1. PICK k : k = Kept(s, S)
  OBVIOUS
<1>2. /\ k \in Seq(T)
      /\ \A i \in DOMAIN k : k[i] \in S /\ \E j \in DOMAIN s : k[i] = s[j]
      /\ \A j \in DOMAIN s : s[j] \in S => \E i \in DOMAIN k : k[i] = s[j]
  BY <1>1, KeptProperties
<1>3. ToSet(k) = ToSet(s) \cap S
  BY <1>2 DEF ToSet
<1>4. QED
  BY <1>1, <1>2, <1>3

(* The elements of s, each once.                                           *)
LEMMA WithoutRepeatsProperties ==
  ASSUME NEW T, NEW s \in Seq(T)
  PROVE  /\ WithoutRepeats(s) \in Seq(T) /\ ToSet(WithoutRepeats(s)) = ToSet(s)
         /\ Distinct(WithoutRepeats(s))
<1> DEFINE index == [n \in DOMAIN s |-> n]
           F == {n \in DOMAIN s : \A m \in 1..(n - 1) : s[m] # s[n]}
           firsts == Kept(index, F)
           r == WithoutRepeats(s)
<1>1. Len(s) \in Nat /\ DOMAIN s = 1..Len(s) /\ s \in [1..Len(s) -> T]
  OBVIOUS
<1>2. index \in Seq(Nat) /\ DOMAIN index = 1..Len(s)
  <2>1. index \in [1..Len(s) -> Nat]
    BY <1>1
  <2>2. QED
    BY <2>1, <1>1, SeqDef
<1>3. \A n \in 1..Len(s) : index[n] = n
  BY <1>1
<1>4. \A n \in F : n \in 1..Len(s) /\ \A m \in 1..(n - 1) : s[m] # s[n]
  BY <1>1
<1>5. \A n \in 1..Len(s) : \E m \in F : s[m] = s[n]
  <2> TAKE n \in 1..Len(s)
  <2> DEFINE same == {m \in 1..Len(s) : s[m] = s[n]}
  <2>1. PICK m \in same : \A k \in same : m <= k
    <3>1. same \in SUBSET Nat /\ same # {}
      BY <1>1
    <3>2. QED
      BY <3>1, LeastElement, Zenon
  <2>2. \A k \in 1..(m - 1) : s[k] # s[m]
    BY <2>1, <1>1
  <2>3. QED
    BY <2>1, <2>2, <1>1
<1>6. r = [n \in DOMAIN firsts |-> s[firsts[n]]]
  BY DEF WithoutRepeats
<1> HIDE DEF index, F, r
<1>7. /\ firsts \in Seq(Nat)
      /\ \A i \in DOMAIN firsts :
           /\ firsts[i] \in F
           /\ \E j \in DOMAIN index : firsts[i] = index[j]
      /\ \A j \in DOMAIN index : index[j] \in F => \E i \in DOMAIN firsts : firsts[i] = index[j]
  <2> HIDE DEF firsts
  <2>1. firsts = Kept(index, F) /\ index \in Seq(Nat)
    BY <1>2 DEF firsts
  <2>2. /\ Kept(index, F) \in Seq(Nat)
        /\ \A i \in DOMAIN Kept(index, F) :
             /\ Kept(index, F)[i] \in F
             /\ \E j \in DOMAIN index : Kept(index, F)[i] = index[j]
        /\ \A j \in DOMAIN index : index[j] \in F => \E i \in DOMAIN Kept(index, F) : Kept(index, F)[i] = index[j]
    BY <2>1, KeptProperties
  <2>3. QED
    BY <2>1, <2>2, Zenon
<1>8. \A k, l \in DOMAIN firsts : k < l =>
        \E i, j \in DOMAIN index : i < j /\ firsts[k] = index[i] /\ firsts[l] = index[j]
  BY <1>2, KeptOrdered
<1> HIDE DEF firsts
<1>9. \A k, l \in DOMAIN firsts : k < l => firsts[k] < firsts[l]
  BY <1>8, <1>2, <1>3
<1>10. Len(firsts) \in Nat /\ DOMAIN firsts = 1..Len(firsts)
  BY <1>7
<1>11. \A k \in DOMAIN firsts : r[k] = s[firsts[k]] /\ firsts[k] \in 1..Len(s)
  BY <1>6, <1>7, <1>4
<1>12. r \in Seq(T) /\ DOMAIN r = DOMAIN firsts
  <2>1. DOMAIN r = DOMAIN firsts /\ r \in [1..Len(firsts) -> T]
    BY <1>1, <1>6, <1>10, <1>11
  <2>2. QED
    BY <2>1, <1>10, SeqDef
<1>13. ToSet(r) = ToSet(s)
  <2>1. \A n \in 1..Len(s) : \E k \in DOMAIN r : r[k] = s[n]
    <3> TAKE n \in 1..Len(s)
    <3>1. PICK m \in F : s[m] = s[n]
      BY <1>5
    <3>2. m \in DOMAIN index /\ index[m] = m
      BY <3>1, <1>4, <1>2, <1>3
    <3>3. PICK k \in DOMAIN firsts : firsts[k] = m
      BY <3>1, <3>2, <1>7
    <3>4. QED
      BY <3>1, <3>3, <1>11, <1>12
  <2>2. \A k \in DOMAIN r : \E n \in 1..Len(s) : r[k] = s[n]
    BY <1>11, <1>12
  <2>3. QED
    BY <2>1, <2>2, <1>1 DEF ToSet
<1>14. \A k, l \in DOMAIN r : k < l => r[k] # r[l]
  <2> SUFFICES ASSUME NEW k \in DOMAIN r, NEW l \in DOMAIN r, k < l PROVE r[k] # r[l]
    OBVIOUS
  <2>1. firsts[k] < firsts[l] /\ firsts[k] \in 1..Len(s) /\ firsts[l] \in F /\ firsts[l] \in 1..Len(s)
    BY <1>7, <1>9, <1>11, <1>12
  <2>2. firsts[k] \in 1..(firsts[l] - 1)
    BY <2>1, <1>1
  <2>3. QED
    BY <2>1, <2>2, <1>4, <1>11, <1>12
<1>15. Distinct(r)
  <2>1. ASSUME NEW k \in DOMAIN r, NEW l \in DOMAIN r, r[k] = r[l] PROVE k = l
    <3>1. k \in Nat /\ l \in Nat
      BY <1>10, <1>12
    <3>2. ~(k < l) /\ ~(l < k)
      BY <1>14, <2>1
    <3>3. QED
      BY <3>1, <3>2
  <2>2. QED
    BY <2>1 DEF Distinct
<1>16. QED
  BY <1>12, <1>13, <1>15 DEF r

(* Without its repetitions a list begins as it did.                        *)
LEMMA FirstStaysFirst ==
  ASSUME NEW T, NEW s \in Seq(T), s # <<>>
  PROVE  WithoutRepeats(s)[1] = s[1]
<1> DEFINE index == [n \in DOMAIN s |-> n]
           F == {n \in DOMAIN s : \A m \in 1..(n - 1) : s[m] # s[n]}
           firsts == Kept(index, F)
<1>1. Len(s) \in Nat /\ DOMAIN s = 1..Len(s) /\ 1 \in DOMAIN s
  BY EmptySeq
<1>2. index \in Seq(Nat) /\ DOMAIN index = 1..Len(s)
  <2>1. index \in [1..Len(s) -> Nat]
    BY <1>1
  <2>2. QED
    BY <2>1, <1>1, SeqDef
<1>3. 1 \in F
  BY <1>1
<1>4. \A n \in 1..Len(s) : index[n] = n
  BY <1>1
<1>5. WithoutRepeats(s) = [n \in DOMAIN firsts |-> s[firsts[n]]]
  BY DEF WithoutRepeats
<1> HIDE DEF index, F
<1>6. firsts \in Seq(Nat) /\ \A j \in DOMAIN index : index[j] \in F => \E i \in DOMAIN firsts : firsts[i] = index[j]
  <2> HIDE DEF firsts
  <2>1. firsts = Kept(index, F) /\ index \in Seq(Nat)
    BY <1>2 DEF firsts
  <2>2. /\ Kept(index, F) \in Seq(Nat)
        /\ \A i \in DOMAIN Kept(index, F) :
             /\ Kept(index, F)[i] \in F
             /\ \E j \in DOMAIN index : Kept(index, F)[i] = index[j]
        /\ \A j \in DOMAIN index : index[j] \in F => \E i \in DOMAIN Kept(index, F) : Kept(index, F)[i] = index[j]
    BY <2>1, KeptProperties
  <2>3. QED
    BY <2>1, <2>2, Zenon
<1>7. \A k, l \in DOMAIN firsts : k < l =>
        \E i, j \in DOMAIN index : i < j /\ firsts[k] = index[i] /\ firsts[l] = index[j]
  BY <1>2, KeptOrdered
<1> HIDE DEF firsts
<1>8. PICK l \in DOMAIN firsts : firsts[l] = 1
  BY <1>6, <1>4, <1>3, <1>2, <1>1
<1>9. 1 \in DOMAIN firsts /\ l \in Nat /\ l >= 1
  BY <1>6, <1>8
<1>10. l = 1
  <2> SUFFICES ASSUME l # 1 PROVE FALSE
    OBVIOUS
  <2>1. PICK i, j \in DOMAIN index : i < j /\ firsts[1] = index[i] /\ firsts[l] = index[j]
    BY <1>7, <1>9, <1>8
  <2>2. /\ i \in 1..Len(s) /\ j \in 1..Len(s)
        /\ index[i] = i /\ index[j] = j
    BY <1>4, <1>2
  <2>3. QED
    BY <2>1, <2>2, <1>8, <1>1
<1>11. QED
  BY <1>5, <1>8, <1>9, <1>10
=============================================================================
