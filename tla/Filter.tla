-------------------------------- MODULE Filter --------------------------------
(***************************************************************************)
(* Lists: the comprehension [x for x in s if x in S] that the code filters *)
(* with.  It is SelectSeq of the standard module for a set instead of a    *)
(* predicate, written as a recursive function of a prefix's length, which  *)
(* is what makes its properties provable (FilterProofs).                   *)
(***************************************************************************)
EXTENDS Naturals, Sequences

(* KeptOf(s, S)[n] is what is kept of the first n elements of s.           *)
KeptOf(s, S) ==
  LET kept[n \in 0..Len(s)] ==
        IF n = 0 THEN <<>>
        ELSE IF s[n] \in S THEN Append(kept[n - 1], s[n])
        ELSE kept[n - 1]
  IN  kept

Kept(s, S) == KeptOf(s, S)[Len(s)]

(* A list, whatever it is a list of.                                       *)
IsList(s) == s \in Seq({s[n] : n \in DOMAIN s})

(* The elements of s, each where it is first.                              *)
WithoutRepeats(s) ==
  LET firsts == Kept([n \in DOMAIN s |-> n], {n \in DOMAIN s : \A m \in 1..(n - 1) : s[m] # s[n]})
  IN  [n \in DOMAIN firsts |-> s[firsts[n]]]

(* A list without repetitions.                                             *)
Distinct(s) == \A m, n \in DOMAIN s : s[m] = s[n] => m = n
=============================================================================
