------------------------------- MODULE Chunker -------------------------------
(***************************************************************************)
(* chunk_text: how an element's text is cut into overlapping child chunks  *)
(* of about targetSize characters, on word boundaries.  One step is one    *)
(* iteration of its loop.                                                  *)
(*                                                                         *)
(* Of the text, only where its words (maximal runs of non-blanks) start    *)
(* and end matters.                                                        *)
(***************************************************************************)
EXTENDS Filter, Integers, SequencesExt, FiniteSetsExt

CONSTANTS
  TextLength,               (* bound on the length of a text               *)
  TargetSizes, OverlapSizes

ASSUME ChunkerAssumption ==
  TextLength \in Nat /\ TargetSizes \subseteq Nat \ {0} /\ OverlapSizes \subseteq Nat

VARIABLES
  words,             (* words[n]: first offset and end of the n-th word    *)
  targetSize, overlapSize,
  from,              (* the word the next chunk starts with                *)
  lastStart,         (* offset the last chunk starts at, -1 for none       *)
  cuts,              (* the chunks so far                                  *)
  cutDone

chunkerInput == <<words, targetSize, overlapSize>>
chunkerVars  == <<chunkerInput, from, lastStart, cuts, cutDone>>

-----------------------------------------------------------------------------
(* The words of a text, given which of its characters are blanks: each     *)
(* starts where no blank follows one and ends before the next.             *)
Tokens(blank) ==
  LET n        == Len(blank)
      starts   == Kept([p \in 1..n |-> p], {p \in 1..n : ~blank[p] /\ (p = 1 \/ blank[p - 1])})
      After(p) == Min({n + 1} \cup {q \in p..n : blank[q]})
  IN  [k \in DOMAIN starts |-> [start |-> starts[k] - 1, end |-> After(starts[k]) - 1]]

ChunkerTypeOK ==
  /\ \A n \in DOMAIN words : words[n].start < words[n].end
  /\ words # <<>> => from \in DOMAIN words
  /\ \A n \in DOMAIN cuts : cuts[n].start < cuts[n].end
  /\ cutDone \in BOOLEAN

ChunkerInit ==
  /\ \E n \in 0..TextLength : \E blank \in [1..n -> BOOLEAN] : words = Tokens(blank)
  /\ targetSize \in TargetSizes /\ overlapSize \in {o \in OverlapSizes : o < targetSize}
  /\ from = 1 /\ lastStart = -1 /\ cuts = <<>>
  /\ cutDone = (words = <<>>)

(* The last word of the chunk: as many as fit, and at least one.           *)
LastWord ==
  Max({from} \cup {j \in from..Len(words) : words[j].end - words[from].start <= targetSize})

(* Mutant: the walk back may reach the word the chunk starts with.         *)
NextWordAgain(j) ==
  Min({j + 1} \cup {k \in from..j : words[k].start + overlapSize >= words[j].end})

(* The word the next chunk starts with: the first one, after the start of  *)
(* this chunk, that starts at or after the end less the overlap.  (The     *)
(* docstring has it start at the last word boundary at or before that; the *)
(* code does so only where a word starts at the very offset.)              *)
NextWord(j) ==
  Min({j + 1} \cup {k \in (from + 1)..j : words[k].start + overlapSize >= words[j].end})

Cut ==
  LET j == LastWord
  IN  /\ ~cutDone
      /\ cuts' = Append(cuts, [start |-> words[from].start, end |-> words[j].end])
      /\ IF words[from].start = lastStart \/ j = Len(words)
           THEN cutDone' = TRUE /\ UNCHANGED from
           ELSE from' = NextWord(j) /\ UNCHANGED cutDone
      /\ lastStart' = words[from].start
      /\ UNCHANGED chunkerInput

ChunkerSpec == ChunkerInit /\ [][Cut]_chunkerVars

-----------------------------------------------------------------------------
(* Nothing of the text is lost to the index when the loop ends: every word *)
(* is, whole, in some chunk, and a chunk longer than the target is a       *)
(* single word.  On the way each chunk starts after the one before it,     *)
(* ends no earlier, and shares at most `overlap` characters with it: the   *)
(* bound that the loop keeps to, and not the one of its docstring, by      *)
(* which a chunk would share no less where the text allows it (chunk_text).*)
CutsCoverWords ==
  /\ cutDone =>
       /\ \A n \in DOMAIN words : \E c \in DOMAIN cuts :
            cuts[c].start <= words[n].start /\ words[n].end <= cuts[c].end
       /\ \A c \in DOMAIN cuts :
            cuts[c].end - cuts[c].start <= targetSize
              \/ \E n \in DOMAIN words : words[n] = cuts[c]
  /\ \A c \in 2..Len(cuts) :
       /\ cuts[c].start > cuts[c - 1].start /\ cuts[c].end >= cuts[c - 1].end
       /\ cuts[c].start + overlapSize >= cuts[c - 1].end
=============================================================================
