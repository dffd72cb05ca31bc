--------------------------- MODULE MCVerification ---------------------------
(***************************************************************************)
(* Small instances of Verification for TLC, and a statement of the         *)
(* repository's documents that its code does not satisfy.                  *)
(***************************************************************************)
EXTENDS Verification

CONSTANTS e1, e2, doc, a, b

MCDocOf == [e \in Elements |-> doc]

(* The empty text, a text of one word and a longer one that does not begin *)
(* with it.                                                                *)
MCTexts == {<<>>, <<a>>, <<b, a>>}

(* A claim about nothing nameable, and one that names the word a.          *)
MCMentionChoices == {{}, {a}}

(* systemArchitecture.md:428, the verbatim gate "makes a wrong citation    *)
(* impossible": a verified claim cites what the classifier was shown.      *)
CitesWhatWasRead ==
  pc = "done" /\ status = "verified" =>
    \A i \in DOMAIN spans : citation[i] = prompt[spans[i].element]
=============================================================================
