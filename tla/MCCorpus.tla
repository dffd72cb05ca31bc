------------------------------ MODULE MCCorpus ------------------------------
(***************************************************************************)
(* Small instances of Corpus for TLC, and a statement of a comment of its  *)
(* code that the code does not satisfy.                                    *)
(***************************************************************************)
EXTENDS Corpus, TLC

CONSTANTS old, new, file, url, doc, law

Local(d)     == [id |-> d, local |-> TRUE, place |-> file, pin |-> NoPin]
Online(d, p) == [id |-> d, local |-> FALSE, place |-> url, pin |-> p]
Nowhere(d)   == [id |-> d, local |-> FALSE, place |-> NoPlace, pin |-> NoPin]

(* The new version has lost an element of the old one.                     *)
MCElementsOf == (old :> {1, 2}) @@ (new :> {1})

(* A URL before a file; a pinned URL and a file under one id; an entry     *)
(* without a source; no registry.                                          *)
MCRegistries ==
  {<<Online(law, NoPin), Local(doc)>>, <<Online(doc, old), Local(doc)>>,
   <<Nowhere(law), Local(doc)>>, Missing}

MCOneFile == {<<Local(doc)>>}

Symmetric == Permutations(Ingestors)

(* cache.py:43-44, "a crash mid-write never leaves a torn cache entry that *)
(* masquerades as the real bytes": where nobody is writing them any more,  *)
(* the bytes of an entry are whole.                                        *)
NoTornEntry == \A b \in Bytes : bin[b] = "torn" => Writing(b) # {}
=============================================================================
