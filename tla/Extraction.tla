----------------------------- MODULE Extraction -----------------------------
(***************************************************************************)
(* Reading a PDF or HTML document into elements: the adapter the router    *)
(* picks, the walk over blocks with the chapter and section in force, the  *)
(* page-by-page transcription of scans with its retries, and the merge of  *)
(* PyMuPDF's text with Docling's layout.  Plain text is in StructureGraph. *)
(*                                                                         *)
(* A block is its kind, its number (0 if none), its text and its page; it  *)
(* is one character long.                                                  *)
(***************************************************************************)
EXTENDS Filter, Integers, SequencesExt, FiniteSetsExt

CONSTANTS
  BlockKinds, Texts,
  Papers,      (* [suffix, magic, scan, blocks, pageCount]: scan if a hint *)
               (* has the letters "scanned" or "ocr"; blocks page by page  *)
  Layouts,     (* what Docling may make of a PDF: blocks, or Unavailable   *)
  Unavailable,
  Likeness,    (* Likeness[t][u]: likeness of two texts in tenths          *)
  Attempts     (* requests per page                                        *)

Headings == {"chapter", "section"}
Block    == [kind : BlockKinds, number : Nat, text : Texts, page : Nat]

ASSUME ExtractionAssumption ==
  /\ Attempts \in Nat \ {0} /\ Headings \cup {"paragraph", "blank"} \subseteq BlockKinds
  /\ "empty" \notin BlockKinds /\ "" \in Texts
  /\ \A l \in Layouts \ {Unavailable} : l \in Seq(Block)
  /\ \A p \in Papers :
       /\ p.suffix \in {"pdf", "html", "txt", "none"} /\ p.magic \in {"pdf", "html", "none"}
       /\ p.scan \in BOOLEAN /\ p.pageCount \in Nat /\ p.blocks \in Seq(Block)
       /\ \A n \in DOMAIN p.blocks : p.blocks[n].page \in 1..p.pageCount
       /\ \A m, n \in DOMAIN p.blocks : m < n => p.blocks[m].page <= p.blocks[n].page

(* Ids are made of a number, or of a place: the page (scans) and a count.  *)
ElementIds ==
  [by : {"none", "number", "place"}, kind : BlockKinds \cup {"empty"}, page : Nat, at : Nat]
NoElement  == [by |-> "none", kind |-> "empty", page |-> 0, at |-> 0]

Extracted == [id : ElementIds, kind : BlockKinds, number : Nat, text : Texts,
              parent : ElementIds, page : Nat, start : Nat, end : Nat]

(* What a walk keeps: its result, the headings in force, where it is.      *)
Outline ==
  [elements : Seq(Extracted), chapter : ElementIds, section : ElementIds, offset : Nat, index : Nat]
OutlineStart ==
  [elements |-> <<>>, chapter |-> NoElement, section |-> NoElement, offset |-> 0, index |-> 0]

VARIABLES
  paper, useVlm,  (* the document, whether the model for scans is enabled  *)
  adapter,
  pageNo, tries,  (* the page to transcribe, its failed requests           *)
  outline,        (* the walk over the pages so far                        *)
  extracted,      (* the result                                            *)
  reading         (* "pick", "read", "done", "failed"                      *)

extractionVars == <<paper, useVlm, adapter, pageNo, tries, outline, extracted, reading>>

ExtractionTypeOK ==
  /\ paper \in Papers /\ useVlm \in BOOLEAN
  /\ adapter \in {"none", "vlm", "stub", "pdf", "html", "text"}
  /\ pageNo \in 1..(paper.pageCount + 1) /\ tries \in 0..Attempts
  /\ outline \in Outline /\ extracted \in Seq(Extracted)
  /\ reading \in {"pick", "read", "done", "failed"}

ExtractionInit ==
  /\ paper \in Papers /\ useVlm \in BOOLEAN
  /\ adapter = "none" /\ pageNo = 1 /\ tries = 0 /\ outline = OutlineStart /\ extracted = <<>>
  /\ reading = "pick"

-----------------------------------------------------------------------------
(* pick_adapter: the hint of a scan, then the suffix, then the first bytes.*)
PickAdapter ==
  LET kind == IF paper.suffix = "none" THEN paper.magic ELSE paper.suffix
  IN  IF paper.scan THEN (IF useVlm THEN "vlm" ELSE "stub")
      ELSE IF kind \in {"pdf", "html"} THEN kind ELSE "text"

IdOf(b, page, at) ==
  IF b.number # 0 THEN [by |-> "number", kind |-> b.kind, page |-> 0, at |-> b.number]
  ELSE [by |-> "place", kind |-> b.kind, page |-> page, at |-> at]

ElementOf(b, id, parent, offset) ==
  [id |-> id, kind |-> b.kind, number |-> b.number, text |-> b.text, parent |-> parent,
   page |-> b.page, start |-> offset, end |-> offset + 1]

(* Under the section in force, or else the chapter.                        *)
Under(w) == IF w.section # NoElement THEN w.section ELSE w.chapter

(* Mutant: a chapter leaves the section of the last one in force.          *)
NestedKept(w, b, idPage, gap) ==
  LET id == IdOf(b, idPage, w.index)
      parent == CASE b.kind = "chapter" -> NoElement
                  [] b.kind = "section" -> w.chapter
                  [] OTHER              -> Under(w)
  IN  [elements |-> Append(w.elements, ElementOf(b, id, parent, w.offset)),
       chapter  |-> IF b.kind = "chapter" THEN id ELSE w.chapter,
       section  |-> IF b.kind = "section" THEN id ELSE w.section,
       offset   |-> w.offset + 1 + gap,
       index    |-> w.index + 1]

(* PyMuPdfExtractor and VlmOcrExtractor: sections under the chapter.       *)
Nested(w, b, idPage, gap) ==
  LET id == IdOf(b, idPage, w.index)
      parent == CASE b.kind = "chapter" -> NoElement
                  [] b.kind = "section" -> w.chapter
                  [] OTHER              -> Under(w)
  IN  [elements |-> Append(w.elements, ElementOf(b, id, parent, w.offset)),
       chapter  |-> IF b.kind = "chapter" THEN id ELSE w.chapter,
       section  |-> IF b.kind = "chapter" THEN NoElement
                    ELSE IF b.kind = "section" THEN id ELSE w.section,
       offset   |-> w.offset + 1 + gap,
       index    |-> w.index + 1]

(* HtmlExtractor and DoclingExtractor: all under the last heading.         *)
Flat(w, b) ==
  LET id == IdOf(b, 0, w.index)
      parent == IF b.kind \in Headings THEN NoElement ELSE w.section
  IN  [w EXCEPT !.elements = Append(@, ElementOf(b, id, parent, w.offset)),
                !.section  = IF b.kind \in Headings THEN id ELSE @,
                !.offset   = @ + 2,
                !.index    = @ + 1]

(* One block.  Blank ones count for the offset of a PDF only.              *)
ReadBlock(how, w, b) ==
  CASE how = "pdf" /\ b.kind = "blank"  -> [w EXCEPT !.offset = @ + 1]
    [] how = "pdf" /\ b.kind # "blank"  -> Nested(w, b, 0, 0)
    [] how = "scan"                     -> Nested(w, b, b.page, 2)
    [] how = "flat" /\ b.kind = "blank" -> w
    [] how = "flat" /\ b.kind # "blank" -> Flat(w, b)

(* ReadBlocks(how, w, bs)[n]: the walk from w after n of the blocks.       *)
ReadBlocks(how, w, bs) ==
  LET walked[n \in 0..Len(bs)] == IF n = 0 THEN w ELSE ReadBlock(how, walked[n - 1], bs[n])
  IN  walked

ReadAll(how, w, bs) == ReadBlocks(how, w, bs)[Len(bs)]

(* HtmlExtractor: everything is on page one.                               *)
OnePage(bs) == [n \in DOMAIN bs |-> [bs[n] EXCEPT !.page = 1]]

(* A page without text leaves an empty element.                            *)
Blank(w, page) ==
  LET b    == [kind |-> "paragraph", number |-> 0, text |-> "", page |-> page]
      id   == [by |-> "place", kind |-> "empty", page |-> page, at |-> 0]
      mark == [ElementOf(b, id, Under(w), w.offset) EXCEPT !.end = w.offset]
  IN  [w EXCEPT !.elements = Append(@, mark), !.index = @ + 1]

(* VlmOcrExtractor, one page.                                              *)
ReadPage(w, bs, page) == IF bs = <<>> THEN Blank(w, page) ELSE ReadAll("scan", w, bs)

TextOn(page) == Kept(paper.blocks, {b \in ToSet(paper.blocks) : b.page = page /\ b.kind # "blank"})

(* _best_docling_match: the first of the likest of the page, from 0.3 on.  *)
Best(e, layout) ==
  LET Score(k) == Likeness[e.text][layout[k].text]
  IN  {k \in DOMAIN layout :
         /\ layout[k].page = e.page /\ Score(k) >= 3
         /\ \A j \in DOMAIN layout : layout[j].page = e.page => Score(j) <= Score(k)}

Enriched(e, d) ==
  [e EXCEPT !.kind   = IF d.kind = "paragraph" THEN @ ELSE d.kind,
            !.parent = IF d.parent = NoElement THEN @ ELSE d.parent,
            !.number = IF @ = 0 THEN d.number ELSE @]

(* _merge_pymupdf_text_docling_structure                                   *)
Merged(e, layout) ==
  IF Best(e, layout) = {} THEN e ELSE Enriched(e, layout[Min(Best(e, layout))])

Merge(pdf, layout) == [n \in DOMAIN pdf |-> Merged(pdf[n], layout)]

-----------------------------------------------------------------------------
Pick ==
  /\ reading = "pick"
  /\ adapter' = PickAdapter
  /\ reading' = IF adapter' = "text" THEN "done" ELSE "read"
  /\ UNCHANGED <<paper, useVlm, pageNo, tries, outline, extracted>>

(* BornDigitalPdfExtractor: the text layer, with Docling's layout if there *)
(* is one.                                                                 *)
ReadPdf(layout) ==
  /\ reading = "read" /\ adapter = "pdf"
  /\ outline' = ReadAll("pdf", OutlineStart, paper.blocks)
  /\ extracted' = IF layout \in {Unavailable, <<>>} THEN outline'.elements
                  ELSE Merge(outline'.elements, ReadAll("flat", OutlineStart, layout).elements)
  /\ reading' = "done"
  /\ UNCHANGED <<paper, useVlm, adapter, pageNo, tries>>

ReadHtml ==
  /\ reading = "read" /\ adapter = "html"
  /\ outline' = ReadAll("flat", OutlineStart, OnePage(paper.blocks))
  /\ extracted' = outline'.elements
  /\ reading' = "done"
  /\ UNCHANGED <<paper, useVlm, adapter, pageNo, tries>>

(* ScannedNotEnabledExtractor                                              *)
ReadStub ==
  /\ reading = "read" /\ adapter = "stub"
  /\ extracted' = Blank(OutlineStart, 1).elements
  /\ reading' = "done"
  /\ UNCHANGED <<paper, useVlm, adapter, pageNo, tries, outline>>

(* The model reads a page, or reads nothing on it.                         *)
Transcribe(legible) ==
  /\ reading = "read" /\ adapter = "vlm" /\ pageNo <= paper.pageCount
  /\ outline' = ReadPage(outline, IF legible THEN TextOn(pageNo) ELSE <<>>, pageNo)
  /\ pageNo' = pageNo + 1 /\ tries' = 0
  /\ UNCHANGED <<paper, useVlm, adapter, extracted, reading>>

(* The last failed request of a page fails the document.                   *)
TranscribeFails ==
  /\ reading = "read" /\ adapter = "vlm" /\ pageNo <= paper.pageCount
  /\ tries' = tries + 1
  /\ reading' = IF tries' = Attempts THEN "failed" ELSE reading
  /\ UNCHANGED <<paper, useVlm, adapter, pageNo, outline, extracted>>

EndScan ==
  /\ reading = "read" /\ adapter = "vlm" /\ pageNo > paper.pageCount
  /\ extracted' = outline.elements /\ reading' = "done"
  /\ UNCHANGED <<paper, useVlm, adapter, pageNo, tries, outline>>

(* The library cannot open the file.                                       *)
Unreadable ==
  /\ reading = "read" /\ adapter \in {"pdf", "vlm"} /\ pageNo = 1 /\ tries = 0
  /\ reading' = "failed"
  /\ UNCHANGED <<paper, useVlm, adapter, pageNo, tries, outline, extracted>>

ExtractionNext ==
  \/ Pick \/ ReadHtml \/ ReadStub \/ TranscribeFails \/ EndScan \/ Unreadable
  \/ \E l \in Layouts : ReadPdf(l)
  \/ \E legible \in BOOLEAN : Transcribe(legible)

ExtractionSpec == ExtractionInit /\ [][ExtractionNext]_extractionVars

-----------------------------------------------------------------------------
(* However a document is read, its elements follow one another without     *)
(* overlap; two with one id are headings of one number; every page of a    *)
(* scan has left one, even where the model read nothing; and the walk puts *)
(* an element under an earlier heading of the chapter in force only        *)
(* (the extractors' loops).                                                *)
OutlineIsSound ==
  /\ \A j, k \in DOMAIN extracted : j < k =>
       /\ extracted[j].end <= extracted[k].start /\ extracted[j].page <= extracted[k].page
       /\ extracted[j].id = extracted[k].id => extracted[j].id.by = "number"
  /\ \A k \in DOMAIN outline.elements :
       LET e == outline.elements[k]
       IN  e.parent # NoElement =>
             \E i \in 1..(k - 1) :
               /\ outline.elements[i].id = e.parent /\ outline.elements[i].kind \in Headings
               /\ \A j \in (i + 1)..(k - 1) : outline.elements[j].kind # "chapter"
  /\ reading = "done" /\ adapter = "vlm" => {e.page : e \in ToSet(extracted)} = 1..paper.pageCount
=============================================================================
