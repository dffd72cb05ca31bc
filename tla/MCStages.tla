------------------------------ MODULE MCStages ------------------------------
(***************************************************************************)
(* The stages that keep their state to themselves, on small instances and  *)
(* side by side: a behaviour is one of Regime's, or one of another stage,  *)
(* while Regime stays as it is without a document.                         *)
(*                                                                         *)
(* A stage that is not under way stays as it starts.                       *)
(***************************************************************************)
EXTENDS MCRegime, SourceCrawler, Extraction, Chunker, Classification,
        Coverage, Submission, Scoring, Recommendations, Evaluation, TLC

CONSTANT None

VARIABLE stage

Readings  == <<siteCrawlerVars, extractionVars, chunkerVars, classificationVars>>
Reports   == <<coverageVars, submissionVars, scoringVars, recommendationVars, evaluationVars>>
stageVars == <<vars, Readings, Reports, stage>>

-----------------------------------------------------------------------------
(* A site of pages that link to each other; the act is a document legal by *)
(* its URL, the gazette a page legal by the text of a link.                *)
AtHome    == {"seed", "index", "act", "gazette", "annex"}
AllUrls   == AtHome \cup {"abroad"}
LegalUrls == {"act", "abroad"}
SortedUrls == <<"abroad", "act", "annex", "gazette", "index", "seed">>

To(u)    == [url |-> u, legal |-> FALSE]
Named(u) == [url |-> u, legal |-> TRUE]

LinksOf(fromSeed, fromIndex) ==
  [u \in AllUrls |->
     CASE u = "seed" -> fromSeed [] u = "index" -> fromIndex
       [] u = "gazette" -> <<To("act"), To("annex")>>
       [] u = "annex" -> <<Named("seed")>> [] OTHER -> <<>>]
QuietSite == [links |-> [u \in AllUrls |-> <<>>], html |-> {}, disallowed |-> {}, locs |-> <<>>]
SomeSites ==
  {[links |-> LinksOf(s, i), html |-> {"seed", "index", "gazette", "annex"}, disallowed |-> d, locs |-> l] :
     s \in {<<To("index"), To("act"), To("abroad")>>, <<To("index"), To("index"), Named("gazette")>>},
     i \in {<<>>, <<To("seed"), Named("gazette"), To("gazette")>>, <<To("act"), Named("index")>>},
     d \in {{}, {"act"}, {"index"}, {"gazette"}},
     l \in {<<>>, <<"abroad", "act", "act">>, <<"index">>}}
    \cup {QuietSite}

-----------------------------------------------------------------------------
(* Three pages with two chapters, a section number used twice, blank       *)
(* blocks and a page of one text; layouts Docling may make of it, or none. *)
Laid(k, n, x, p) == [kind |-> k, number |-> n, text |-> x, page |-> p]
Para(x, p)       == Laid("paragraph", 0, x, p)

SomeBlocks ==
  <<Para("t1", 1), Laid("chapter", 1, "t2", 1), Laid("section", 1, "t3", 1), Para("t4", 1),
    Laid("blank", 0, "t1", 2), Para("t1", 2), Laid("chapter", 0, "t4", 2), Para("t2", 2),
    Laid("section", 1, "t3", 2), Para("t4", 3)>>
Paper(s, m, c) == [suffix |-> s, magic |-> m, scan |-> c, blocks |-> SomeBlocks, pageCount |-> 3]
SomePapers ==
  {Paper(s, m, c) : s \in {"pdf", "html", "txt", "none"}, m \in {"pdf", "html", "none"}, c \in BOOLEAN}

SomeLayouts ==
  {None, <<>>,
   <<Laid("section", 2, "t2", 1), Laid("paragraph", 0, "t4", 1), Laid("section", 1, "t3", 2),
     Laid("list_item", 0, "t2", 2)>>,
   <<Laid("paragraph", 0, "t1", 1), Laid("chapter", 0, "t3", 1), Laid("table", 0, "t4", 3)>>}
SomeTexts == {"", "t1", "t2", "t3", "t4"}
AsLike    ==
  [x \in SomeTexts |->
     [y \in SomeTexts |-> IF x = y THEN 10 ELSE IF x = "t1" /\ y = "t2" THEN 3 ELSE 1]]

-----------------------------------------------------------------------------
(* Two pillars that retrieve a clause both, two elements of one length, an *)
(* element that is not stored.                                             *)
For(p, c) == [pillar |-> p, clause |-> c]
SomeHits ==
  {<<For("six", "e1"), For("six", "gone"), For("seven", "e1"), For("seven", "e2")>>,
   <<For("seven", "e3"), For("six", "e3"), For("six", "e1")>>}
ChoicesOf  == ("six" :> {"flow"}) @@ ("seven" :> {"flow", "consent"})
KnownClauses  == {"e1", "e2", "e3"}
DefiningClauses == {"e2", "e3"}
TheLaw     == [e \in KnownClauses |-> "law"]
LengthIs   == ("e1" :> 40) @@ ("e2" :> 40) @@ ("e3" :> 12)
SomeAnswers ==
  {[ind |-> "flow", evidence |-> <<"e1">>, members |-> <<"e2", "e1", "e2">>],
   [ind |-> "consent", evidence |-> <<"e2", "e3", "gone">>, members |-> <<"e3", "gone">>],
   [ind |-> "flow", evidence |-> <<"gone">>, members |-> <<"gone">>],
   [ind |-> "flow", evidence |-> <<"e1", "e2">>, members |-> <<"e1">>]}

-----------------------------------------------------------------------------
(* Elements of four documents, where the id of d2 contains that of d1, and *)
(* one whose id has the words of a gold item.                              *)
Papers4    == {"d1", "d2", "d3", "d4"}
KindOf     == ("d1" :> "statute") @@ ("d2" :> "statute") @@ ("d3" :> "regulation") @@ ("d4" :> "notice")
Elements4  == {"p1", "p2", "p3", "p4"}
Containing == ("d1" :> {"p1", "p2"}) @@ ("d2" :> {"p2"}) @@ ("d3" :> {"p3"}) @@ ("d4" :> {"p4"})
Quoting    == ("" :> {}) @@ ("words" :> {"p4"})
Of(d)      == [doc |-> d, text |-> ""]
SomeGoldSets ==
  {<<>>, <<Of("d1")>>, <<Of("d1"), Of("d2"), Of("d3"), Of("d4"), Of("d4")>>,
   <<[doc |-> "d3", text |-> "words"], Of("d4")>>}
SomeManifests == {Unknown, BadManifest, {}, {"statute", "regulation", "notice"}}
AnyClaims  == {"claim", "other"}
OurClaims  == {"claim"}
TwoKinds   == {"statute", "regulation"}
TwoAuthorities == {"gazette", "regulator"}

-----------------------------------------------------------------------------
(* Bands with words in common, a keyword of two words, a cue of one, and   *)
(* examples that share words with each other, the cue and the keyword.     *)
SomeWords    == {"ban", "some", "free", "transfer", "personal", "data", "unless", "of"}
Descriptions == ("0" :> {"free", "some"}) @@ ("0.5" :> {"some"}) @@ ("1" :> {"ban"})
SomeKeywords == {"transfer", "personal data"}
SomeCues     == {"unless"}
Spelt ==
  [k \in SomeKeywords \cup SomeCues |-> {IF k = "personal data" THEN {"personal", "data"} ELSE {k}}]
Shot(b, ws)  == [band |-> b, words |-> ws]
SomeShots ==
  {Shot("0", {"of"}), Shot("1", {"ban", "data"}), Shot("0.5", {"ban", "unless", "of"}), Shot("0", {"ban"})}

-----------------------------------------------------------------------------
(* Two pillars that share an indicator and score it differently; runs that *)
(* find the claims with other texts, by other pillars, or no longer.       *)
SomeClaims  == {"c1", "c2", "c3"}
AboutOf     == ("c1" :> "flow") @@ ("c2" :> "consent") @@ ("c3" :> "flow")
Cell(p, i)  == [pillar |-> p, indicator |-> i]
As(x, p)    == [text |-> x, pillar |-> p]
BothPillars == <<Cell("six", "flow"), Cell("six", "consent"), Cell("seven", "consent")>>
OnePillar   == <<Cell("seven", "consent")>>
Scale ==
  [c \in SomeClaims |-> ("old" :> (("six" :> "0") @@ ("seven" :> "0.5")))
                         @@ ("new" :> (("six" :> "1") @@ ("seven" :> "0")))]
Brings(cells, passed, counts, texts) ==
  [cells |-> cells, verified |-> passed, counted |-> counts, found |-> texts]
SomeFindings ==
  {Brings(BothPillars, {"c1", "c2"}, {"c1", "c2"}, [c \in SomeClaims |-> As("old", "six")]),
   Brings(BothPillars, {"c1", "c3"}, {"c3"},
          [c \in SomeClaims |-> As("new", IF c = "c2" THEN "seven" ELSE "six")]),
   Brings(OnePillar, {"c2"}, {"c2"}, "c2" :> As("new", "seven")),
   Brings(OnePillar, {}, {}, "c2" :> As("old", "seven"))}

-----------------------------------------------------------------------------
(* Two spellings of one document, a second of the same jurisdiction and a  *)
(* third of another.                                                       *)
PlaceOf  == [d \in {"a", "A", "b", "z"} |-> IF d = "z" THEN "abroad" ELSE "home"]
Spelling == [d \in {"a", "A", "b", "z"} |-> IF d = "A" THEN "a" ELSE d]

Item(i, d, s) == [ind |-> i, doc |-> d, band |-> s]
Claim(i, ds, s, n, v) == [ind |-> i, cites |-> ds, band |-> s, new |-> n, verified |-> v]

SomeItems == {Item("flow", "a", "1"), Item("flow", "A", "0"), Item("consent", "b", "1"), Item("flow", "z", "0")}
SomeRecords ==
  {Claim("flow", <<"a">>, "1", FALSE, TRUE), Claim("flow", <<"A">>, "0", TRUE, TRUE),
   Claim("consent", <<"a", "b">>, "1", FALSE, FALSE), Claim("consent", <<"b">>, "0", TRUE, FALSE),
   Claim("flow", <<"z">>, "0", TRUE, TRUE)}

-----------------------------------------------------------------------------
(* Claims whose first span is the clause, another element that is longer   *)
(* or shorter, or an element of a clause that is gone; and one without spans.  *)
Found(n, i, e, d, last) ==
  [id |-> n, ind |-> i, clause |-> e, doc |-> d, spanned |-> TRUE, from |-> 0, to |-> last]
Spanless(n, i, e) ==
  [id |-> n, ind |-> i, clause |-> e, doc |-> e, spanned |-> FALSE, from |-> 0, to |-> 0]
ClauseSizes  == ("e1" :> 4) @@ ("e2" :> 6)
ClauseStarts == ("e1" :> 0) @@ ("e2" :> 5)

Handed ==
  LET a == Found("a", "6.1", "e1", "law", 4)   b == Found("b", "6.1", "e1", "act", 6)
      c == Found("c", "6.2", "e2", "law", 4)   d == Found("d", "six", "e2", "law", 6)
      e == Found("e", "6.2", "gone", "law", 4) f == Found("f", "6.2", "e2", "law", 9)
      g == Spanless("g", "6.2", "e2")
      verdicts(x, y, z) ==
        ("a" :> x) @@ ("b" :> y) @@ ("c" :> z) @@ ("d" :> y) @@ ("e" :> x) @@ ("f" :> z) @@ ("g" :> y)
  IN  {[claims |-> cs, status |-> s, listed |-> l[1], linked |-> l[2], gold |-> known] :
         cs \in {<<a, b, c>>, <<f, d>>, <<e, c>>, <<b, g>>, <<>>},
         s \in {verdicts("verified", "flagged", "pending"), verdicts("rejected", "verified", "flagged"),
                verdicts("flagged", "rejected", "rejected")},
         l \in {<<{"law", "act"}, {"law", "act"}>>, <<{"law"}, {"law", "act"}>>, <<{"law", "act"}, {"law"}>>},
         known \in BOOLEAN}
SomeItemsKnown ==
  {[ind |-> "6.1", doc |-> "law", text |-> {<<"e2", 1>>}],
   [ind |-> "6.2", doc |-> "bill", text |-> {<<"e2", i>> : i \in 1..6}]}

-----------------------------------------------------------------------------
(* Where each stage is when another one is under way.                      *)
NoRegime   == Init /\ doc = <<>>
NoCrawl    == site = QuietSite /\ respect = FALSE /\ SiteCrawlerInit
NoReading  == paper = Paper("txt", "none", FALSE) /\ useVlm = FALSE /\ ExtractionInit
NoCuts     ==
  /\ words = <<>> /\ targetSize = 3 /\ overlapSize = 0 /\ from = 1 /\ lastStart = -1
  /\ cuts = <<>> /\ cutDone = TRUE
NoClassify == offered = <<For("seven", "e3"), For("six", "e3"), For("six", "e1")>> /\ ClassificationInit
NoCoverage == goldSet = <<>> /\ manifest = Unknown /\ enabled = FALSE /\ CoverageInit
NoScoring  == tokens = {"of"} /\ sharesPattern = FALSE /\ conditional = FALSE /\ ScoringInit

StagesInit ==
  /\ SubmissionInit /\ RecommendationsInit /\ EvaluationInit
  /\ \/ /\ NoCoverage /\ NoScoring
        /\ \/ stage \in {"submit", "recommend", "eval"} /\ NoRegime /\ NoCrawl /\ NoReading /\ NoCuts /\ NoClassify
           \/ stage = "regime" /\ Init /\ NoCrawl /\ NoReading /\ NoCuts /\ NoClassify
           \/ stage = "crawl" /\ SiteCrawlerInit /\ NoRegime /\ NoReading /\ NoCuts /\ NoClassify
           \/ stage = "reading" /\ ExtractionInit /\ NoRegime /\ NoCrawl /\ NoCuts /\ NoClassify
           \/ stage = "cuts" /\ ChunkerInit /\ NoRegime /\ NoCrawl /\ NoReading /\ NoClassify
           \/ stage = "classify" /\ ClassificationInit /\ NoRegime /\ NoCrawl /\ NoReading /\ NoCuts
     \/ /\ NoRegime /\ NoCrawl /\ NoReading /\ NoCuts /\ NoClassify
        /\ \/ stage = "coverage" /\ CoverageInit /\ NoScoring
           \/ stage = "score" /\ ScoringInit /\ NoCoverage

RegimeStep   == stage = "regime" /\ Next /\ UNCHANGED <<Readings, Reports, stage>>
CrawlStep    ==
  /\ stage = "crawl" /\ SiteCrawlerNext
  /\ UNCHANGED <<vars, extractionVars, chunkerVars, classificationVars, Reports, stage>>
ReadingStep  ==
  /\ stage = "reading" /\ ExtractionNext
  /\ UNCHANGED <<vars, siteCrawlerVars, chunkerVars, classificationVars, Reports, stage>>
CutsStep     ==
  /\ stage = "cuts" /\ Cut
  /\ UNCHANGED <<vars, siteCrawlerVars, extractionVars, classificationVars, Reports, stage>>
ClassifyStep ==
  /\ stage = "classify" /\ ClassificationNext
  /\ UNCHANGED <<vars, siteCrawlerVars, extractionVars, chunkerVars, Reports, stage>>
CoverageStep ==
  /\ stage = "coverage" /\ CoverageNext
  /\ UNCHANGED <<vars, Readings, submissionVars, scoringVars, recommendationVars,
                 evaluationVars, stage>>
SubmitStep   ==
  /\ stage = "submit" /\ SubmissionNext
  /\ UNCHANGED <<vars, Readings, coverageVars, scoringVars, recommendationVars,
                 evaluationVars, stage>>
ScoreStep    ==
  /\ stage = "score" /\ ScoringNext
  /\ UNCHANGED <<vars, Readings, coverageVars, submissionVars, recommendationVars,
                 evaluationVars, stage>>
RecommendStep ==
  /\ stage = "recommend" /\ RecommendationsNext
  /\ UNCHANGED <<vars, Readings, coverageVars, submissionVars, scoringVars, evaluationVars, stage>>
EvalStep     ==
  /\ stage = "eval" /\ EvaluationNext
  /\ UNCHANGED <<vars, Readings, coverageVars, submissionVars, scoringVars,
                 recommendationVars, stage>>

StagesNext ==
  \/ RegimeStep \/ CrawlStep \/ ReadingStep \/ CutsStep \/ ClassifyStep
  \/ CoverageStep \/ SubmitStep \/ ScoreStep \/ RecommendStep \/ EvalStep

StagesSpec == StagesInit /\ [][StagesNext]_stageVars
=============================================================================
