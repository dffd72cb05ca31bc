CONSTANTS
  t = t
  Terms <- MCTerms
  NoTerm = NoTerm
  Documents <- MCDocuments
  MaxDepth = 2
  MaxExtractions = 1
  Claims <- AnyClaims
  Relevant <- OurClaims
  CorpusDocs <- Papers4
  TypeOf <- KindOf
  HitIds <- Elements4
  NamedIn <- Containing
  QuotedIn <- Quoting
  GoldSets <- SomeGoldSets
  Manifests <- SomeManifests
  BadManifest = BadManifest
  Default <- TwoKinds
  Authorities <- TwoAuthorities
  Unknown = Unknown
  Runs <- Handed
  LengthOf <- ClauseSizes
  StartOf <- ClauseStarts
  DecimalIds = {"6.1", "6.2"}
  KnownItems <- SomeItemsKnown
  NoFile = NoFile
  Torn = Torn
  MaxAttempts = 2
  Vocabulary <- SomeWords
  Rubric <- Descriptions
  Keywords <- SomeKeywords
  Cues <- SomeCues
  Spellings <- Spelt
  Examples <- SomeShots
  MaxShots = 2
  ScoredClaims <- SomeClaims
  IndicatorOf <- AboutOf
  PillarIds = {"six", "seven"}
  BandOf <- Scale
  Findings <- SomeFindings
  Scorers = {"w1", "w2"}
  Missing = Missing
  MaxScorings = 3
  Items <- SomeItems
  Predictions <- SomeRecords
  JurisdictionOf <- PlaceOf
  Normal <- Spelling
  NoClaim = "no_claim"
  MaxGold = 2
  MaxRecords = 3
  MaxReviews = 2
  None = None
  SiteUrls <- AllUrls
  Seed = "seed"
  Home <- AtHome
  Legal <- LegalUrls
  Terminal = {"act"}
  Sites <- SomeSites
  Listing <- SortedUrls
  PageBudget = 3
  BlockKinds = {"chapter", "section", "paragraph", "blank", "list_item", "table"}
  Texts <- SomeTexts
  Papers <- SomePapers
  Layouts <- SomeLayouts
  Unavailable = None
  Likeness <- AsLike
  Attempts = 3
  TextLength = 10
  TargetSizes = {1, 3, 4, 6}
  OverlapSizes = {0, 1, 2, 3}
  HitLists <- SomeHits
  Indicators <- ChoicesOf
  Stored <- KnownClauses
  DefinitionIds <- DefiningClauses
  DocumentOf <- TheLaw
  SizeOf <- LengthIs
  Answers <- SomeAnswers
  NoAnswer = None
  SampleCount = 3
SPECIFICATION StagesSpec
INVARIANTS
  ListedOnce RegimeIsBall CutsCoverWords CrawlIsExact OutlineIsSound
  ClaimsAreWarranted AbsenceIsEarned RoutesAgree HarnessIsExact EvaluatorIsSound SubmissionIsWhole
PROPERTIES KnowledgeNeverHurts BandFollowsFindings
CHECK_DEADLOCK FALSE
