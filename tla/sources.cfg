CONSTANTS
  old = old
  new = new
  file = file
  url = url
  doc = doc
  law = law
  Contents = {old, new}
  Places = {file, url}
  Ids = {doc, law}
  Numbers = {1, 2}
  ElementsOf <- MCElementsOf
  Registries <- MCRegistries
  Missing = Missing
  NoPlace = NoPlace
  NoPin = NoPin
  Absent = Absent
  NoBytes = NoBytes
  Ingestors = {w1, w2}
  MaxAttempts = 2
  MaxStarts = 2
  MaxChanges = 1
  MaxCrashes = 1
  u1 = u1
  u2 = u2
  u3 = u3
  u4 = u4
  u5 = u5
  host = host
  Urls = {u1, u2, u3, u4, u5}
  Hosts = {host}
  HostOf <- MCHostOf
  Seeds <- MCSeeds
  InScope = {u1, u2, u3, u4, u5}
  Disallowed <- MCU4
  Malformed <- MCU5
  Bodies <- MCBodies
  InitialWebs <- MCGraphs
  NoPage = NoPage
  DepthLimit = 2
  MaxPages = 4
  MaxCrawls = 2
  MaxWebChanges = 1
SPECIFICATION SourcesSpec
SYMMETRY Symmetric
INVARIANTS TornNeedsRace FinishedRunIsStored LocalSourcesAreRead
  QuietCrawlFindsAll ProposesOnlyChanges KnownIsProposed
CHECK_DEADLOCK FALSE
