CONSTANTS
  c1 = c1
  c2 = c2
  r1 = r1
  r2 = r2
  w1 = w1
  w2 = w2
  ind = ind
  pillar = pillar
  NoRun = NoRun
  Workers = {w1, w2}
  Runs = {r1}
  Claims = {c1}
  Indicators = {ind}
  Pillars = {pillar}
  IndicatorOf <- MCIndicatorOf
  PillarOf <- MCPillarOf
  HitlModes = {TRUE}
  Decisions = {}
  MaxPosts = 2
  MaxResumes = 1
  MaxCrashes = 0
SPECIFICATION FairSpec
PROPERTIES AlwaysAnswered
CHECK_DEADLOCK FALSE
