CONSTANTS
  c1 = c1
  c2 = c2
  r1 = r1
  r2 = r2
  w1 = w1
  w2 = w2
  ind = ind
  pillar = pillar
  NoRun = NoRun
  Workers = {w1}
  Runs = {r1}
  Claims = {c1}
  Indicators = {ind}
  Pillars = {pillar}
  IndicatorOf <- MCIndicatorOf
  PillarOf <- MCPillarOf
  HitlModes = {TRUE}
  Decisions = {}
  MaxPosts = 1
  MaxResumes = 0
  MaxCrashes = 0
SPECIFICATION Spec
INVARIANTS EvidenceFoundWhenVerified
CHECK_DEADLOCK FALSE
