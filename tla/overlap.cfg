CONSTANTS
  c1 = c1
  c2 = c2
  r1 = r1
  r2 = r2
  w1 = w1
  w2 = w2
  ind = ind
  pillar = pillar
  NoRun = NoRun
  Workers = {w1, w2}
  Runs = {r1, r2}
  Claims = {c1}
  Indicators = {ind}
  Pillars = {pillar}
  IndicatorOf <- MCIndicatorOf
  PillarOf <- MCPillarOf
  HitlModes = {TRUE, FALSE}
  Decisions = {}
  MaxPosts = 2
  MaxResumes = 2
  MaxCrashes = 1
SPECIFICATION Spec
SYMMETRY Symmetric
INVARIANTS StoreInv VerifiedIsWarranted Layer2NeedsGates ReviewBeforeCoverage
PROPERTIES PromotionNeedsFlag LifecycleSpec
CHECK_DEADLOCK FALSE
