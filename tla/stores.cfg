SPECIFICATION StoresSpec
CONSTANTS
  Verifiers = {v1, v2}
  MaxReports = 2
  GateOrder <- InOrder
  d1 = d1
  d2 = d2
  e1 = e1
  e2 = e2
  e3 = e3
  c1 = c1
  c2 = c2
  c3 = c3
  c4 = c4
  home = home
  abroad = abroad
  Documents = {d1, d2}
  Elements = {e1, e2, e3}
  Jurisdictions = {home, abroad}
  Children = {c1, c2, c3, c4}
  Threads = {t1, t2}
  JurisdictionOf <- HomeAndAbroad
  DocOf <- TwoAndOne
  ElementOf <- LastIsCut
  TopInitial = 2
  TopK = 1
  OverFetch = 2
  MaxIndexings = 3
  MaxQueries = 1
  MaxRestarts = 1
SYMMETRY SymmetricStores
INVARIANTS OwnJurisdictionOnly RegisteredIsSearchable ReadBackIsNewest
PROPERTIES SmallStoreIsComplete NeverReadsOlder
CHECK_DEADLOCK FALSE
