CONSTANTS
  old = old
  new = new
  file = file
  url = url
  doc = doc
  law = law
  Contents = {old, new}
  Places = {file, url}
  Ids = {doc, law}
  Numbers = {1, 2}
  ElementsOf <- MCElementsOf
  Registries <- MCOneFile
  Missing = Missing
  NoPlace = NoPlace
  NoPin = NoPin
  Absent = Absent
  NoBytes = NoBytes
  Ingestors = {w1, w2}
  MaxAttempts = 1
  MaxStarts = 2
  MaxChanges = 0
  MaxCrashes = 1
SPECIFICATION Spec
INVARIANTS NoTornEntry
CHECK_DEADLOCK FALSE
