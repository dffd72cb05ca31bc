CONSTANTS
  e1 = e1
  e2 = e2
  doc = doc
  a = a
  b = b
  Absent = Absent
  Elements = {e1}
  Documents = {doc}
  DocOf <- MCDocOf
  Words = {a, b}
  Texts <- MCTexts
  MentionChoices <- MCMentionChoices
  Samples = 1
  Lenses = {}
  Advisers = {}
  KgEnabled = FALSE
  MaxExtractions = 1
SPECIFICATION Spec
INVARIANT CitesWhatWasRead
CHECK_DEADLOCK FALSE
