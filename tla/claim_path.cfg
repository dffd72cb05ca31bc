CONSTANTS
  e1 = e1
  e2 = e2
  doc = doc
  a = a
  b = b
  Absent = Absent
  Elements = {e1, e2}
  Documents = {doc}
  DocOf <- MCDocOf
  Words = {a, b}
  Texts <- MCTexts
  MentionChoices <- MCMentionChoices
  Samples = 2
  Lenses = {"l1", "l2"}
  Advisers = {"entity_grounding", "source_refetch"}
  KgEnabled = TRUE
  MaxExtractions = 1
SPECIFICATION Spec
INVARIANTS RejectedNeedsCause UntouchedIsExported SilenceNeverVerifies
PROPERTIES DemoteOnly
CHECK_DEADLOCK FALSE
