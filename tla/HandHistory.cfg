SPECIFICATION Spec
CONSTANTS
  author = author
  someone = someone
  Documents <- MCDocuments
  FreshActions <- MCFreshActions
  Amounts = {9}
  MaxHands = 2
  MaxEdits = 2
  MaxReads = 2
INVARIANTS
  ReadBackIsWhatWasWritten
  MasksAreWhole
