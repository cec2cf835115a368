CONSTANTS
  Threads = {p1, p2}
  NoThread = NoThread
  Errors = {e1, e2}
  BadAlloc = BadAlloc
  Mismatch = Mismatch
  NoError = NoError
  Weights = {1, 2}
  StoredWeight = 1
  Unread = Unread
SPECIFICATION Spec
INVARIANTS
  CallReadsCombos
