\* Two files of two rows.  All jobs may have ended with no requests left.
CHECK_DEADLOCK FALSE
SPECIFICATION Spec
CONSTANTS
  Jobs = {a, b}
  LastRow = 2
  Keys = {k}
  Clients = {c1, c2}
  Nobody = Nobody
  MaxRecords = 3
  MaxRequests = 3
  MaxUpsets = 1
SYMMETRY MCSymmetry
INVARIANTS
  RowsImportOnce
  UndoneIsUndone
  EditsCanBeHadBack
