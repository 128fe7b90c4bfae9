CONSTANTS
  Size = 5
  Documents <- MCDocuments
  Sheets <- MCSheets
SPECIFICATION Spec
INVARIANTS TextComesOut
