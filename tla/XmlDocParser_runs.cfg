CONSTANTS
  A = A
  A2 = A2
  B = B
  outA = outA
  outB = outB
  File <- MCFile
  Name <- MCName
  OutName <- MCOutName
  Content <- MCDocuments
  Malformed = Malformed
  Absent = Absent
  NoType = NoType
  Missing = Missing
  MaxFiles = 2
  MaxRuns = 2
SPECIFICATION FairSpec
INVARIANTS TypeOK SavedOrReported LeaksReported
PROPERTIES OnlyDocumentsOverwrite CommitsOrAborts Completes
