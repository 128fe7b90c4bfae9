CONSTANTS
  A = A
  A2 = A2
  B = B
  outA = outA
  outB = outB
  File <- MCFile
  Name <- MCName
  OutName <- MCOutName
  Pieces <- MCPieces
  Warnings <- MCWarnings
  Missing = Missing
  PipeSize = 1
  MaxLive = 2
  MaxFiles = 2
SPECIFICATION Spec
INVARIANTS EachFileExtracted
