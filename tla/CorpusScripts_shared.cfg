CONSTANTS
  A = A
  A2 = A2
  B = B
  outA = outA
  outB = outB
  w1 = w1
  w2 = w2
  fiction = fiction
  File <- MCFile
  Name <- MCName
  OutName <- MCOutName
  Content <- MCContents
  Malformed = Malformed
  Absent = Absent
  NoType = NoType
  Missing = Missing
  Pieces <- MCPieces
  Warnings <- MCWarnings
  PipeSize = 1
  MaxLive = 2
  MaxFiles = 2
SPECIFICATION Spec
INVARIANTS NeverMixed ParsedTitleOrText ExtractedTextOrTitle
