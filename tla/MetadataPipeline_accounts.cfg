CONSTANTS
  texts = texts
  a = a
  b = b
  g = g
  h = h
  ln = ln
  Path <- MCPath
  Root = texts
  Entries <- MCEntries
  Canonical <- MCLinkAcross
  StackLimit = 4
  MaxTouched = 0
  Name <- MCPath
  OutName <- MCOutName
  Content <- MCContents
  Malformed = Malformed
  Absent = Absent
  NoType = NoType
  Missing = Missing
SPECIFICATION MainSpec
INVARIANTS EachFileAccountedFor OnlyTheCorpusIsSaved
PROPERTIES ListsTheCorpus
