CONSTANTS
  texts = texts
  a = a
  b = b
  f = f
  g = g
  h = h
  ln = ln
  Path <- MCShort
  Root = texts
  Entries <- MCShortEntries
  Canonical <- MCShortLinkAcross
  StackLimit = 4
  MaxTouched = 0
SPECIFICATION Spec
INVARIANTS AllFilesUnderPath
