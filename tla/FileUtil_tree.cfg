CONSTANTS
  texts = texts
  a = a
  b = b
  f = f
  g = g
  h = h
  ln = ln
  Path <- MCPath
  Root = texts
  Entries <- MCEntries
  Canonical <- MCNoLink
  StackLimit = 4
  MaxTouched = 1
SPECIFICATION FairSpec
INVARIANTS ListedOnce
PROPERTIES Terminates
