CONSTANTS
  texts = texts
  a = a
  b = b
  f = f
  g = g
  h = h
  ln = ln
  Path <- MCPath
  Root = texts
  Entries <- MCEntries
  Canonical <- MCLinkUp
  StackLimit = 3
  MaxTouched = 1
SPECIFICATION Spec
INVARIANTS TypeOK NoSteadyFileLost OnlyFilesListed
