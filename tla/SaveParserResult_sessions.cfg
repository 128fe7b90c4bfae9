CONSTANTS
  r1 = r1
  r2 = r2
  r3 = r3
  Run <- MCRun
  MaxSessions = 2
SPECIFICATION FairSpec
INVARIANTS TypeOK OrphansAreReported
PROPERTIES SessionsEnd
