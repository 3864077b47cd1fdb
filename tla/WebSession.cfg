SPECIFICATION Spec
CONSTANTS
  Tabs = {t1, t2}
  Calls = {c1}
  MaxSessions = 3
INVARIANTS TypeOK OnePerLogin StaysSignedIn SignedOut
PROPERTIES SessionsChain LoadEnds
CHECK_DEADLOCK FALSE
