SPECIFICATION Spec
CONSTANTS
  Aws = {a1, a2}
  Azure = {b1}
  Connected = {a1, b1}
  Scanned = {a1, b1}
  NoAccount = NoAccount
  Requests = {r1}
  MaxInputs = 3
INVARIANTS TypeOK ScopeIsKnown SettledIsServer FindingsAreScoped ShowsWhatIsDue
PROPERTY ConsoleCatchesUp
CHECK_DEADLOCK FALSE
