CONSTANTS
  Nodes = {step, trigger}
  Forms = {step, trigger}
  Triggers = {trigger}
  Dropped = {trigger}
  Saves = {s1, s2}
  MaxEdits = 2
  Broken = {2}
  Nobody = Nobody
SPECIFICATION Spec
INVARIANTS TypeOK CleanMeansStored EditsAccounted RunsWhatIsShown
PROPERTIES NothingGoesBack SettlesOnServer
